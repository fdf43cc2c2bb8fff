----------------------------- MODULE Deployment -----------------------------
(* The production configuration: the environment an operator edits, the doctor
   that passes or fails it (lib/production-config.ts) and the processes that read
   it again, each with checks of its own, when they start or serve: the Eve agent,
   the Web server, the mailbox worker, the migration and the sandbox reaper.
   A value is one of a few classes, the ones a check tells apart: "unset" also
   stands for blank, "good" for the value of a working installation. *)
EXTENDS Naturals, FiniteSets

CONSTANT MaxEdited       \* variables that differ from the working installation at once

Secrets == {"AGENT_HOST_JWT_SECRET", "AGENT_MAILBOX_DISPATCH_SECRET", "AGENT_MAILBOX_WORKER_SECRET",
            "AGENT_PREVIEW_SIGNING_SECRET", "AGENT_HOST_TOOLS_SECRET"}
Integers == {"AGENT_MAILBOX_WORKER_INTERVAL_MS", "AGENT_MODEL_MAX_OUTPUT_TOKENS", "AGENT_PROVIDER_HTTP_TIMEOUT_MS",
             "EVE_NEXT_PRODUCTION_PORT", "EVE_SANDBOX_RETENTION_HOURS", "EVE_SANDBOX_REAPER_MAX_REMOVALS"}
Tuning == {"AGENT_DATABASE_MAX_POOL_SIZE", "AGENT_RUNTIME_REQUEST_TIMEOUT_MS", "AGENT_RUN_CANCELLATION_GRACE_MS",
           "AGENT_PREVIEW_TTL_SECONDS", "AGENT_HOST_TOOLS_TIMEOUT_MS", "AGENT_HOST_JWT_CLOCK_SKEW_SECONDS",
           "AGENT_RUNTIME_CONFIG_JSON", "AGENT_MODEL_ID"}
Urls == {"AGENT_RUNTIME_URL", "AGENT_PUBLIC_BASE_URL", "AGENT_HOST_TOOLS_URL", "OPENAI_BASE_URL"}
Databases == {"AGENT_DATABASE_URL", "WORKFLOW_POSTGRES_URL"}
Options ==
  [AGENT_DEPLOYMENT_TENANCY |-> {"unset", "other", "multi-tenant"},
   AGENT_SANDBOX_BACKEND |-> {"unset", "other", "microsandbox"},
   AGENT_SANDBOX_IMAGE |-> {"unset", "tag", "spaced"},
   AGENT_BASH_APPROVAL_MODE |-> {"never", "other"},
   AGENT_PROVIDER_MODE |-> {"mock"},
   AGENT_HOST_JWT_ISSUER |-> {"unset"},
   AGENT_HOST_JWT_AUDIENCE |-> {"unset", "commas"},
   AGENT_HOST_JWT_ALGORITHM |-> {"HS512", "other"},
   AGENT_DATABASE_SCHEMA |-> {"workflow", "other"},
   WORKFLOW_TARGET_WORLD |-> {"other"},
   AGENT_EMBED_ALLOWED_ORIGINS |-> {"unset", "path", "relative"},
   AGENT_REVOKED_EXTENSIONS |-> {"unversioned"},
   OPENAI_API_KEY |-> {"unset"}]
Variables == Secrets \cup Integers \cup Tuning \cup Urls \cup Databases \cup DOMAIN Options

(* A secret "wide" has 32 bytes and fewer characters; a number "respelled" is in
   range and not in its shortest form (04275); a database URL may name the other
   variable's database, plainly ("shared") or by another name of its host. *)
Classes(v) ==
  CASE v \in Secrets -> {"unset", "short", "wide"}
    [] v \in Integers -> {"unset", "outside", "respelled"}
    [] v \in Tuning -> {"outside"}
    [] v \in Urls -> {"unset", "blank", "relative", "http", "loopback", "loopback6", "path"}
    [] v \in Databases -> {"unset", "malformed", "shared", "alias"}
    [] OTHER -> Options[v]

Processes == {"migration", "eve", "web", "worker", "reaper"}

VARIABLES
  env,          \* class of each variable the operator edited, the others are "good"
  doctor,       \* the doctor's verdict on env: "unknown" after an edit
  process       \* the process started last, and the variables it refused
deploymentVars == <<env, doctor, process>>

Idle == [name |-> "none", passed |-> FALSE, refused |-> {}]
DeploymentInit ==
  /\ env = [v \in {} |-> "good"]
  /\ doctor = "unknown"
  /\ process = Idle

DeploymentTypeOK ==
  /\ DOMAIN env \subseteq Variables /\ \A v \in DOMAIN env : env[v] \in Classes(v)
  /\ doctor \in {"unknown", "pass", "fail"}
  /\ process.name \in Processes \cup {"none"} /\ process.refused \subseteq Variables

Is(v, classes) == (IF v \in DOMAIN env THEN env[v] ELSE "good") \in classes
Missing(v) == Is(v, {"unset", "blank"})

-----------------------------------------------------------------------------
(* The doctor. *)

Required ==
  {"OPENAI_API_KEY", "AGENT_MODEL_MAX_OUTPUT_TOKENS", "AGENT_PROVIDER_HTTP_TIMEOUT_MS", "AGENT_DEPLOYMENT_TENANCY",
   "AGENT_RUNTIME_URL", "AGENT_SANDBOX_IMAGE", "AGENT_HOST_JWT_ISSUER", "AGENT_HOST_JWT_AUDIENCE",
   "AGENT_EMBED_ALLOWED_ORIGINS", "AGENT_PUBLIC_BASE_URL"} \cup Databases
  \cup (Secrets \ {"AGENT_HOST_TOOLS_SECRET"})

\* inspectInteger, called for the sandbox's two integers only under the docker backend.
IntegerFaults ==
  {v \in Integers : Is(v, {"unset", "outside"})
                    /\ (v \in {"EVE_SANDBOX_RETENTION_HOURS", "EVE_SANDBOX_REAPER_MAX_REMOVALS"}
                          => Is("AGENT_SANDBOX_BACKEND", {"good"}))}

\* inspectHttpUrl: an IPv6 loopback is not one, its hostname is written in brackets.
UrlFaults == {v \in Urls : Is(v, {"relative", "http", "loopback6"})}

\* The public base is an HTTPS origin, not even a loopback one.
BaseUrlFaults == {v \in {"AGENT_PUBLIC_BASE_URL"} : Is(v, {"loopback", "path"})}

\* postgresDatabaseIdentity: two databases are one when host, port and name are.
DatabaseFaults == {v \in Databases : Is(v, {"malformed", "shared"})}

\* Mutant: the secrets' lengths are not checked.
SecretsUnmeasured ==
  {v \in {"AGENT_HOST_TOOLS_SECRET"} : Missing(v) # Missing("AGENT_HOST_TOOLS_URL")}

\* Secrets are measured in bytes; the Host tools' URL and secret come together.
SecretFaults ==
  {v \in Secrets : Is(v, {"short"})}
  \cup {v \in {"AGENT_HOST_TOOLS_SECRET"} : Missing(v) # Missing("AGENT_HOST_TOOLS_URL")}

SandboxFaults ==
  {v \in {"AGENT_SANDBOX_BACKEND"} :
     Is(v, {"unset", "other"}) \/ (Is(v, {"good"}) /\ Is("AGENT_DEPLOYMENT_TENANCY", {"multi-tenant"}))}
  \cup {v \in {"AGENT_SANDBOX_IMAGE"} : Is(v, {"tag", "spaced"})}

\* What only tests set, and approvals that never ask.
TestOnlyFaults ==
  {v \in {"AGENT_BASH_APPROVAL_MODE", "AGENT_PROVIDER_MODE"} : Is(v, {"never", "other", "mock"})}

\* readAgentDeploymentTenancy
TenancyFaults == {v \in {"AGENT_DEPLOYMENT_TENANCY"} : Is(v, {"other"})}

\* The JWT algorithm, the product's schema and the Workflow World have one good form.
ChoiceFaults ==
  {v \in {"AGENT_HOST_JWT_ALGORITHM", "AGENT_DATABASE_SCHEMA", "WORKFLOW_TARGET_WORLD"} :
     Is(v, {"other", "HS512", "workflow"})}

\* inspectFrameOrigins: exact origins.
OriginFaults == {v \in {"AGENT_EMBED_ALLOWED_ORIGINS"} : Is(v, {"path", "relative"})}

RevokedFaults == {v \in {"AGENT_REVOKED_EXTENSIONS"} : Is(v, {"unversioned"})}

\* inspectProductionConfiguration: every check adds a diagnostic, none stops the others.
Diagnosed ==
  {v \in Required : Missing(v)} \cup IntegerFaults \cup UrlFaults \cup BaseUrlFaults \cup DatabaseFaults
  \cup SecretFaults \cup SandboxFaults \cup TestOnlyFaults \cup TenancyFaults \cup ChoiceFaults
  \cup OriginFaults \cup RevokedFaults

RunDoctor ==
  /\ doctor = "unknown"
  /\ doctor' = IF Diagnosed = {} THEN "pass" ELSE "fail"
  /\ UNCHANGED <<env, process>>

-----------------------------------------------------------------------------
(* The processes' own readers. *)

\* readAgentDatabaseConfig: without a URL there is no database, the callers choose a
\* local store or answer 503 (every process but these two readers).
DatabaseRefused ==
  {v \in {"AGENT_DATABASE_SCHEMA"} : Is(v, {"other"})}
  \cup {v \in {"AGENT_DATABASE_MAX_POOL_SIZE"} : Is(v, {"outside"})}

\* hostJwtAuthFromEnvironment and normalizeConfig: nothing is checked without a secret;
\* the secret is measured in characters, an audience of commas is empty.
HostAuthRefused ==
  IF Missing("AGENT_HOST_JWT_SECRET") THEN {}
  ELSE {v \in {"AGENT_HOST_JWT_SECRET"} : Is(v, {"short", "wide"})}
       \cup {v \in {"AGENT_HOST_JWT_ISSUER", "AGENT_HOST_JWT_AUDIENCE"} : Is(v, {"unset", "commas"})}
       \cup {v \in {"AGENT_HOST_JWT_ALGORITHM"} : Is(v, {"other"})}
       \cup {v \in {"AGENT_HOST_JWT_CLOCK_SKEW_SECONDS"} : Is(v, {"outside"})}

\* resolveSecret: bytes.
DispatchRefused == {v \in {"AGENT_MAILBOX_DISPATCH_SECRET"} : Is(v, {"unset", "short"})}

\* readPreviewSigningSecret and readPreviewTtlSeconds: characters.
PreviewSecretRefused == {v \in {"AGENT_PREVIEW_SIGNING_SECRET"} : Is(v, {"unset", "short", "wide"})}

\* hostClient, when the URL is set: characters; createAgentHostCapabilityClient takes any URL.
HostToolsRefused ==
  IF Missing("AGENT_HOST_TOOLS_URL") THEN {}
  ELSE {v \in {"AGENT_HOST_TOOLS_SECRET"} : Is(v, {"unset", "short", "wide"})}
       \cup {v \in {"AGENT_HOST_TOOLS_TIMEOUT_MS"} : Is(v, {"outside"})}

\* readDeploymentAgentRuntimeConfig: the configuration hides the model id.
RuntimeConfigRefused ==
  {v \in {"AGENT_RUNTIME_CONFIG_JSON", "AGENT_MODEL_ID"} : Is(v, {"outside"})}

\* defineInstrumentation's setup: the value is not trimmed, a blank one is a bad URL.
InstrumentationRefused == {v \in {"AGENT_HOST_TOOLS_URL"} : Is(v, {"blank", "relative"})}

\* readAgentSandboxBackend and readAgentSandboxImage in production.
SandboxRefused ==
  {v \in {"AGENT_SANDBOX_BACKEND"} : Is(v, {"unset", "other"})}
  \cup {v \in {"AGENT_SANDBOX_IMAGE"} : Is(v, {"spaced"})}

\* readProviderHttpTimeoutMs and readAgentModelMaxOutputTokens: unset is the default.
ModelRefused ==
  {v \in {"AGENT_PROVIDER_HTTP_TIMEOUT_MS", "AGENT_MODEL_MAX_OUTPUT_TOKENS"} : Is(v, {"outside"})}

\* normalizeAgentRuntimeHost, runtimeRequestTimeoutMs and cancellationGraceMs.
RuntimeHostRefused == {v \in {"AGENT_RUNTIME_URL"} : Is(v, {"unset", "blank", "relative"})}
RequestsRefused ==
  {v \in {"AGENT_RUNTIME_REQUEST_TIMEOUT_MS", "AGENT_RUN_CANCELLATION_GRACE_MS"} : Is(v, {"outside"})}

\* configureEveNextProductionPort: the default when unset, else the shortest spelling.
PortRefused == {v \in {"EVE_NEXT_PRODUCTION_PORT"} : Is(v, {"outside", "respelled"})}

\* frameAncestorPolicy and allowedEmbedOrigins keep the origin of every URL.
EmbedRefused == {v \in {"AGENT_EMBED_ALLOWED_ORIGINS"} : Is(v, {"relative"})}

\* workerAuthorized refuses every request under a short secret; the worker takes any.
WorkerSecretRefused == {v \in {"AGENT_MAILBOX_WORKER_SECRET"} : Is(v, {"unset", "short"})}
WorkerRefused ==
  {v \in {"AGENT_MAILBOX_WORKER_SECRET"} : Missing(v)}
  \cup {v \in {"AGENT_MAILBOX_WORKER_INTERVAL_MS"} : Is(v, {"outside"})}

\* The migration checks the schema's name; the reaper's options have no default.
MigrationRefused ==
  {v \in {"AGENT_DATABASE_URL"} : Missing(v)} \cup {v \in {"AGENT_DATABASE_SCHEMA"} : Is(v, {"other"})}
ReaperRefused ==
  {v \in {"EVE_SANDBOX_RETENTION_HOURS", "EVE_SANDBOX_REAPER_MAX_REMOVALS"} : Is(v, {"unset", "outside"})}
  \cup DatabaseRefused

\* publish_preview builds the link from the base URL; a path is dropped, not refused.
LinkRefused == {v \in {"AGENT_PUBLIC_BASE_URL"} : Is(v, {"relative"})}
TtlRefused == {v \in {"AGENT_PREVIEW_TTL_SECONDS"} : Is(v, {"outside"})}
BashRefused == {v \in {"AGENT_BASH_APPROVAL_MODE"} : Is(v, {"other"})}

Refused(p) ==
  CASE p = "migration" -> MigrationRefused
    [] p = "eve" -> DatabaseRefused \cup HostAuthRefused \cup DispatchRefused \cup PreviewSecretRefused \cup TtlRefused
                    \cup HostToolsRefused \cup RuntimeConfigRefused \cup InstrumentationRefused \cup SandboxRefused
                    \cup ModelRefused \cup LinkRefused \cup BashRefused
    [] p = "web" -> DatabaseRefused \cup HostAuthRefused \cup DispatchRefused \cup PreviewSecretRefused \cup RequestsRefused
                    \cup RuntimeConfigRefused \cup RuntimeHostRefused \cup PortRefused \cup EmbedRefused \cup WorkerSecretRefused
    [] p = "worker" -> WorkerRefused
    [] p = "reaper" -> ReaperRefused

-----------------------------------------------------------------------------
Configure(v, c) ==
  /\ v \notin DOMAIN env /\ Cardinality(DOMAIN env) < MaxEdited
  /\ env' = [u \in DOMAIN env \cup {v} |-> IF u = v THEN c ELSE env[u]]
  /\ doctor' = "unknown"
  /\ process' = Idle

\* The reaper is scheduled where the sandboxes are Docker containers.
Start(p) ==
  /\ p = "reaper" => Is("AGENT_SANDBOX_BACKEND", {"good"})
  /\ process' = [name |-> p, passed |-> doctor = "pass", refused |-> Refused(p)]
  /\ UNCHANGED <<env, doctor>>

DeploymentNext ==
  \/ RunDoctor
  \/ \E v \in Variables : \E c \in Classes(v) : Configure(v, c)
  \/ \E p \in Processes : Start(p)
DeploymentSpec == DeploymentInit /\ [][DeploymentNext]_deploymentVars

(* What the doctor does not see: the variables it never reads, secrets measured in
   bytes and read in characters, an audience of commas, a port in another spelling
   and, of the instrumentation, a blank URL. *)
KnownGaps ==
  Tuning
  \cup {v \in {"AGENT_HOST_JWT_SECRET", "AGENT_PREVIEW_SIGNING_SECRET", "AGENT_HOST_TOOLS_SECRET"} : Is(v, {"wide"})}
  \cup {v \in {"AGENT_HOST_JWT_AUDIENCE"} : Is(v, {"commas"})}
  \cup {v \in {"EVE_NEXT_PRODUCTION_PORT"} : Is(v, {"respelled"})}
  \cup {v \in {"AGENT_HOST_TOOLS_URL"} : Is(v, {"blank"})}

(* A configuration the doctor passes is one every process can read: whatever a
   process refuses of it is in the short list of gaps above, so a new reader or a
   changed check that the doctor does not follow adds to the list. *)
PassedMeansReadable == process.passed => process.refused \subseteq KnownGaps
====
