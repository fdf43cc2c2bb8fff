---------------------------- MODULE Publications ----------------------------
(***************************************************************************)
(* Results that leave a session: static previews and artifacts.  The       *)
(* publishing tools read a tree of the sandbox file by file while the      *)
(* agent's own processes may still write it, store it in PostgreSQL or in  *)
(* the development directory, and sign a link; the routes serve it to      *)
(* whoever holds the link, and previews also by a cookie that the first    *)
(* request sets, or to the standalone browser that owns them after the     *)
(* signing key was changed (server/http/preview-request-auth.ts).          *)
(*                                                                         *)
(* One step is one file operation, statement, or request.                  *)
(***************************************************************************)
EXTENDS Naturals, FiniteSets, FiniteSetsExt

CONSTANTS
  PubIds,       \* prv_ and art_ identifiers
  Artifacts,    \* those of artifacts
  Paths, Entrypoint,
  Unsafe,       \* paths that normalizeRelativePath and safePath refuse
  Browsers,
  Nothing,
  MaxEdits,     \* bound: writes to the sandbox
  MaxKeys,      \* bound: signing keys
  MaxMints,     \* bound: standalone credentials
  MaxPubTime    \* bound: the clock

ASSUME PublicationsAssumption ==
  /\ Artifacts \subseteq PubIds /\ Entrypoint \in Paths /\ Unsafe \subseteq Paths
  /\ {MaxEdits, MaxMints, MaxPubTime} \subseteq Nat /\ MaxKeys \in Nat \ {0}

VARIABLES
  backend,     \* which store the environment selects
  sandbox,     \* path -> version of its content, 0 for no file
  edits,
  publishing,  \* calls of the publishing tools
  publications,\* committed rows, or files and meta.json in the directory
  signingKey,
  cookies,     \* per browser: its identity and its preview access
  minting,     \* answers with a new identity, on their way
  mints,
  links,       \* the signed links that tools returned
  recovered,   \* tokens signed again for an owner, and for whom: history
  pubClock

publicationsVars == <<backend, sandbox, edits, publishing, publications, signingKey, cookies,
                      minting, mints, links, recovered, pubClock>>

Version == 0..MaxEdits + 1
Token == [id: PubIds, expires: Nat, key: 1..MaxKeys]
NotPublishing == [at |-> "none"]
Published == [at |-> "done"]
PublishingFailed == [at |-> "failed"]
Publishing == [at: {"reading", "writing", "signing"}, owner: 0..MaxMints,
               listing: SUBSET Paths, read: [Paths -> Version], expires: Nat]
\* meta is FALSE while a directory has no meta.json; a row has it at once.
NotPublished == [files |-> [p \in Paths |-> 0], count |-> 0, meta |-> FALSE, owner |-> 0, expires |-> 0]

PublicationsTypeOK ==
  /\ sandbox \in [Paths -> Version] /\ edits \in 0..MaxEdits
  /\ publishing \in [PubIds -> Publishing \cup {NotPublishing, Published, PublishingFailed}]
  /\ \A u \in PubIds : publications[u].files \in [Paths -> Version]
  /\ signingKey \in 1..MaxKeys /\ mints \in 0..MaxMints /\ pubClock \in 0..MaxPubTime
  /\ cookies \in [Browsers -> [identity: 0..MaxMints, access: [PubIds -> Token \cup {Nothing}]]]
  /\ links \subseteq Token
  /\ recovered \subseteq [token: Token, identity: 1..MaxMints]

PublicationsInit ==
  /\ backend \in {"postgres", "filesystem"}
  /\ sandbox = [p \in Paths |-> IF p = Entrypoint THEN 1 ELSE 0]
  /\ edits = 0
  /\ publishing = [u \in PubIds |-> NotPublishing]
  /\ publications = [u \in PubIds |-> NotPublished]
  /\ signingKey = 1
  /\ cookies = [b \in Browsers |-> [identity |-> 0, access |-> [u \in PubIds |-> Nothing]]]
  /\ minting = {} /\ mints = 0 /\ links = {} /\ recovered = {} /\ pubClock = 0

-----------------------------------------------------------------------------
(* The sandbox, the clock, the operator, and the browser's identity.       *)

WriteSandbox(p, v) ==
  /\ edits < MaxEdits
  /\ edits' = edits + 1 /\ sandbox' = [sandbox EXCEPT ![p] = v]
  /\ UNCHANGED <<publishing, publications, signingKey, cookies, minting, mints, links, recovered, pubClock>>

TickPublications ==
  /\ pubClock < MaxPubTime /\ pubClock' = pubClock + 1
  /\ UNCHANGED <<sandbox, edits, publishing, publications, signingKey, cookies, minting, mints, links, recovered>>

RotateKey ==
  /\ signingKey < MaxKeys /\ signingKey' = signingKey + 1
  /\ UNCHANGED <<sandbox, edits, publishing, publications, cookies, minting, mints, links, recovered, pubClock>>

\* authenticateStandaloneRequest: a request without a valid credential gets a new
\* one; two requests of one browser may both be without.
MintIdentity(b) ==
  /\ cookies[b].identity = 0 /\ mints < MaxMints
  /\ mints' = mints + 1
  /\ minting' = minting \cup {[browser |-> b, identity |-> mints + 1]}
  /\ UNCHANGED <<sandbox, edits, publishing, publications, signingKey, cookies, links, recovered, pubClock>>

\* The answer arrives, and its cookie replaces the one before.
AcceptIdentity(m) ==
  /\ minting' = minting \ {m}
  /\ cookies' = [cookies EXCEPT ![m.browser].identity = m.identity]
  /\ UNCHANGED <<sandbox, edits, publishing, publications, signingKey, mints, links, recovered, pubClock>>

-----------------------------------------------------------------------------
(* publish_preview and publish_artifact.                                   *)

\* resolveStandaloneRequestIdentity: only a credential the browser already has.
Identity(b) == cookies[b].identity

PublishStep(u, next) ==
  /\ publishing' = [publishing EXCEPT ![u] = next]
  /\ UNCHANGED <<sandbox, edits, signingKey, cookies, minting, mints, recovered, pubClock>>

Stored(u, record) == publications' = [publications EXCEPT ![u] = record]

\* publicationOwnerFromAuth: the owner is the turn's principal.
Begin(u, b, listing) ==
  /\ publishing[u] = NotPublishing /\ Identity(b) # 0
  /\ PublishStep(u, [at |-> "reading", owner |-> Identity(b), listing |-> listing,
                     read |-> [p \in Paths |-> 0], expires |-> 0])
  /\ UNCHANGED <<publications, links>>

\* The listing of the selected root.
BeginPublishing(u, b, listing) ==
  /\ u \notin Artifacts /\ Begin(u, b, listing)
  /\ listing # {} /\ listing \subseteq {p \in Paths : sandbox[p] # 0}

\* The one path of an artifact, which nothing listed before.
BeginArtifact(u, b, p) == u \in Artifacts /\ Begin(u, b, {p})

UnreadFiles(v) == {p \in v.listing : v.read[p] = 0}

\* readBinaryFile of the next path: a file that has gone, and a path that escapes
\* the root, fail the call.
ReadSandboxFile(u, p) ==
  LET v == publishing[u] IN
  /\ u \notin Artifacts /\ v.at = "reading" /\ p \in UnreadFiles(v)
  /\ PublishStep(u, IF sandbox[p] = 0 \/ p \in Unsafe THEN PublishingFailed
                    ELSE [v EXCEPT !.read[p] = sandbox[p]])
  /\ UNCHANGED <<publications, links>>

\* The token expires with the record.
CreateIf(accepted, u, v) ==
  /\ PublishStep(u, IF accepted THEN [v EXCEPT !.at = "writing", !.expires = pubClock + 1]
                    ELSE PublishingFailed)
  /\ UNCHANGED <<publications, links>>

\* A preview has its entrypoint; assertPreviewInput.
BeginCreate(u) ==
  LET v == publishing[u] IN
  /\ u \notin Artifacts /\ v.at = "reading" /\ UnreadFiles(v) = {}
  /\ CreateIf(Entrypoint \in v.listing, u, v)

\* The file of an artifact is there and not empty; assertArtifactInput: the file's
\* own name, unless the tool was given one, must be safe.
BeginCreateArtifact(u, named) ==
  LET v == publishing[u] IN
  /\ u \in Artifacts /\ v.at = "reading"
  /\ \E p \in v.listing :
       CreateIf(sandbox[p] # 0 /\ (p \in Unsafe => named), u, [v EXCEPT !.read[p] = sandbox[p]])

\* A record and its files at once.
Insert(u) ==
  LET v == publishing[u] IN
  /\ v.at = "writing" /\ backend = "postgres"
  /\ PublishStep(u, [v EXCEPT !.at = "signing"])
  /\ Stored(u, [files |-> v.read, count |-> Cardinality(v.listing), meta |-> TRUE,
                owner |-> v.owner, expires |-> v.expires])
  /\ UNCHANGED links

\* PostgreSQL: one transaction for a preview, one row for an artifact.
InsertPublication(u) == u \notin Artifacts /\ Insert(u)
InsertArtifact(u) == u \in Artifacts /\ Insert(u)

\* The development directory: one file after the other, and meta.json last.
WriteOne(u, p) ==
  LET v == publishing[u] IN
  /\ v.at = "writing" /\ backend = "filesystem"
  /\ p \in v.listing /\ publications[u].files[p] = 0
  /\ PublishStep(u, v)
  /\ Stored(u, [publications[u] EXCEPT !.files[p] = v.read[p]])
  /\ UNCHANGED links
WriteFile(u, p) == u \notin Artifacts /\ WriteOne(u, p)
WriteContent(u, p) == u \in Artifacts /\ WriteOne(u, p)

Described(u) ==
  LET v == publishing[u] IN
  [publications[u] EXCEPT !.meta = TRUE, !.count = Cardinality(v.listing), !.owner = v.owner, !.expires = v.expires]

\* Mutant: the record is written before the files.
WriteMetaFirst(u) ==
  /\ publishing[u].at = "writing" /\ backend = "filesystem" /\ ~publications[u].meta
  /\ PublishStep(u, publishing[u])
  /\ Stored(u, Described(u))
  /\ UNCHANGED links

WriteMeta(u) ==
  /\ publishing[u].at = "writing" /\ backend = "filesystem"
  /\ \A p \in publishing[u].listing : publications[u].files[p] # 0
  /\ PublishStep(u, [publishing[u] EXCEPT !.at = "signing"])
  /\ Stored(u, Described(u))
  /\ UNCHANGED links

\* createPreviewToken and createArtifactToken; the link is returned.
SignedToken(u) == [id |-> u, expires |-> publishing[u].expires, key |-> signingKey]
SignArtifactLink(u) ==
  /\ u \in Artifacts /\ publishing[u].at = "signing"
  /\ links' = links \cup {SignedToken(u)}
  /\ PublishStep(u, Published)
  /\ UNCHANGED publications
SignLink(u) ==
  /\ u \notin Artifacts /\ publishing[u].at = "signing"
  /\ links' = links \cup {SignedToken(u)}
  /\ PublishStep(u, Published)
  /\ UNCHANGED publications

\* The process dies, or a statement or a write fails.
PublishingFails(u) ==
  /\ publishing[u].at \in {"reading", "writing", "signing"}
  /\ PublishStep(u, PublishingFailed)
  /\ UNCHANGED <<publications, links>>

-----------------------------------------------------------------------------
(* The routes.                                                             *)

\* A preview's store, with readFile, and an artifact's, with read: nothing is found
\* without meta.json.
FindPublication(u) == publications[u].meta
FindArtifact(u) == publications[u].meta
ReadArtifact(u) == FindArtifact(u) /\ \E p \in Paths : publications[u].files[p] # 0
Expired(u) == publications[u].expires <= pubClock

\* verifyPreviewToken and verifyArtifactToken
ValidToken(t, u) == t # Nothing /\ t.id = u /\ t.key = signingKey /\ t.expires > pubClock

\* authenticatePreviewRequest: the token of the query hides the one of the cookie.
RequestToken(b, u, query) == IF query # Nothing THEN query ELSE cookies[b].access[u]

\* Mutant: any standalone browser recovers a preview.
AnyoneRecovers(b, u) == Identity(b) # 0 /\ ~Expired(u)

\* recoverOwnedPreviewRequest
OwnerRecovers(b, u) ==
  Identity(b) # 0 /\ Identity(b) = publications[u].owner /\ ~Expired(u)

KeepAccess(b, u, t) == cookies' = [cookies EXCEPT ![b].access[u] = t]

\* GET of a preview's file: found, not expired, and accessed by a token or by its
\* owner; a token of the query, and a recovered one, become the browser's cookie.
PreviewExists(u, p) ==
  /\ u \notin Artifacts /\ FindPublication(u) /\ ~Expired(u)
  /\ p \notin Unsafe /\ publications[u].files[p] # 0
GetPreview(b, u, p, query) ==
  /\ PreviewExists(u, p)
  /\ \/ /\ query # Nothing /\ ValidToken(query, u)
        /\ KeepAccess(b, u, query)
        /\ UNCHANGED recovered
     \/ /\ ~ValidToken(RequestToken(b, u, query), u) /\ OwnerRecovers(b, u)
        /\ LET t == [id |-> u, expires |-> publications[u].expires, key |-> signingKey] IN
             KeepAccess(b, u, t) /\ recovered' = recovered \cup {[token |-> t, identity |-> Identity(b)]}
  /\ UNCHANGED <<sandbox, edits, publishing, publications, signingKey, minting, mints, links, pubClock>>

\* GET of an artifact: the token of the query only; nothing changes.
ArtifactServed(u, query) ==
  u \in Artifacts /\ ValidToken(query, u) /\ FindArtifact(u) /\ ~Expired(u) /\ ReadArtifact(u)

-----------------------------------------------------------------------------
PublicationsNext ==
  /\ UNCHANGED backend
  /\ \/ TickPublications \/ RotateKey
     \/ \E p \in Paths, v \in {0, edits + 2} : v \in Version /\ WriteSandbox(p, v)
     \/ \E m \in minting : AcceptIdentity(m)
     \/ \E u \in PubIds :
          \/ publishing[u] # NotPublishing /\
               \/ BeginCreate(u) \/ InsertPublication(u) \/ InsertArtifact(u) \/ WriteMeta(u)
               \/ SignLink(u) \/ SignArtifactLink(u) \/ PublishingFails(u)
               \/ \E named \in BOOLEAN : BeginCreateArtifact(u, named)
               \/ \E p \in Paths : ReadSandboxFile(u, p) \/ WriteFile(u, p) \/ WriteContent(u, p)
     \/ \E b \in Browsers :
          \/ MintIdentity(b)
          \/ \E u \in PubIds :
               \/ \E listing \in SUBSET Paths : BeginPublishing(u, b, listing)
               \/ \E p \in Paths : BeginArtifact(u, b, p)
               \/ \E query \in links \cup {Nothing}, p \in Paths : GetPreview(b, u, p, query)

PublicationsSpec == PublicationsInit /\ [][PublicationsNext]_publicationsVars

-----------------------------------------------------------------------------
(* Properties.                                                             *)

\* What find returns is whole, whichever store holds it and wherever a publication
\* stopped: every file that the record counts can be read.  So a link that a tool
\* returned serves its entrypoint, or its artifact, until it expires or the signing
\* key changes.
FoundIsComplete ==
  /\ \A u \in PubIds : FindPublication(u) =>
       Cardinality({p \in Paths : publications[u].files[p] # 0}) = publications[u].count
  /\ \A t \in links : ValidToken(t, t.id) =>
       PreviewExists(t.id, Entrypoint) \/ ArtifactServed(t.id, t)

\* A browser's access to a preview was earned, across key changes, kept cookies and
\* identities minted twice: its cookie holds a token that a tool returned as a link,
\* or one signed again for the identity that published the preview, and neither
\* outlives the preview.
AccessIsEarned ==
  /\ \A r \in recovered : r.identity = publications[r.token.id].owner
  /\ \A b \in Browsers, u \in PubIds :
       LET t == cookies[b].access[u] IN
       t # Nothing => /\ t.expires = publications[u].expires
                      /\ t \in links \cup {r.token : r \in recovered}
=============================================================================
