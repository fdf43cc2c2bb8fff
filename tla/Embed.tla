-------------------------------- MODULE Embed --------------------------------
(***************************************************************************)
(* The workspace inside a Host's page (app/embed, agent-embed.ts).  The    *)
(* Host configures the frame by messages, again whenever its token is      *)
(* renewed or its user opens another workspace; the frame mounts a         *)
(* workspace per storage key and profile, which loads its threads and      *)
(* saves its edits after a delay with the storage, and the token, of the   *)
(* moment.                                                                 *)
(*                                                                         *)
(* One step is one message, one answer of the service, one edit or one     *)
(* timer.  A thread is named by the storage key it was made under and a    *)
(* number.  Failed loads and conflicts of saves are Workspace's.           *)
(***************************************************************************)
EXTENDS Naturals, Sequences, FiniteSets, SequencesExt

CONSTANTS
  StorageKeys, Profiles,
  AllowedOrigins,    \* AGENT_EMBED_ALLOWED_ORIGINS
  Unset,
  MaxConfigures,     \* bound: messages of the Host
  MaxMade,           \* bound: threads of a key
  MaxEmbedTime       \* bound: the clock

Origins == {"host", "other"}
Kinds == {"configure", "other"}
Hints == {"none", "valid", "invalid"}
Threads == StorageKeys \X (1..MaxMade)

ASSUME EmbedAssumption ==
  /\ AllowedOrigins \subseteq Origins /\ {MaxConfigures, MaxMade, MaxEmbedTime} \subseteq Nat
  /\ Unset \notin StorageKeys \cup Profiles

VARIABLES
  frame,     \* listening; the allowed parent; the configuration in use and the message of its token
  toFrame,   \* messages on their way to the frame
  toHost,    \* what the frame posted
  mounted,   \* the mounted workspace, or Unset
  delayed,   \* saves whose delay runs, those of unmounted workspaces too
  storedUnder, \* the collections of the service
  embedTime,
  sentTo     \* messages of the Host so far

embedVars == <<frame, toFrame, toHost, mounted, delayed, storedUnder, embedTime, sentTo>>

Configuration == [key: StorageKeys, profile: Profiles, expires: 0..MaxEmbedTime, service: BOOLEAN]
Posted == {"ready", "configured", "invalid-configuration", "service-origin-mismatch",
           "access-token-expired", "turn", "capability"}

EmbedTypeOK ==
  /\ frame \in [parent: Origins \cup {Unset}, listening: BOOLEAN, token: 0..MaxConfigures,
                configuration: Configuration \cup {Unset}]
  /\ \A i \in DOMAIN toFrame : toFrame[i].origin \in Origins /\ toFrame[i].number \in 1..MaxConfigures
  /\ toHost \subseteq Posted /\ embedTime \in 0..MaxEmbedTime /\ sentTo \in 0..MaxConfigures
  /\ mounted = Unset \/ mounted \in [key: StorageKeys, identity: Seq(StorageKeys \cup Profiles),
       loading: BOOLEAN, hydrated: BOOLEAN, threads: SUBSET Threads, timer: StorageKeys \cup {Unset}]
  /\ \A d \in delayed : d.key \in StorageKeys /\ d.threads \subseteq Threads
  /\ storedUnder \in [StorageKeys -> SUBSET Threads]

EmbedInit ==
  /\ \E origin \in Origins :
       frame = [parent |-> IF origin \in AllowedOrigins THEN origin ELSE Unset,
                listening |-> FALSE, token |-> 0, configuration |-> Unset]
  /\ toFrame = <<>> /\ toHost = {} /\ mounted = Unset /\ delayed = {}
  /\ storedUnder = [k \in StorageKeys |-> {}] /\ embedTime = 0 /\ sentTo = 0

-----------------------------------------------------------------------------
(* The Host (external) and the messages.                                   *)

\* parseAgentEmbedHostMessage: the parts of a configuration, and a Runtime Config
\* document, when there is one, that parses.
WellFormed(m) == m.kind = "configure" /\ m.hint # "invalid"

PostConfigure(origin, kind, hint, c) ==
  /\ sentTo < MaxConfigures /\ sentTo' = sentTo + 1
  /\ toFrame' = IF frame.listening
                  THEN Append(toFrame, [origin |-> origin, kind |-> kind, hint |-> hint, c |-> c,
                                        number |-> sentTo + 1])
                  ELSE toFrame     \* no listener: the message is lost
  /\ UNCHANGED <<frame, toHost, mounted, delayed, storedUnder, embedTime>>

\* The effect that installs the listener, when an allowed page embeds this one.
Listen ==
  /\ frame.parent # Unset /\ ~frame.listening
  /\ frame' = [frame EXCEPT !.listening = TRUE]
  /\ toHost' = {"ready"}
  /\ UNCHANGED <<toFrame, mounted, delayed, storedUnder, embedTime, sentTo>>

\* What the message is refused for; parseAgentEmbedHostMessage first.
Refusal(m) ==
  IF ~WellFormed(m) THEN "invalid-configuration"
  ELSE IF ~m.c.service THEN "service-origin-mismatch"
  ELSE IF m.c.expires <= embedTime THEN "access-token-expired" ELSE "configured"

\* Mutant: the workspace is storedUnder when the Host opens another one.
IdentityOfProfile(c) == <<c.profile>>
\* The React key of the workspace.
WorkspaceIdentity(c) == <<c.key, c.profile>>

\* A workspace of another identity is a new one, and the delayed save of the one it
\* replaces stays.  A configuration of the same identity gives the mounted one
\* another storage, which it loads from again.
Mount(c) ==
  LET same == mounted # Unset /\ mounted.identity = WorkspaceIdentity(c) IN
  mounted' = [key |-> c.key, identity |-> WorkspaceIdentity(c), loading |-> TRUE,
              hydrated |-> same /\ mounted.hydrated,
              threads |-> IF same THEN mounted.threads ELSE {},
              timer |-> IF same THEN mounted.timer ELSE Unset]

\* A pending save of an unmounted workspace keeps the collection that was pending.
Unmount(c) ==
  delayed' = IF mounted # Unset /\ mounted.identity # WorkspaceIdentity(c) /\ mounted.timer # Unset
               THEN delayed \cup {[key |-> mounted.timer, threads |-> mounted.threads]} ELSE delayed

Receive ==
  /\ toFrame # <<>> /\ toFrame' = Tail(toFrame)
  /\ UNCHANGED <<storedUnder, embedTime, sentTo>>
  /\ LET m == Head(toFrame) IN
     IF m.origin # frame.parent THEN UNCHANGED <<frame, toHost, mounted, delayed>>
     ELSE /\ toHost' = toHost \cup {Refusal(m)}
          /\ IF Refusal(m) = "configured"
               THEN /\ frame' = [frame EXCEPT !.token = m.number, !.configuration = m.c]
                    /\ Mount(m.c) /\ Unmount(m.c)
               ELSE UNCHANGED <<frame, mounted, delayed>>

-----------------------------------------------------------------------------
(* The workspace, as far as it depends on the configuration.               *)

\* The effect on the threads: they are the pending collection, saved after the delay.
Shows(threads, loading) ==
  mounted' = [mounted EXCEPT !.loading = loading, !.hydrated = TRUE, !.threads = threads,
                             !.timer = IF @ = Unset THEN mounted.key ELSE @]

\* threadStorage.load: what was not saved before is gone from the page.
EmbedLoaded ==
  /\ mounted # Unset /\ mounted.loading /\ Shows(storedUnder[mounted.key], FALSE)
  /\ UNCHANGED <<frame, toFrame, toHost, delayed, storedUnder, embedTime, sentTo>>

\* The first message of a thread; its turn is told to the Host, and the save is due.
EditThread ==
  /\ mounted # Unset /\ mounted.hydrated
  /\ \E n \in 1..MaxMade :
       /\ <<mounted.key, n>> \notin mounted.threads
       /\ Shows(mounted.threads \cup {<<mounted.key, n>>}, mounted.loading)
  /\ toHost' = toHost \cup {"turn"}
  /\ UNCHANGED <<frame, toFrame, delayed, storedUnder, embedTime, sentTo>>

\* The Host hears of a capability when its result completed.
CapabilityCompletes ==
  /\ mounted # Unset /\ mounted.threads # {} /\ "capability" \notin toHost
  /\ toHost' = toHost \cup {"capability"}
  /\ UNCHANGED <<frame, toFrame, mounted, delayed, storedUnder, embedTime, sentTo>>

\* onDeleteThread answered: the thread goes, and the save is due.
DeleteEmbedded ==
  /\ mounted # Unset /\ mounted.hydrated
  /\ \E t \in mounted.threads : Shows(mounted.threads \ {t}, mounted.loading)
  /\ UNCHANGED <<frame, toFrame, toHost, delayed, storedUnder, embedTime, sentTo>>

\* The timer saves the pending collection under the key of the effect that set it.
SaveIsDue ==
  /\ \/ /\ mounted # Unset /\ mounted.timer # Unset
        /\ storedUnder' = [storedUnder EXCEPT ![mounted.timer] = mounted.threads]
        /\ mounted' = [mounted EXCEPT !.timer = Unset] /\ UNCHANGED delayed
     \/ \E d \in delayed :
          storedUnder' = [storedUnder EXCEPT ![d.key] = d.threads] /\ delayed' = delayed \ {d} /\ UNCHANGED mounted
  /\ UNCHANGED <<frame, toFrame, toHost, embedTime, sentTo>>

EmbedTimePasses ==
  /\ embedTime < MaxEmbedTime /\ embedTime' = embedTime + 1
  /\ UNCHANGED <<frame, toFrame, toHost, mounted, delayed, storedUnder, sentTo>>

EmbedNext ==
  \/ \E origin \in Origins, kind \in Kinds, hint \in Hints, c \in Configuration :
       PostConfigure(origin, kind, hint, c)
  \/ Listen \/ Receive \/ EmbedLoaded \/ EditThread \/ CapabilityCompletes \/ DeleteEmbedded \/ SaveIsDue
  \/ EmbedTimePasses

EmbedSpec == EmbedInit /\ [][EmbedNext]_embedVars

-----------------------------------------------------------------------------
(* Properties.                                                             *)

\* However the Host re-configures the frame while loads and delayed saves are on
\* their way, a collection of the service holds only threads made under its own
\* storage key (embed-client.tsx:157, agent-workspace.tsx:207-236).
CollectionsStayApart == \A k \in StorageKeys : \A t \in storedUnder[k] : t[1] = k
=============================================================================
