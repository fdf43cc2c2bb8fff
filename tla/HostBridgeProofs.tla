-------------------------- MODULE HostBridgeProofs --------------------------
(***************************************************************************)
(* Effects on the Host, for every number of capabilities, calls, replays   *)
(* and changes of the catalog: one per call (OneEffectPerCall), and none   *)
(* that neither a user nor the descriptors the session had discovered let  *)
(* pass (EffectsWereDecided).                                              *)
(*                                                                         *)
(* The second is not inductive: a request on its way has no effect yet.    *)
(* Decided carries the decision from the call to the request: the call was *)
(* approved, or a service made it, or the Host says the capability has no  *)
(* effects, or it said so until after the catalog the call was based on.   *)
(***************************************************************************)
EXTENDS HostBridge, TLAPS

USE HostBridgeAssumption

Effect == [call: CallIds, correlation: CallIds \cup {"none"}, send: Nat,
           effect: SideEffects \cup {"unknown"}, since: 0..MaxCatalogs]

Types ==
  /\ HostBridgeTypeOK
  /\ bridgeTime \in Nat
  /\ effects \subseteq Effect

\* The correlation id is the id of the tool call.
Correlated ==
  /\ \A m \in wire : m.correlation = m.call
  /\ \A e \in effects : e.correlation = e.call

\* What a listing says of a capability is what the Host says, unless it changed since.
Faithful(l) ==
  /\ l.version <= catalogVersion
  /\ \A n \in Capabilities :
       \/ hostCatalog[n].since > l.version
       \/ l.descriptors[n] \in {"unknown", hostCatalog[n].effect}

\* Nothing stands between this call and its effect, and it should not.
Decided(v) ==
  \/ v.approved \/ v.actor = "service"
  \/ hostCatalog[v.name].since > v.basis
  \/ hostCatalog[v.name].effect = "none"

\* A call that was sent, now or before.
WasSent(c) == (\E m \in wire : m.call = c) \/ (\E e \in effects : e.call = c)

CallsDecided ==
  /\ \A c \in CallIds : toolCalls[c] # NotCalled => toolCalls[c].basis <= catalogVersion
  /\ \A c \in CallIds :
       (toolCalls[c].at \in {"ready", "sent", "handled"} /\ toolCalls[c].name \in Capabilities)
         => Decided(toolCalls[c])
  /\ \A c \in CallIds : WasSent(c) => /\ toolCalls[c].at \notin {"none", "asking"}
                                      /\ toolCalls[c].name \in AllowedHost
  /\ \A m \in wire : Decided(toolCalls[m.call])

BridgeInv ==
  /\ Types /\ Correlated /\ OneEffectPerCall
  /\ Faithful(listing) /\ Faithful(remembered)
  /\ CallsDecided /\ EffectsWereDecided

\* A call keeps its name, its actor and its basis.
SameCall(v, w) == w.name = v.name /\ w.actor = v.actor /\ w.basis = v.basis

LEMMA BridgeStarts == HostBridgeInit => BridgeInv
<1> SUFFICES ASSUME HostBridgeInit PROVE BridgeInv
  OBVIOUS
<1> USE DEF HostBridgeInit
<1>1. Types
  <2>1. NoListing \in Listing
    BY DEF NoListing, Listing, Descriptors
  <2>2. QED
    BY <2>1 DEF Types, HostBridgeTypeOK, NoCredential
<1>2. Faithful(listing) /\ Faithful(remembered)
  BY DEF Faithful, NoListing
<1>3. CallsDecided
  BY DEF CallsDecided, WasSent, NotCalled
<1>4. QED
  BY <1>1, <1>2, <1>3 DEF BridgeInv, Correlated, OneEffectPerCall, EffectsWereDecided

\* A step of one call that sends nothing and performs nothing.
LEMMA QuietCallStep ==
  ASSUME BridgeInv, NEW c \in CallIds, NEW w \in ToolCall, toolCalls[c] # NotCalled,
         CallStep(c, w), SameCall(toolCalls[c], w),
         w.at # "asking",
         toolCalls[c].at = "asking" \/ w.approved = toolCalls[c].approved,
         \/ w.at \in {"done", "failed"}
         \/ toolCalls[c].at \in {"ready", "sent", "handled"}
         \/ toolCalls[c].at = "asking" /\ w.approved,
         UNCHANGED <<wire, effects, scope>>, credential'.at \in {"none", "held", "unavailable", "refused"}
  PROVE  BridgeInv'
<1> USE DEF CallStep
<1>1. /\ toolCalls[c] \in ToolCall /\ toolCalls' = [toolCalls EXCEPT ![c] = w] /\ toolCalls'[c] = w
      /\ \A d \in CallIds : d # c => toolCalls'[d] = toolCalls[d]
  BY DEF BridgeInv, Types, HostBridgeTypeOK
<1>2. Types'
  BY <1>1 DEF BridgeInv, Types, HostBridgeTypeOK
<1>3. w.at # "none" /\ w # NotCalled
  BY DEF ToolCall, NotCalled
<1>4. ASSUME toolCalls[c].at # "asking", Decided(toolCalls[c]) PROVE Decided(toolCalls[c])'
  BY <1>1, <1>4 DEF Decided, SameCall
<1>5. ASSUME NEW d \in CallIds, d # c, Decided(toolCalls[d]) PROVE Decided(toolCalls[d])'
  BY <1>1, <1>5 DEF Decided
<1>6. CallsDecided'
  <2>1. \A d \in CallIds : toolCalls'[d] # NotCalled => toolCalls'[d].basis <= catalogVersion'
    BY <1>1 DEF BridgeInv, CallsDecided, SameCall
  <2>2. ASSUME NEW d \in CallIds, toolCalls'[d].at \in {"ready", "sent", "handled"},
               toolCalls'[d].name \in Capabilities
        PROVE  Decided(toolCalls[d])'
    <3>1. CASE d # c
      BY <1>1, <1>5, <2>2, <3>1 DEF BridgeInv, CallsDecided
    <3>2. CASE d = c /\ toolCalls[c].at = "asking"
      BY <1>1, <2>2, <3>2 DEF Decided
    <3>3. CASE d = c /\ toolCalls[c].at # "asking"
      BY <1>1, <1>4, <2>2, <3>3 DEF BridgeInv, CallsDecided, SameCall
    <3>4. QED  BY <3>1, <3>2, <3>3
  <2>3. ASSUME NEW d \in CallIds, WasSent(d)'
        PROVE  toolCalls'[d].at \notin {"none", "asking"} /\ toolCalls'[d].name \in AllowedHost
    <3>1. WasSent(d)
      BY <2>3 DEF WasSent
    <3>2. QED  BY <1>1, <1>3, <3>1 DEF BridgeInv, CallsDecided, SameCall
  <2>4. ASSUME NEW m \in wire PROVE m.call \in CallIds /\ Decided(toolCalls[m.call])'
    <3>1. m.call \in CallIds
      BY DEF BridgeInv, Types, HostBridgeTypeOK
    <3>2. WasSent(m.call) /\ Decided(toolCalls[m.call])
      BY DEF WasSent, BridgeInv, CallsDecided
    <3>3. m.call = c => toolCalls[c].at # "asking"
      BY <3>1, <3>2 DEF BridgeInv, CallsDecided
    <3>4. QED  BY <1>4, <1>5, <3>1, <3>2, <3>3
  <2>5. QED  BY <2>1, <2>2, <2>3, <2>4 DEF CallsDecided
<1>7. EffectsWereDecided'
  <2>1. ASSUME NEW e \in effects, e.call = c PROVE toolCalls[c].at # "asking"
    BY <2>1 DEF BridgeInv, CallsDecided, WasSent
  <2>2. \A e \in effects : e.call \in CallIds
    BY DEF BridgeInv, Types, Effect
  <2>3. QED  BY <1>1, <2>1, <2>2 DEF BridgeInv, EffectsWereDecided, SameCall
<1>8. QED
  BY <1>2, <1>6, <1>7 DEF BridgeInv, Correlated, OneEffectPerCall, Faithful

\* A step that leaves the calls, the requests, the effects and the catalog alone.
LEMMA CallsAlone ==
  ASSUME BridgeInv, Types', Faithful(listing)', Faithful(remembered)',
         UNCHANGED <<hostCatalog, catalogVersion, toolCalls, wire, effects>>
  PROVE  BridgeInv'
BY DEF BridgeInv, Correlated, OneEffectPerCall, CallsDecided, WasSent, Decided, EffectsWereDecided

\* The Host changes a capability: what was decided by the old descriptor is excused.
LEMMA ChangeStep ==
  ASSUME BridgeInv, NEW n \in Capabilities, NEW effect \in SideEffects \cup {"unknown"},
         ChangeCatalog(n, effect), UNCHANGED scope
  PROVE  BridgeInv'
<1>1. /\ catalogVersion' = catalogVersion + 1 /\ catalogVersion \in Nat /\ catalogVersion' \in 0..MaxCatalogs
      /\ hostCatalog'[n] = [effect |-> effect, since |-> catalogVersion + 1]
      /\ \A k \in Capabilities : k # n => hostCatalog'[k] = hostCatalog[k]
      /\ hostCatalog' \in [Capabilities -> [effect: SideEffects \cup {"unknown"}, since: 0..MaxCatalogs]]
      /\ UNCHANGED <<listing, remembered, actorType, toolCalls, wire, effects, credential, bridgeTime>>
  BY DEF ChangeCatalog, BridgeInv, Types, HostBridgeTypeOK
<1>2. Types'
  BY <1>1 DEF BridgeInv, Types, HostBridgeTypeOK
<1>3. ASSUME NEW l, l \in Listing, Faithful(l) PROVE Faithful(l)'
  <2>1. l.version \in Nat /\ l.version <= catalogVersion
    BY <1>3 DEF Faithful, Listing
  <2>2. ASSUME NEW k \in Capabilities
        PROVE  hostCatalog'[k].since > l.version \/ l.descriptors[k] \in {"unknown", hostCatalog'[k].effect}
    <3>1. CASE k = n
      BY <1>1, <2>1, <3>1
    <3>2. CASE k # n
      BY <1>1, <1>3, <3>2 DEF Faithful
    <3>3. QED  BY <3>1, <3>2
  <2>3. QED  BY <1>1, <2>1, <2>2 DEF Faithful
<1>4. Faithful(listing)' /\ Faithful(remembered)'
  <2>1. listing \in Listing /\ Faithful(listing) /\ remembered \in Listing /\ Faithful(remembered)
    BY DEF BridgeInv, Types, HostBridgeTypeOK
  <2>2. PICK l \in Listing : l = listing /\ Faithful(l)
    BY <2>1
  <2>3. PICK q \in Listing : q = remembered /\ Faithful(q)
    BY <2>1
  <2>4. Faithful(l)' /\ Faithful(q)'
    BY <1>3, <2>2, <2>3
  <2>5. QED  BY <1>1, <2>2, <2>3, <2>4 DEF Faithful
<1>5. ASSUME NEW c \in CallIds, toolCalls[c] # NotCalled, Decided(toolCalls[c])
      PROVE  Decided(toolCalls[c])'
  <2>1. toolCalls[c].basis \in Nat /\ toolCalls[c].basis <= catalogVersion
        /\ toolCalls[c].name \in Capabilities \cup McpTools
    BY <1>5 DEF BridgeInv, CallsDecided, Types, HostBridgeTypeOK, ToolCall
  <2>2. CASE toolCalls[c].name = n
    BY <1>1, <2>1, <2>2 DEF Decided
  <2>3. CASE toolCalls[c].name # n
    <3>1. hostCatalog'[toolCalls[c].name] = hostCatalog[toolCalls[c].name]
      BY <1>1, <2>3 DEF ChangeCatalog, BridgeInv, Types, HostBridgeTypeOK
    <3>2. QED  BY <1>1, <1>5, <3>1 DEF Decided
  <2>4. QED  BY <2>2, <2>3
<1>6. \A c \in CallIds : toolCalls[c].at \notin {"none"} => toolCalls[c] # NotCalled
  BY DEF NotCalled
<1>7. CallsDecided'
  <2>1. \A c \in CallIds : toolCalls'[c] # NotCalled => toolCalls'[c].basis <= catalogVersion'
    BY <1>1 DEF BridgeInv, CallsDecided, Types, HostBridgeTypeOK, ToolCall
  <2>2. ASSUME NEW c \in CallIds, toolCalls'[c].at \in {"ready", "sent", "handled"},
               toolCalls'[c].name \in Capabilities
        PROVE  Decided(toolCalls[c])'
    BY <1>1, <1>5, <1>6, <2>2 DEF BridgeInv, CallsDecided
  <2>3. \A c \in CallIds : WasSent(c)' => WasSent(c)
    BY <1>1 DEF WasSent
  <2>4. ASSUME NEW m \in wire PROVE Decided(toolCalls[m.call])'
    <3>1. PICK c \in CallIds : c = m.call
      BY DEF BridgeInv, Types, HostBridgeTypeOK
    <3>2. WasSent(c) /\ Decided(toolCalls[c])
      BY <3>1 DEF BridgeInv, CallsDecided, WasSent
    <3>3. QED  BY <1>5, <1>6, <3>1, <3>2 DEF BridgeInv, CallsDecided
  <2>5. QED  BY <1>1, <2>1, <2>2, <2>3, <2>4 DEF BridgeInv, CallsDecided
<1>8. QED
  BY <1>1, <1>2, <1>4, <1>7 DEF BridgeInv, Correlated, OneEffectPerCall, EffectsWereDecided

\* The model calls: a call that starts ready was decided by what the session remembers.
LEMMA CallToolStep ==
  ASSUME BridgeInv, NEW c \in CallIds, NEW n \in Capabilities \cup McpTools, CallTool(c, n), UNCHANGED scope
  PROVE  BridgeInv'
<1> DEFINE v == toolCalls'[c]
<1>1. /\ toolCalls[c] = NotCalled /\ v \in ToolCall /\ toolCalls' = [toolCalls EXCEPT ![c] = v]
      /\ v.name = n /\ v.actor = actorType /\ v.basis = remembered.version /\ ~v.approved
      /\ v.at \in {"asking", "ready"} /\ v # NotCalled
      /\ \A d \in CallIds : d # c => toolCalls'[d] = toolCalls[d]
      /\ UNCHANGED <<hostCatalog, catalogVersion, listing, remembered, actorType, bridgeTime,
                     wire, effects, credential>>
  BY DEF CallTool, CallStep, BridgeInv, Types, HostBridgeTypeOK, ToolCall, Listing, NotCalled
<1>2. Types'
  BY <1>1 DEF BridgeInv, Types, HostBridgeTypeOK
<1>3. ~WasSent(c)
  BY <1>1 DEF BridgeInv, CallsDecided, NotCalled
<1>4. ASSUME v.at = "ready", n \in Capabilities PROVE Decided(toolCalls[c])'
  <2>1. HostApproval(n) # "user-approval"
    BY <1>1, <1>4 DEF CallTool, CallStep, BridgeInv, Types, HostBridgeTypeOK
  <2>2. actorType = "service" \/ remembered.descriptors[n] = "none"
    BY <2>1 DEF HostApproval
  <2>3. remembered.descriptors[n] = "none"
          => hostCatalog[n].since > remembered.version \/ hostCatalog[n].effect = "none"
    BY <1>4 DEF BridgeInv, Faithful
  <2>4. QED  BY <1>1, <2>2, <2>3 DEF Decided
<1>5. ASSUME NEW d \in CallIds, d # c, Decided(toolCalls[d]) PROVE Decided(toolCalls[d])'
  BY <1>1, <1>5 DEF Decided
<1>6. CallsDecided'
  <2>1. \A d \in CallIds : toolCalls'[d] # NotCalled => toolCalls'[d].basis <= catalogVersion'
    BY <1>1 DEF BridgeInv, CallsDecided, Faithful
  <2>2. ASSUME NEW d \in CallIds, toolCalls'[d].at \in {"ready", "sent", "handled"},
               toolCalls'[d].name \in Capabilities
        PROVE  Decided(toolCalls[d])'
    BY <1>1, <1>4, <1>5, <2>2 DEF BridgeInv, CallsDecided
  <2>3. ASSUME NEW d \in CallIds, WasSent(d)'
        PROVE  toolCalls'[d].at \notin {"none", "asking"} /\ toolCalls'[d].name \in AllowedHost
    <3>1. WasSent(d) /\ d # c
      BY <1>1, <1>3, <2>3 DEF WasSent
    <3>2. QED  BY <1>1, <3>1 DEF BridgeInv, CallsDecided
  <2>4. ASSUME NEW m \in wire PROVE Decided(toolCalls[m.call])'
    <3>1. m.call \in CallIds /\ m.call # c /\ Decided(toolCalls[m.call])
      BY <1>3 DEF BridgeInv, CallsDecided, WasSent, Types, HostBridgeTypeOK
    <3>2. QED  BY <1>5, <3>1
  <2>5. QED  BY <1>1, <2>1, <2>2, <2>3, <2>4 DEF CallsDecided
<1>7. EffectsWereDecided'
  <2>1. \A e \in effects : e.call \in CallIds /\ e.call # c
    BY <1>3 DEF BridgeInv, Types, Effect, WasSent
  <2>2. QED  BY <1>1, <2>1 DEF BridgeInv, EffectsWereDecided
<1>8. QED
  BY <1>1, <1>2, <1>6, <1>7 DEF BridgeInv, Correlated, OneEffectPerCall, Faithful

\* A call is sent: it is ready, so it was decided, and its request carries its id.
LEMMA SendStep ==
  ASSUME BridgeInv, NEW c \in CallIds, toolCalls[c].at = "ready", toolCalls[c].name \in AllowedHost,
         toolCalls[c].sends < MaxSends, wire' = wire \cup {SignedRequest(c)},
         CallStep(c, [toolCalls[c] EXCEPT !.at = "sent", !.sends = @ + 1]),
         UNCHANGED <<effects, credential, scope>>
  PROVE  BridgeInv'
<1> DEFINE w == [toolCalls[c] EXCEPT !.at = "sent", !.sends = @ + 1]
<1>1. toolCalls[c] \in ToolCall /\ toolCalls[c].name \in Capabilities
  BY DEF BridgeInv, Types, HostBridgeTypeOK, NotCalled
<1>a. toolCalls[c].sends + 1 \in 0..MaxSends
  BY <1>1 DEF ToolCall
<1>b. w \in ToolCall
  BY <1>1, <1>a DEF ToolCall
<1>2. /\ w \in ToolCall /\ w.at = "sent" /\ SameCall(toolCalls[c], w) /\ w.approved = toolCalls[c].approved
      /\ w # NotCalled
  BY <1>1, <1>b DEF ToolCall, SameCall, NotCalled
<1> HIDE DEF w
<1>3. /\ toolCalls' = [toolCalls EXCEPT ![c] = w] /\ toolCalls'[c] = w
      /\ \A d \in CallIds : d # c => toolCalls'[d] = toolCalls[d]
      /\ UNCHANGED <<hostCatalog, catalogVersion, listing, remembered, actorType, bridgeTime>>
  BY DEF CallStep, w, BridgeInv, Types, HostBridgeTypeOK
<1>4. SignedRequest(c) = [call |-> c, signedAt |-> bridgeTime, correlation |-> c]
  BY DEF SignedRequest
<1>5. Types'
  BY <1>2, <1>3, <1>4 DEF BridgeInv, Types, HostBridgeTypeOK
<1>6. Correlated'
  BY <1>4 DEF BridgeInv, Correlated
<1>7. Decided(toolCalls[c])
  BY <1>1 DEF BridgeInv, CallsDecided
<1>8. ASSUME NEW d \in CallIds, Decided(toolCalls[d]) PROVE Decided(toolCalls[d])'
  BY <1>2, <1>3, <1>8 DEF Decided, SameCall
<1>9. CallsDecided'
  <2>1. \A d \in CallIds : toolCalls'[d] # NotCalled => toolCalls'[d].basis <= catalogVersion'
    <3>1. toolCalls[c] # NotCalled
      BY DEF NotCalled
    <3>2. QED  BY <1>2, <1>3, <3>1 DEF BridgeInv, CallsDecided, SameCall
  <2>2. ASSUME NEW d \in CallIds, toolCalls'[d].at \in {"ready", "sent", "handled"},
               toolCalls'[d].name \in Capabilities
        PROVE  Decided(toolCalls[d])'
    <3>1. Decided(toolCalls[d])
      BY <1>3, <1>7, <2>2 DEF BridgeInv, CallsDecided
    <3>2. QED  BY <1>8, <3>1
  <2>3. ASSUME NEW d \in CallIds, WasSent(d)'
        PROVE  toolCalls'[d].at \notin {"none", "asking"} /\ toolCalls'[d].name \in AllowedHost
    <3>1. CASE d = c
      BY <1>2, <1>3, <3>1 DEF SameCall
    <3>2. CASE d # c
      <4>1. WasSent(d)
        BY <1>4, <2>3, <3>2 DEF WasSent
      <4>2. QED  BY <1>3, <3>2, <4>1 DEF BridgeInv, CallsDecided
    <3>3. QED  BY <3>1, <3>2
  <2>4. ASSUME NEW m \in wire' PROVE Decided(toolCalls[m.call])'
    <3>1. CASE m = SignedRequest(c)
      BY <1>4, <1>7, <1>8, <3>1
    <3>2. CASE m \in wire
      <4>1. m.call \in CallIds /\ Decided(toolCalls[m.call])
        BY <3>2 DEF BridgeInv, CallsDecided, Types, HostBridgeTypeOK
      <4>2. QED  BY <1>8, <4>1
    <3>3. QED  BY <3>1, <3>2
  <2>5. QED  BY <2>1, <2>2, <2>3, <2>4 DEF CallsDecided
<1>10. EffectsWereDecided'
  <2>1. \A e \in effects : e.call \in CallIds
    BY DEF BridgeInv, Types, Effect
  <2>2. QED  BY <1>2, <1>3, <2>1 DEF BridgeInv, EffectsWereDecided, SameCall
<1>11. QED
  BY <1>3, <1>5, <1>6, <1>9, <1>10 DEF BridgeInv, OneEffectPerCall, Faithful

\* The Host handles a request: what it performs is new for the call, and was decided.
LEMMA HandleStep ==
  ASSUME BridgeInv, NEW m \in wire, HostHandles(m), UNCHANGED scope
  PROVE  BridgeInv'
<1>1. PICK c \in CallIds : c = m.call /\ m.correlation = c
  BY DEF BridgeInv, Correlated, Types, HostBridgeTypeOK
<1>2. /\ WasSent(c) /\ Decided(toolCalls[c]) /\ toolCalls[c].at \notin {"none", "asking"}
      /\ toolCalls[c].name \in AllowedHost
  BY <1>1 DEF BridgeInv, CallsDecided, WasSent
<1>3. toolCalls[c] \in ToolCall /\ toolCalls[c].name \in Capabilities
  BY <1>2 DEF BridgeInv, Types, HostBridgeTypeOK, NotCalled
<1> DEFINE v == toolCalls[c]
           w == IF v.at = "sent" THEN [v EXCEPT !.at = "handled"] ELSE v
           done == [call |-> c, correlation |-> c, send |-> v.sends,
                    effect |-> hostCatalog[v.name].effect, since |-> hostCatalog[v.name].since]
<1>4. /\ w \in ToolCall /\ SameCall(v, w) /\ w.approved = v.approved /\ w # NotCalled
      /\ w.at \notin {"none", "asking"}
  BY <1>2, <1>3 DEF ToolCall, SameCall, NotCalled
<1>5. /\ wire' = wire \ {m} /\ toolCalls' = [toolCalls EXCEPT ![c] = w]
      /\ \/ effects' = effects
         \/ effects' = effects \cup {done} /\ \A e \in effects : e.correlation # c
      /\ UNCHANGED <<hostCatalog, catalogVersion, listing, remembered, actorType, bridgeTime, credential>>
  BY <1>1 DEF HostHandles, CallStep
<1>6. /\ done \in Effect /\ done.call = c /\ done.correlation = c
      /\ done.effect = hostCatalog[v.name].effect /\ done.since = hostCatalog[v.name].since
  BY <1>3 DEF Effect, BridgeInv, Types, HostBridgeTypeOK, ToolCall
<1>7. toolCalls'[c] = w /\ \A d \in CallIds : d # c => toolCalls'[d] = toolCalls[d]
  BY <1>5 DEF BridgeInv, Types, HostBridgeTypeOK
<1> HIDE DEF w, done
<1>8. Types'
  BY <1>4, <1>5, <1>6 DEF BridgeInv, Types, HostBridgeTypeOK
<1>9. Correlated' /\ OneEffectPerCall'
  BY <1>5, <1>6 DEF BridgeInv, Correlated, OneEffectPerCall
<1>10. ASSUME NEW d \in CallIds, Decided(toolCalls[d]) PROVE Decided(toolCalls[d])'
  BY <1>4, <1>5, <1>7, <1>10 DEF Decided, SameCall
<1>11. CallsDecided'
  <2>1. \A d \in CallIds : toolCalls'[d] # NotCalled => toolCalls'[d].basis <= catalogVersion'
    <3>1. v # NotCalled
      BY <1>2 DEF NotCalled
    <3>2. QED  BY <1>4, <1>5, <1>7, <3>1 DEF BridgeInv, CallsDecided, SameCall
  <2>2. ASSUME NEW d \in CallIds, toolCalls'[d].at \in {"ready", "sent", "handled"},
               toolCalls'[d].name \in Capabilities
        PROVE  Decided(toolCalls[d])'
    <3>1. Decided(toolCalls[d])
      BY <1>2, <1>7, <2>2 DEF BridgeInv, CallsDecided
    <3>2. QED  BY <1>10, <3>1
  <2>3. ASSUME NEW d \in CallIds, WasSent(d)'
        PROVE  toolCalls'[d].at \notin {"none", "asking"} /\ toolCalls'[d].name \in AllowedHost
    <3>1. CASE d = c
      BY <1>2, <1>4, <1>7, <3>1 DEF SameCall
    <3>2. CASE d # c
      <4>1. WasSent(d)
        BY <1>5, <1>6, <2>3, <3>2 DEF WasSent
      <4>2. QED  BY <1>7, <3>2, <4>1 DEF BridgeInv, CallsDecided
    <3>3. QED  BY <3>1, <3>2
  <2>4. ASSUME NEW q \in wire' PROVE Decided(toolCalls[q.call])'
    <3>1. q.call \in CallIds /\ Decided(toolCalls[q.call])
      BY <1>5 DEF BridgeInv, CallsDecided, Types, HostBridgeTypeOK
    <3>2. QED  BY <1>10, <3>1
  <2>5. QED  BY <2>1, <2>2, <2>3, <2>4 DEF CallsDecided
<1>12. EffectsWereDecided'
  <2>1. \A e \in effects : e.call \in CallIds
    BY DEF BridgeInv, Types, Effect
  <2>2. ASSUME NEW e \in effects
        PROVE  /\ toolCalls'[e.call].name \in AllowedHost
               /\ (e.effect = "external" /\ ~toolCalls'[e.call].approved /\ toolCalls'[e.call].actor = "user")
                    => e.since > toolCalls'[e.call].basis
    BY <1>4, <1>7, <2>1 DEF BridgeInv, EffectsWereDecided, SameCall
  <2>3. /\ toolCalls'[done.call].name \in AllowedHost
        /\ (done.effect = "external" /\ ~toolCalls'[done.call].approved /\ toolCalls'[done.call].actor = "user")
             => done.since > toolCalls'[done.call].basis
    BY <1>2, <1>4, <1>6, <1>7 DEF Decided, SameCall
  <2>4. QED  BY <1>5, <2>2, <2>3 DEF EffectsWereDecided
<1>13. QED
  BY <1>5, <1>8, <1>9, <1>11, <1>12 DEF BridgeInv, Faithful

\* Every step keeps the decisions.
LEMMA BridgeKeeps == BridgeInv /\ [HostBridgeNext]_bridgeVars => BridgeInv'
<1> SUFFICES ASSUME BridgeInv, [HostBridgeNext]_bridgeVars PROVE BridgeInv'
  OBVIOUS
<1>1. CASE UNCHANGED bridgeVars
  BY <1>1, CallsAlone DEF bridgeVars, BridgeInv, Types, HostBridgeTypeOK, Faithful
<1>2. CASE HostBridgeStep /\ UNCHANGED scope
  <2> USE <1>2
  <2>1. CASE TickBridge
    BY <2>1, CallsAlone DEF TickBridge, BridgeInv, Types, HostBridgeTypeOK, Faithful
  <2>2. CASE ListCapabilities
    <3>1. /\ listing' = [version |-> catalogVersion,
                         descriptors |-> [n \in Capabilities |->
                           IF n \in AllowedHost THEN hostCatalog[n].effect ELSE "unknown"]]
          /\ UNCHANGED <<hostCatalog, catalogVersion, remembered, actorType, toolCalls, wire, effects,
                         credential, bridgeTime>>
      BY <2>2 DEF ListCapabilities
    <3>2. listing' \in Listing
      BY <3>1 DEF BridgeInv, Types, HostBridgeTypeOK, Listing, Descriptors
    <3>3. Types'
      BY <3>1, <3>2 DEF BridgeInv, Types, HostBridgeTypeOK
    <3>4. Faithful(listing)' /\ Faithful(remembered)'
      BY <3>1 DEF BridgeInv, Types, HostBridgeTypeOK, Faithful
    <3>5. QED  BY <3>1, <3>3, <3>4, CallsAlone
  <2>3. CASE RememberCapabilities
    <3>1. NoListing \in Listing
      BY DEF NoListing, Listing, Descriptors
    <3>2. /\ remembered' = listing /\ listing' = NoListing
          /\ UNCHANGED <<hostCatalog, catalogVersion, actorType, toolCalls, wire, effects, credential, bridgeTime>>
      BY <2>3 DEF RememberCapabilities
    <3>3. Types'
      BY <3>1, <3>2 DEF BridgeInv, Types, HostBridgeTypeOK
    <3>4. Faithful(listing)' /\ Faithful(remembered)'
      BY <3>2 DEF BridgeInv, Types, HostBridgeTypeOK, Faithful, NoListing
    <3>5. QED  BY <3>2, <3>3, <3>4, CallsAlone
  <2>4. ASSUME NEW n \in Capabilities, NEW effect \in SideEffects \cup {"unknown"}, ChangeCatalog(n, effect)
        PROVE  BridgeInv'
    BY <2>4, ChangeStep
  <2>5. ASSUME NEW type \in {"user", "service"}, ContinueAs(type) PROVE BridgeInv'
    BY <2>5, CallsAlone DEF ContinueAs, BridgeInv, Types, HostBridgeTypeOK, Faithful
  <2>6. ASSUME NEW m \in wire, HostHandles(m) PROVE BridgeInv'
    BY <2>6, HandleStep
  <2>7. ASSUME NEW answer \in {"token", "expired", "forbidden", "unavailable"}, ResolveCredential(answer)
        PROVE  BridgeInv'
    <3>1. credential'.at \in {"none", "held", "unavailable", "refused"}
      BY <2>7 DEF ResolveCredential
    <3>2. QED
      BY <2>7, <3>1, CallsAlone DEF ResolveCredential, BridgeInv, Types, HostBridgeTypeOK, Faithful
  <2>8. ASSUME NEW c \in CallIds, NEW n \in Capabilities \cup McpTools, CallTool(c, n) PROVE BridgeInv'
    BY <2>8, CallToolStep
  <2>9. ASSUME NEW c \in CallIds, toolCalls[c] # NotCalled,
               \/ \E ok \in BOOLEAN : AnswerCall(c, ok) \/ InvokeAnswered(c, ok)
               \/ SendInvoke(c) \/ InvokeTimesOut(c) \/ ReplayCall(c) \/ RunMcpTool(c)
        PROVE  BridgeInv'
    <3> DEFINE v == toolCalls[c]
    <3>1. v \in ToolCall /\ credential.at \in {"none", "held", "unavailable", "refused"}
      BY <2>9 DEF BridgeInv, Types, HostBridgeTypeOK
    <3>2. ASSUME NEW at \in {"done", "failed", "ready"},
                 at = "ready" => v.at \in {"sent", "handled"},
                 CallStep(c, [v EXCEPT !.at = at]), v.at # "asking" \/ at # "ready",
                 UNCHANGED <<wire, effects>>, credential'.at \in {"none", "held", "unavailable", "refused"}
          PROVE  BridgeInv'
      <4> DEFINE w == [v EXCEPT !.at = at]
      <4>1. w \in ToolCall /\ SameCall(v, w) /\ w.at = at /\ w.approved = v.approved
        BY <3>1 DEF ToolCall, SameCall
      <4>2. QED  BY <2>9, <3>2, <4>1, QuietCallStep
    <3>3. ASSUME NEW ok \in BOOLEAN, AnswerCall(c, ok) PROVE BridgeInv'
      <4> DEFINE w == [v EXCEPT !.at = IF ok THEN "ready" ELSE "failed", !.approved = ok]
      <4>1. /\ w \in ToolCall /\ SameCall(v, w) /\ w.at = (IF ok THEN "ready" ELSE "failed") /\ w.approved = ok
        BY <3>1 DEF ToolCall, SameCall
      <4>2. CallStep(c, w) /\ v.at = "asking" /\ UNCHANGED <<wire, effects, credential>>
        BY <3>3 DEF AnswerCall
      <4> HIDE DEF w
      <4>3. w.at = "failed" \/ (w.at = "ready" /\ w.approved)
        BY <4>1
      <4>4. QED  BY <2>9, <3>1, <4>1, <4>2, <4>3, QuietCallStep
    <3>4. ASSUME NEW ok \in BOOLEAN, InvokeAnswered(c, ok) PROVE BridgeInv'
      <4>1. \E at \in {"done", "failed"} : CallStep(c, [v EXCEPT !.at = at])
        BY <3>4 DEF InvokeAnswered
      <4>2. QED  BY <3>1, <3>2, <3>4, <4>1 DEF InvokeAnswered
    <3>5. CASE SendInvoke(c)
      <4>1. CASE v.name \in AllowedHost /\ Signable
        BY <3>5, <4>1, SendStep DEF SendInvoke
      <4>2. CASE ~(v.name \in AllowedHost /\ Signable)
        BY <3>1, <3>2, <3>5, <4>2 DEF SendInvoke
      <4>3. QED  BY <4>1, <4>2
    <3>6. CASE InvokeTimesOut(c)
      BY <3>1, <3>2, <3>6 DEF InvokeTimesOut
    <3>7. CASE ReplayCall(c)
      BY <3>1, <3>2, <3>7 DEF ReplayCall
    <3>8. CASE RunMcpTool(c)
      <4>1. v.at = "ready" /\ UNCHANGED <<wire, effects>>
            /\ credential'.at \in {"none", "held", "unavailable", "refused"}
        BY <3>1, <3>8 DEF RunMcpTool, NoCredential
      <4>a. \/ CallStep(c, v) \/ CallStep(c, [v EXCEPT !.at = "done"])
            \/ CallStep(c, [v EXCEPT !.at = "failed"])
        BY <3>8 DEF RunMcpTool
      <4>2. CASE CallStep(c, v)
        BY <2>9, <3>1, <4>1, <4>2, QuietCallStep DEF SameCall
      <4>3. CASE \E at \in {"done", "failed"} : CallStep(c, [v EXCEPT !.at = at])
        BY <3>2, <4>1, <4>3
      <4>4. QED  BY <4>a, <4>2, <4>3
    <3>9. QED  BY <2>9, <3>3, <3>4, <3>5, <3>6, <3>7, <3>8
  <2>10. QED
    BY <2>1, <2>2, <2>3, <2>4, <2>5, <2>6, <2>7, <2>8, <2>9 DEF HostBridgeStep
<1>3. QED
  BY <1>1, <1>2 DEF HostBridgeNext

\* The decision of every call is kept until its effect.
THEOREM BridgeInvariant == HostBridgeSpec => []BridgeInv
BY BridgeStarts, BridgeKeeps, PTL DEF HostBridgeSpec

\* A tool call has one effect on the Host, however often its step is replayed
\* (agent/tools/host_invoke.ts, packages/agent-host).
THEOREM EffectsArePerCall == HostBridgeSpec => []OneEffectPerCall
<1>1. BridgeInv => OneEffectPerCall
  BY DEF BridgeInv
<1>2. QED  BY <1>1, BridgeInvariant, PTL

\* An effect that no user approved was made by a service, or the Host changed the
\* capability after the catalog the call was decided from.
THEOREM EffectsAreDecided == HostBridgeSpec => []EffectsWereDecided
<1>1. BridgeInv => EffectsWereDecided
  BY DEF BridgeInv
<1>2. QED  BY <1>1, BridgeInvariant, PTL
=============================================================================
