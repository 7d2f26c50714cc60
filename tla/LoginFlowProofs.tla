-------------------------- MODULE LoginFlowProofs ---------------------------
(***************************************************************************)
(* Proofs about LoginFlow, for any slots, flows, providers and client IDs.  *)
(*                                                                         *)
(* A steady flow succeeds because its own requests have the stored            *)
(* configuration (OwnInv) and whoever registers another one between their      *)
(* strategies and their guard ends its steadiness, so that the guard finds a   *)
(* strategy made of the same options it would have made (FoundInv).          *)
(***************************************************************************)
EXTENDS LoginFlow, TLAPS

Busy(r) == ~At(r, "idle")

\* A flow in a request is in no other, and its phase is the request's kind.
FlowInv ==
    /\ \A r \in Slots : request[r].kind \in {"login", "callback"} =>
         Busy(r) /\ flow[request[r].flow].phase = request[r].kind
    /\ \A r \in Slots : request[r].kind \notin {"login", "callback"} => request[r].flow = None
    /\ \A r, q \in Slots : r # q /\ request[r].flow # None => request[r].flow # request[q].flow

\* The request of slot r belongs to a steady flow.
Steady(r) == request[r].flow \in Flows /\ steady[request[r].flow]

\* It has the stored configuration.
OwnInv ==
    \A r \in Slots : Steady(r) /\ request[r].stage \in {"resolve", "guard", "exchange"} =>
        request[r].config = stored

\* Its guard finds the strategies of that configuration, and its exchange has the
\* client ID.
FoundInv ==
    \A r \in Slots : Steady(r) =>
        /\ At(r, "guard") => \A p \in Providers : registry[p] = Strategy(stored.options[p])
        /\ At(r, "exchange") => request[r].app = stored.options[ProviderOf(r)].app

\* A request that no update has met has the stored configuration, and one that
\* exchanges a code has one that wants it.
FreshInv ==
    /\ \A r \in Slots : fresh[r] /\ request[r].stage \in {"resolve", "guard", "exchange"} =>
         request[r].config = stored
    /\ \A r \in Slots : At(r, "exchange") => On(request[r].config, ProviderOf(r))

IInv == /\ TypeOK /\ FlowInv /\ OwnInv /\ FoundInv /\ FreshInv
        /\ SteadyFlowSucceeds

-----------------------------------------------------------------------------
\* The strategies of a configuration construct unless an active provider lacks a
\* client ID.
LEMMA ResolvesUnlessLacks ==
    ASSUME NEW c \in Configs
    PROVE  Resolves(c) <=> ~Lacks(c)
  BY DEF Resolves, Lacks, Constructs, Configs, Options

\* Slot r has this request from now on, and the others keep theirs.
Put(r, s, k, f, c, a) ==
    /\ request' = [q \in Slots |-> request'[q]]
    /\ request'[r] = [stage |-> s, kind |-> k, flow |-> f, config |-> c, app |-> a]
    /\ \A q \in Slots : q # r => request'[q] = request[q]

\* The flow of slot r got this far, and nothing else is different with any flow.
Phased(f, phase) ==
    /\ flow' = [g \in Flows |-> flow'[g]]
    /\ \A g \in Flows :
         /\ flow'[g] = [phase |-> flow'[g].phase, provider |-> flow[g].provider,
                        app |-> flow[g].app]
         /\ flow'[g].phase = IF g = f THEN phase ELSE flow[g].phase

\* The usual form of a step of one flow is such a change.
LEMMA PhasedFromExcept ==
    ASSUME TypeOK, NEW f \in Flows, NEW phase, flow' = [flow EXCEPT ![f].phase = phase]
    PROVE  Phased(f, phase)
  BY DEF Phased, TypeOK, FlowStates

\* An answer frees the slot and takes the flow of the request, if it has one, to its
\* phase.
LEMMA Answers ==
    ASSUME TypeOK, FlowInv, NEW r \in Slots, NEW phase, Answer(r, phase)
    PROVE  /\ Put(r, "idle", "other", None, None, None)
           /\ Phased(request[r].flow, phase)
  <1>1. Put(r, "idle", "other", None, None, None)
    BY DEF Answer, Finish, Free, Put, TypeOK
  <1>2. request[r].flow \in Flows \cup {None}
    BY DEF TypeOK, Requests
  <1>3. ASSUME request[r].flow \in Flows
        PROVE  Phased(request[r].flow, phase)
    <2>1. request[r].flow # None
      BY <1>3, LoginFlowAssumption
    <2>2. flow' = [flow EXCEPT ![request[r].flow].phase = phase]
      BY <2>1 DEF Answer
    <2> QED
      BY <1>3, <2>2, PhasedFromExcept
  <1>4. ASSUME request[r].flow = None
        PROVE  Phased(request[r].flow, phase)
    <2>1. flow' = flow
      BY <1>4 DEF Answer
    <2>2. \A g \in Flows :
            /\ flow[g] \in FlowStates
            /\ g # request[r].flow
      BY <1>4, LoginFlowAssumption DEF TypeOK
    <2>3. flow = [g \in Flows |-> flow[g]]
      BY DEF TypeOK
    <2> QED
      BY <2>1, <2>2, <2>3 DEF Phased, FlowStates
  <1> QED
    BY <1>1, <1>2, <1>3, <1>4

\* What the three arrivals do to the slot and the flow.
LEMMA Arrivals ==
    ASSUME TypeOK, NEW r \in Slots
    PROVE  /\ \A f \in Flows : Login(r, f) =>
                Put(r, "get", "login", f, None, None) /\ Phased(f, "login")
           /\ \A f \in Flows : Return(r, f) =>
                Put(r, "get", "callback", f, None, None) /\ Phased(f, "callback")
           /\ \A kind : Call(r, kind) => Put(r, "get", kind, None, None, None)
  <1>1. ASSUME NEW kind, NEW f, Arrive(r, kind, f)
        PROVE  Put(r, "get", kind, f, None, None)
    BY <1>1 DEF Arrive, Put, TypeOK
  <1> QED
    BY <1>1, PhasedFromExcept DEF Login, Return, Call

\* What the steps of a request in flight do to the slot and the flow.
LEMMA Goes ==
    ASSUME TypeOK, NEW r \in Slots
    PROVE  /\ GetConfig(r) => Put(r, "resolve", request[r].kind, request[r].flow, stored,
                                  request[r].app)
           /\ Resolve(r) =>
                \/ /\ Resolves(request[r].config) /\ flow' = flow
                   /\ Put(r, "guard", request[r].kind, request[r].flow, request[r].config,
                          request[r].app)
                \/ ~Resolves(request[r].config) /\ Answer(r, "failed")
           /\ Callback(r) =>
                \/ /\ Authenticates(r) /\ registry[ProviderOf(r)] \in Apps /\ flow' = flow
                   /\ Put(r, "exchange", request[r].kind, request[r].flow, request[r].config,
                          registry[ProviderOf(r)])
                \/ /\ ~(Authenticates(r) /\ registry[ProviderOf(r)] \in Apps)
                   /\ Answer(r, "failed")
  <1>0. request \in [Slots -> Requests] /\ request[r] \in Requests
    BY DEF TypeOK
  <1>1. ASSUME GetConfig(r)
        PROVE  Put(r, "resolve", request[r].kind, request[r].flow, stored, request[r].app)
    BY <1>0, <1>1 DEF GetConfig, Put, Requests
  <1>2. ASSUME request' = [request EXCEPT ![r].stage = "guard"]
        PROVE  Put(r, "guard", request[r].kind, request[r].flow, request[r].config,
                   request[r].app)
    BY <1>0, <1>2 DEF Put, Requests
  <1>3. ASSUME NEW a, request' = [request EXCEPT ![r].stage = "exchange", ![r].app = a]
        PROVE  Put(r, "exchange", request[r].kind, request[r].flow, request[r].config, a)
    BY <1>0, <1>3 DEF Put, Requests
  <1>4. Resolve(r) =>
                \/ /\ Resolves(request[r].config) /\ flow' = flow
                   /\ Put(r, "guard", request[r].kind, request[r].flow, request[r].config,
                          request[r].app)
                \/ ~Resolves(request[r].config) /\ Answer(r, "failed")
    BY <1>2 DEF Resolve
  <1>5. Callback(r) =>
                \/ /\ Authenticates(r) /\ registry[ProviderOf(r)] \in Apps /\ flow' = flow
                   /\ Put(r, "exchange", request[r].kind, request[r].flow, request[r].config,
                          registry[ProviderOf(r)])
                \/ /\ ~(Authenticates(r) /\ registry[ProviderOf(r)] \in Apps)
                   /\ Answer(r, "failed")
    BY <1>3 DEF Callback
  <1> QED
    BY <1>1, <1>4, <1>5

-----------------------------------------------------------------------------
\* The end of a request keeps the invariant, if the phase it leaves its flow in is
\* one the flow may have, and if the strategies that others will find stay.
Ending(r, phase) ==
    /\ Answer(r, phase)
    /\ phase \in Phases
    /\ stored' = stored /\ fresh' = fresh
    /\ registry' \in [Providers -> Apps \cup {Anonymous, None}]
    /\ \A q \in Slots : q # r /\ At(q, "guard") =>
         \A p \in Providers : registry'[p] # None
    /\ steady' \in [Flows -> BOOLEAN]
    /\ \A f \in Flows : steady'[f] => steady[f]
    /\ \A q \in Slots : q # r /\ At(q, "guard") /\ request[q].flow \in Flows =>
         (steady'[request[q].flow] =>
            \A p \in Providers : registry'[p] = Strategy(stored.options[p]))
    /\ request[r].flow \in Flows =>
         LET f == request[r].flow
             p == flow[f].provider
         IN  steady[f] /\ On(stored, p) /\ ~Lacks(stored) =>
               /\ phase \notin {"home", "failed"}
               /\ phase \in {"code", "callback", "in"} => flow[f].app = stored.options[p].app

\* A request that ends in this way keeps the invariant.
LEMMA EndKeeps ==
    ASSUME IInv, NEW r \in Slots, NEW phase, Ending(r, phase)
    PROVE  IInv'
  <1> USE DEF At
  <1>1. Put(r, "idle", "other", None, None, None)
    BY Answers DEF Ending, IInv
  <1>2. Phased(request[r].flow, phase)
    BY Answers DEF Ending, IInv
  <1>3. stored' = stored /\ fresh' = fresh
    BY DEF Ending
  <1>4. \A q \in Slots : request[q] \in Requests
    BY DEF IInv, TypeOK
  <1>5. \A f \in Flows : flow[f] \in FlowStates
    BY DEF IInv, TypeOK
  <1>6. \A f \in Flows : /\ flow'[f].provider = flow[f].provider
                         /\ flow'[f].app = flow[f].app
    BY <1>2 DEF Phased
  <1>7. request'[r] = Free /\ \A q \in Slots : q # r => request'[q] = request[q]
    BY <1>1 DEF Put, Free
  <1>8. TypeOK'
    <2>1. request' \in [Slots -> Requests]
      <3>1. \A q \in Slots : request'[q] \in Requests
        BY <1>4, <1>7 DEF Free, Requests, Stages, Kinds
      <3> QED
        BY <1>1, <3>1 DEF Put
    <2>2. flow' \in [Flows -> FlowStates]
      <3>1. \A f \in Flows : flow'[f] \in FlowStates
        BY <1>2, <1>5 DEF Phased, FlowStates, Ending
      <3> QED
        BY <1>2, <3>1 DEF Phased
    <2>3. \A q \in Slots :
            /\ request'[q].stage \in {"resolve", "guard", "exchange"} =>
                 request'[q].config \in Configs
            /\ request'[q].kind \in {"login", "callback"} => request'[q].flow \in Flows
            /\ request'[q].stage = "exchange" => request'[q].kind = "callback"
            /\ request'[q].stage = "guard" => \A p \in Providers : registry'[p] # None
      BY <1>7 DEF Free, Ending, IInv, TypeOK
    <2> QED
      BY <1>3, <2>1, <2>2, <2>3 DEF TypeOK, Ending, IInv
  <1>9. FlowInv'
    BY <1>2, <1>7, LoginFlowAssumption DEF IInv, FlowInv, Free, Phased, Busy, TypeOK
  <1>10. \A f \in Flows : steady'[f] => steady[f]
    BY DEF Ending
  <1>11. \A q \in Slots : q # r /\ Steady(q)' => Steady(q)
    BY <1>7, <1>10 DEF Steady
  <1>12. ~Steady(r)'
    BY <1>7, LoginFlowAssumption DEF Steady, Free
  <1>13. OwnInv'
    BY <1>3, <1>7, <1>11, <1>12 DEF IInv, OwnInv
  <1>14. \A q \in Slots : q # r /\ request[q].kind = "callback" => ProviderOf(q)' = ProviderOf(q)
    BY <1>6, <1>7 DEF IInv, TypeOK, ProviderOf
  <1>15. FoundInv'
    <2>1. SUFFICES ASSUME NEW q \in Slots, Steady(q)'
                   PROVE  /\ request'[q].stage = "guard" =>
                               \A p \in Providers : registry'[p] = Strategy(stored'.options[p])
                          /\ request'[q].stage = "exchange" =>
                               request'[q].app = stored'.options[ProviderOf(q)'].app
      BY DEF FoundInv
    <2>2. q # r /\ Steady(q)
      BY <1>11, <1>12, <2>1
    <2>3. /\ request'[q] = request[q]
          /\ request[q].flow \in Flows /\ steady'[request[q].flow]
      BY <1>7, <2>1, <2>2 DEF Steady
    <2>4. request[q].stage = "exchange" => ProviderOf(q)' = ProviderOf(q)
      BY <1>14, <2>2 DEF IInv, TypeOK
    <2> QED
      BY <1>3, <2>2, <2>3, <2>4 DEF IInv, FoundInv, Ending
  <1>16. FreshInv'
    <2>1. \A q \in Slots : request'[q].stage = "exchange" =>
            On(request'[q].config, ProviderOf(q)')
      BY <1>7, <1>14 DEF IInv, TypeOK, FreshInv, Free
    <2> QED
      BY <1>3, <1>7, <2>1 DEF IInv, FreshInv, Free
  <1>17. SteadyFlowSucceeds'
    <2>1. SUFFICES ASSUME NEW f \in Flows, steady'[f],
                          On(stored, flow[f].provider), ~Lacks(stored)
                   PROVE  /\ flow'[f].phase \notin {"home", "failed"}
                          /\ flow'[f].phase \in {"code", "callback", "in"} =>
                               flow[f].app = stored.options[flow[f].provider].app
      BY <1>3, <1>6 DEF SteadyFlowSucceeds, On, Lacks
    <2>2. CASE f = request[r].flow
      BY <1>2, <1>6, <1>10, <2>1, <2>2 DEF Phased, Ending
    <2>3. CASE f # request[r].flow
      BY <1>2, <1>6, <1>10, <2>1, <2>3 DEF Phased, IInv, SteadyFlowSucceeds
    <2> QED
      BY <2>2, <2>3
  <1> QED
    BY <1>8, <1>9, <1>13, <1>15, <1>16, <1>17 DEF IInv

-----------------------------------------------------------------------------
\* A request of the kind and of the flow arrives, and its flow is in that phase.
Arriving(r, kind, f) ==
    /\ At(r, "idle") /\ kind \in Kinds
    /\ Put(r, "get", kind, f, None, None)
    /\ UNCHANGED <<stored, registry, steady>>
    /\ fresh' = [fresh EXCEPT ![r] = TRUE]
    /\ \/ f = None /\ kind \notin {"login", "callback"} /\ flow' = flow
       \/ /\ f \in Flows /\ kind \in {"login", "callback"}
          /\ Phased(f, kind)
          /\ flow[f].phase = IF kind = "login" THEN "none" ELSE "code"

\* The three arrivals are of this form.
LEMMA ArrivalArrives ==
    ASSUME IInv, NEW r \in Slots
    PROVE  /\ \A f \in Flows : Login(r, f) => Arriving(r, "login", f)
           /\ \A f \in Flows : Return(r, f) => Arriving(r, "callback", f)
           /\ \A kind \in Kinds : Call(r, kind) => Arriving(r, kind, None)
  <1>1. TypeOK
    BY DEF IInv
  <1>2. ASSUME NEW f \in Flows, Login(r, f) PROVE Arriving(r, "login", f)
    <2>1. Put(r, "get", "login", f, None, None) /\ Phased(f, "login")
      BY <1>1, <1>2, Arrivals
    <2> QED
      BY <1>2, <2>1 DEF Login, Arrive, Arriving, Kinds
  <1>3. ASSUME NEW f \in Flows, Return(r, f) PROVE Arriving(r, "callback", f)
    <2>1. Put(r, "get", "callback", f, None, None) /\ Phased(f, "callback")
      BY <1>1, <1>3, Arrivals
    <2> QED
      BY <1>3, <2>1 DEF Return, Arrive, Arriving, Kinds
  <1>4. ASSUME NEW kind \in Kinds, Call(r, kind) PROVE Arriving(r, kind, None)
    <2>1. Put(r, "get", kind, None, None, None)
      BY <1>1, <1>4, Arrivals
    <2> QED
      BY <1>4, <2>1 DEF Call, Arrive, Arriving
  <1> QED
    BY <1>2, <1>3, <1>4

\* An arrival keeps the invariant: a flow's second request begins where the first left
\* the browser.
LEMMA ArrivalKeeps ==
    ASSUME IInv, NEW r \in Slots, NEW kind, NEW f, Arriving(r, kind, f)
    PROVE  IInv'
  <1> USE DEF At
  <1>1. /\ request' = [q \in Slots |-> request'[q]]
        /\ request'[r] = [stage |-> "get", kind |-> kind, flow |-> f, config |-> None,
                          app |-> None]
        /\ \A q \in Slots : q # r => request'[q] = request[q]
    BY DEF Arriving, Put
  <1>2. /\ stored' = stored /\ registry' = registry /\ steady' = steady
        /\ request[r].stage = "idle"
    BY DEF Arriving
  <1>3. flow' = [g \in Flows |-> flow'[g]]
    BY DEF Arriving, Phased, IInv, TypeOK
  <1>4. \A g \in Flows : g # f => flow'[g] = flow[g]
    <2>1. \A g \in Flows : flow[g] \in FlowStates
      BY DEF IInv, TypeOK
    <2> QED
      BY <2>1 DEF Arriving, Phased, FlowStates
  <1>5. \A g \in Flows : /\ flow'[g].provider = flow[g].provider
                         /\ flow'[g].app = flow[g].app
                         /\ flow'[g].phase = IF g = f THEN kind ELSE flow[g].phase
                         /\ flow'[g] \in FlowStates
    <2>1. \A g \in Flows : flow[g] \in FlowStates
      BY DEF IInv, TypeOK
    <2>2. CASE f \in Flows
      <3>1. Phased(f, kind) /\ kind \in {"login", "callback"}
        BY <2>2, LoginFlowAssumption DEF Arriving
      <3> QED
        BY <2>1, <2>2, <3>1 DEF Phased, FlowStates, Phases
    <2>3. CASE f \notin Flows
      BY <1>4, <2>1, <2>3 DEF FlowStates
    <2> QED
      BY <2>2, <2>3
  <1>6. \/ f = None /\ kind \in Kinds \ {"login", "callback"}
        \/ /\ f \in Flows /\ kind \in {"login", "callback"}
           /\ flow[f].phase = IF kind = "login" THEN "none" ELSE "code"
    BY DEF Arriving
  <1>7. TypeOK'
    <2>1. request' \in [Slots -> Requests]
      <3>1. \A q \in Slots : request'[q] \in Requests
        BY <1>1, <1>6 DEF IInv, TypeOK, Requests, Stages, Kinds
      <3> QED
        BY <1>1, <3>1
    <2>2. flow' \in [Flows -> FlowStates]
      <3>1. \A g \in Flows : flow'[g] \in FlowStates
        BY <1>5
      <3> QED
        BY <1>3, <3>1
    <2>3. fresh' \in [Slots -> BOOLEAN]
      BY DEF IInv, TypeOK, Arriving
    <2>4. \A q \in Slots :
            /\ request'[q].stage \in {"resolve", "guard", "exchange"} =>
                 request'[q].config \in Configs
            /\ request'[q].kind \in {"login", "callback"} => request'[q].flow \in Flows
            /\ request'[q].stage = "exchange" => request'[q].kind = "callback"
            /\ request'[q].stage = "guard" => \A p \in Providers : registry'[p] # None
      BY <1>1, <1>2, <1>6 DEF IInv, TypeOK
    <2> QED
      BY <1>2, <2>1, <2>2, <2>3, <2>4 DEF IInv, TypeOK
  <1>8. FlowInv'
    <2>1. \A q \in Slots : q # r /\ request[q].flow # None =>
            request[q].flow \in Flows /\ request[q].flow # f
      BY <1>6 DEF IInv, TypeOK, Requests, FlowInv
    <2>2. \A q \in Slots : request'[q].kind \in {"login", "callback"} =>
            request'[q].stage # "idle" /\ flow'[request'[q].flow].phase = request'[q].kind
      <3>1. SUFFICES ASSUME NEW q \in Slots, request'[q].kind \in {"login", "callback"}
                     PROVE  /\ request'[q].stage # "idle"
                            /\ flow'[request'[q].flow].phase = request'[q].kind
        OBVIOUS
      <3>2. CASE q = r
        BY <1>1, <1>5, <1>6, <3>1, <3>2
      <3>3. CASE q # r
        <4>1. request[q].flow \in Flows /\ request[q].flow # f
          BY <1>1, <2>1, <3>1, <3>3, LoginFlowAssumption DEF IInv, TypeOK
        <4> QED
          BY <1>1, <1>5, <3>1, <3>3, <4>1 DEF IInv, FlowInv, Busy
      <3> QED
        BY <3>2, <3>3
    <2>3. \A q \in Slots : request'[q].kind \notin {"login", "callback"} =>
            request'[q].flow = None
      BY <1>1, <1>6 DEF IInv, FlowInv
    <2>4. \A q1, q2 \in Slots : q1 # q2 /\ request'[q1].flow # None =>
            request'[q1].flow # request'[q2].flow
      BY <1>1, <2>1 DEF IInv, FlowInv
    <2> QED
      BY <2>2, <2>3, <2>4 DEF FlowInv, Busy
  <1>10. \A q \in Slots : q # r /\ Steady(q)' => Steady(q)
    BY <1>1, <1>2 DEF Steady
  <1>11. OwnInv'
    BY <1>1, <1>2, <1>10 DEF IInv, OwnInv
  <1>12. \A q \in Slots : q # r /\ request[q].kind = "callback" => ProviderOf(q)' = ProviderOf(q)
    BY <1>1, <1>5 DEF IInv, TypeOK, ProviderOf
  <1>13. FoundInv'
    <2>1. SUFFICES ASSUME NEW q \in Slots, Steady(q)', q # r
                   PROVE  /\ request'[q].stage = "guard" =>
                               \A p \in Providers : registry'[p] = Strategy(stored'.options[p])
                          /\ request'[q].stage = "exchange" =>
                               request'[q].app = stored'.options[ProviderOf(q)'].app
      BY <1>1 DEF FoundInv
    <2>2. request[q].stage = "exchange" => ProviderOf(q)' = ProviderOf(q)
      BY <1>12, <2>1 DEF IInv, TypeOK
    <2> QED
      BY <1>1, <1>2, <1>10, <2>1, <2>2 DEF IInv, FoundInv
  <1>14. FreshInv'
    <2>1. \A q \in Slots : request'[q].stage = "exchange" =>
            On(request'[q].config, ProviderOf(q)')
      BY <1>1, <1>12 DEF IInv, TypeOK, FreshInv
    <2>2. \A q \in Slots : q # r => fresh'[q] = fresh[q]
      BY DEF Arriving, IInv, TypeOK
    <2> QED
      BY <1>1, <1>2, <2>1, <2>2 DEF IInv, FreshInv
  <1>15. SteadyFlowSucceeds'
    <2>1. SUFFICES ASSUME NEW g \in Flows, steady[g],
                          On(stored, flow[g].provider), ~Lacks(stored)
                   PROVE  /\ flow'[g].phase \notin {"home", "failed"}
                          /\ flow'[g].phase \in {"code", "callback", "in"} =>
                               flow[g].app = stored.options[flow[g].provider].app
      BY <1>2, <1>5 DEF SteadyFlowSucceeds, On, Lacks
    <2>2. /\ flow[g].phase \notin {"home", "failed"}
          /\ flow[g].phase \in {"code", "callback", "in"} =>
               flow[g].app = stored.options[flow[g].provider].app
      BY <2>1 DEF IInv, SteadyFlowSucceeds
    <2>3. flow'[g].phase = IF g = f THEN kind ELSE flow[g].phase
      BY <1>5
    <2>4. CASE g = f
      BY <1>6, <2>2, <2>3, <2>4, LoginFlowAssumption
    <2>5. CASE g # f
      BY <2>2, <2>3, <2>5
    <2> QED
      BY <2>4, <2>5
  <1> QED
    BY <1>7, <1>8, <1>11, <1>13, <1>14, <1>15 DEF IInv

-----------------------------------------------------------------------------

\* Resolving keeps the invariant: a flow whose guard is still to run stays steady only
\* if the strategies registered are those of the stored configuration.
LEMMA ResolveKeeps ==
    ASSUME IInv, NEW r \in Slots, Resolve(r)
    PROVE  IInv'
  <1> USE DEF At
  <1>1. TypeOK /\ request[r] \in Requests /\ request[r].stage = "resolve"
    BY DEF IInv, TypeOK, Resolve
  <1> DEFINE c == request[r].config
  <1>2. c \in Configs
    BY <1>1 DEF TypeOK
  <1>3. registry' = [p \in Providers |-> IF Constructs(c.options[p]) THEN Strategy(c.options[p])
                                         ELSE registry[p]]
    BY DEF Resolve
  <1>4. \A p \in Providers : Constructs(c.options[p]) =>
          Strategy(c.options[p]) \in (Apps \cup {Anonymous}) /\ Strategy(c.options[p]) # None
    BY <1>2, LoginFlowAssumption DEF Configs, Options, Constructs, Strategy
  <1>5. registry' \in [Providers -> Apps \cup {Anonymous, None}]
    BY <1>1, <1>3, <1>4 DEF TypeOK
  <1>6. Steady(r) => c = stored
    BY <1>1 DEF IInv, OwnInv
  <1>6a. /\ steady' \in [Flows -> BOOLEAN]
         /\ \A f \in Flows : steady'[f] => steady[f]
         /\ \A q \in Slots : request[q].stage = "guard" /\ request[q].flow \in Flows =>
              (steady'[request[q].flow] => c = stored)
    <2>1. steady \in [Flows -> BOOLEAN]
      BY <1>1 DEF TypeOK
    <2>2. steady' = [f \in Flows |->
                      /\ steady[f]
                      /\ \/ c = stored
                         \/ \A q \in Slots : request[q].stage = "guard" => request[q].flow # f]
      BY DEF Resolve, Unsettles
    <2> HIDE DEF c
    <2>3. \A f \in Flows : steady'[f] <=>
            /\ steady[f]
            /\ \/ c = stored
               \/ \A q \in Slots : request[q].stage = "guard" => request[q].flow # f
      BY <2>2, Zenon
    <2>4. steady' \in [Flows -> BOOLEAN]
      BY <2>1, <2>2, Zenon
    <2> QED
      BY <2>3, <2>4, Zenon
  <1>7. \A q \in Slots : request[q].stage = "guard" /\ request[q].flow \in Flows =>
          (steady'[request[q].flow] => \A p \in Providers : registry'[p] = Strategy(stored.options[p]))
    BY <1>3, <1>6a DEF IInv, FoundInv, Steady
  <1>8. \A q \in Slots : request[q].stage = "guard" =>
          \A p \in Providers : registry'[p] # None
    BY <1>1, <1>3, <1>4 DEF TypeOK
  <1>9. ASSUME ~Resolves(c), Answer(r, "failed")
        PROVE  IInv'
    <2>1. Steady(r) => Lacks(stored)
      BY <1>2, <1>6, <1>9, ResolvesUnlessLacks
    <2>2. Ending(r, "failed")
      <3>1. stored' = stored /\ fresh' = fresh /\ "failed" \in Phases
        BY DEF Resolve, Phases
      <3>2. request[r].flow \in Flows /\ steady[request[r].flow] => Lacks(stored)
        BY <2>1 DEF Steady
      <3> QED
        BY <1>5, <1>7, <1>8, <1>9, <1>6a, <3>1, <3>2 DEF Ending
    <2> QED
      BY <2>2, EndKeeps
  <1>10. ASSUME Resolves(c),
                Put(r, "guard", request[r].kind, request[r].flow, c, request[r].app),
                flow' = flow
         PROVE  IInv'
    <2>1. /\ request' = [q \in Slots |-> request'[q]]
          /\ request'[r] = [stage |-> "guard", kind |-> request[r].kind,
                            flow |-> request[r].flow, config |-> c, app |-> request[r].app]
          /\ \A q \in Slots : q # r => request'[q] = request[q]
      BY <1>10 DEF Put
    <2>2. stored' = stored /\ fresh' = fresh /\ flow' = flow
      BY <1>10 DEF Resolve
    <2>3. \A q \in Slots : request'[q].kind = request[q].kind /\ request'[q].flow = request[q].flow
      BY <2>1
    <2>4. TypeOK'
      <3>1. request' \in [Slots -> Requests]
        <4>1. \A q \in Slots : request'[q] \in Requests
          BY <1>1, <2>1 DEF TypeOK, Requests, Stages
        <4> QED
          BY <2>1, <4>1
      <3>2. \A p \in Providers : registry'[p] # None
        BY <1>3, <1>4, <1>10 DEF Resolves
      <3>3. \A q \in Slots :
              /\ request'[q].stage \in {"resolve", "guard", "exchange"} =>
                   request'[q].config \in Configs
              /\ request'[q].kind \in {"login", "callback"} => request'[q].flow \in Flows
              /\ request'[q].stage = "exchange" => request'[q].kind = "callback"
        BY <1>1, <1>2, <2>1, <2>3 DEF TypeOK
      <3> QED
        BY <1>1, <1>5, <1>6a, <2>2, <3>1, <3>2, <3>3 DEF TypeOK
    <2>5. FlowInv'
      BY <1>1, <2>1, <2>2, <2>3 DEF IInv, FlowInv, Busy
    <2>7. \A q \in Slots : Steady(q)' => /\ Steady(q) /\ request[q].flow \in Flows
                                          /\ steady'[request[q].flow]
      BY <1>6a, <2>3 DEF Steady
    <2>8. OwnInv'
      BY <1>6, <2>1, <2>2, <2>7 DEF IInv, OwnInv
    <2>9. \A q \in Slots : ProviderOf(q)' = ProviderOf(q)
      BY <2>2, <2>3 DEF ProviderOf
    <2>10. FoundInv'
      <3>1. SUFFICES ASSUME NEW q \in Slots, Steady(q)'
                     PROVE  /\ request'[q].stage = "guard" =>
                                 \A p \in Providers : registry'[p] = Strategy(stored'.options[p])
                            /\ request'[q].stage = "exchange" =>
                                 request'[q].app = stored'.options[ProviderOf(q)'].app
        BY DEF FoundInv
      <3>2. Steady(q) /\ (request'[q].stage = "guard" => c = stored)
        BY <1>6, <1>6a, <2>1, <2>7, <3>1
      <3>3. request'[q].stage = "guard" =>
              \A p \in Providers : registry'[p] = Strategy(stored'.options[p])
        BY <1>3, <1>10, <2>2, <3>2 DEF Resolves
      <3>4. request'[q].stage = "exchange" =>
              request'[q].app = stored'.options[ProviderOf(q)'].app
        BY <2>1, <2>2, <2>9, <3>2 DEF IInv, FoundInv
      <3> QED
        BY <3>3, <3>4
    <2>11. FreshInv'
      <3>1. fresh'[r] => c = stored
        BY <1>1, <2>2 DEF IInv, FreshInv
      <3> QED
        BY <2>1, <2>2, <2>9, <3>1 DEF IInv, FreshInv
    <2>12. SteadyFlowSucceeds'
      BY <1>6a, <2>2 DEF IInv, SteadyFlowSucceeds, On, Lacks
    <2> QED
      BY <2>4, <2>5, <2>8, <2>10, <2>11, <2>12 DEF IInv
  <1> QED
    BY <1>1, <1>9, <1>10, Goes

\* Reading the configuration keeps the invariant: what is read is what is stored.
LEMMA GetConfigKeeps ==
    ASSUME IInv, NEW r \in Slots, GetConfig(r)
    PROVE  IInv'
  <1> USE DEF At
  <1>1. TypeOK /\ request[r] \in Requests /\ request[r].stage = "get" /\ stored \in Configs
    BY DEF IInv, TypeOK, GetConfig
  <1>2. /\ request' = [q \in Slots |-> request'[q]]
        /\ request'[r] = [stage |-> "resolve", kind |-> request[r].kind,
                          flow |-> request[r].flow, config |-> stored, app |-> request[r].app]
        /\ \A q \in Slots : q # r => request'[q] = request[q]
    <2>1. Put(r, "resolve", request[r].kind, request[r].flow, stored, request[r].app)
      BY <1>1, Goes
    <2> QED
      BY <2>1 DEF Put
  <1>3. /\ stored' = stored /\ registry' = registry /\ fresh' = fresh
        /\ flow' = flow
    BY DEF GetConfig
  <1>4. \A q \in Slots : request'[q].kind = request[q].kind /\ request'[q].flow = request[q].flow
    BY <1>2
  <1>5. /\ steady' \in [Flows -> BOOLEAN]
        /\ \A g \in Flows : steady'[g] <=>
             steady[g] \/ (request[r].kind = "login" /\ request[r].flow = g)
    <2>1. steady \in [Flows -> BOOLEAN]
      BY <1>1 DEF TypeOK
    <2>2. steady' = [g \in Flows |->
                      steady[g] \/ (request[r].kind = "login" /\ request[r].flow = g)]
      BY DEF GetConfig
    <2> QED
      BY <2>1, <2>2, Zenon
  <1>6. \A g \in Flows : steady'[g] => steady[g] \/ (g = request[r].flow /\ flow[g].phase = "login")
    BY <1>1, <1>5 DEF IInv, FlowInv
  <1>7. TypeOK'
    <2>1. request' \in [Slots -> Requests]
      <3>1. \A q \in Slots : request'[q] \in Requests
        BY <1>1, <1>2 DEF TypeOK, Requests, Stages
      <3> QED
        BY <1>2, <3>1
    <2>2. \A q \in Slots :
            /\ request'[q].stage \in {"resolve", "guard", "exchange"} =>
                 request'[q].config \in Configs
            /\ request'[q].kind \in {"login", "callback"} => request'[q].flow \in Flows
            /\ request'[q].stage = "exchange" => request'[q].kind = "callback"
            /\ request'[q].stage = "guard" => \A p \in Providers : registry'[p] # None
      BY <1>1, <1>2, <1>3 DEF TypeOK
    <2> QED
      BY <1>1, <1>3, <1>5, <2>1, <2>2 DEF TypeOK
  <1>8. FlowInv'
    <2>1. \A q \in Slots : request'[q].kind \in {"login", "callback"} =>
            request'[q].stage # "idle" /\ flow'[request'[q].flow].phase = request'[q].kind
      BY <1>1, <1>2, <1>3 DEF IInv, FlowInv, Busy, TypeOK
    <2> QED
      BY <1>4, <2>1 DEF IInv, FlowInv, Busy
  <1>10. OwnInv'
    <2>1. SUFFICES ASSUME NEW q \in Slots, Steady(q)',
                          request'[q].stage \in {"resolve", "guard", "exchange"}
                   PROVE  request'[q].config = stored
      BY <1>3 DEF OwnInv
    <2>2. CASE q = r
      BY <1>2, <2>2
    <2>3. CASE q # r
      <3>1. Steady(q)
        <4>1. request[q].flow # request[r].flow /\ request[q].flow \in Flows
          BY <1>4, <2>1, <2>3, LoginFlowAssumption DEF Steady, IInv, FlowInv
        <4> QED
          BY <1>4, <1>6, <2>1, <4>1 DEF Steady
      <3> QED
        BY <1>2, <2>1, <2>3, <3>1 DEF IInv, OwnInv
    <2> QED
      BY <2>2, <2>3
  <1>11. \A q \in Slots : request[q].flow \in Flows => ProviderOf(q)' = ProviderOf(q)
    BY <1>3, <1>4 DEF ProviderOf
  <1>12. FoundInv'
    <2>1. SUFFICES ASSUME NEW q \in Slots, Steady(q)', q # r
                   PROVE  /\ request'[q].stage = "guard" =>
                               \A p \in Providers : registry'[p] = Strategy(stored'.options[p])
                          /\ request'[q].stage = "exchange" =>
                               request'[q].app = stored'.options[ProviderOf(q)'].app
      BY <1>2 DEF FoundInv
    <2>2. Steady(q)
      <3>1. request[q].flow # request[r].flow /\ request[q].flow \in Flows
        BY <1>4, <2>1, LoginFlowAssumption DEF Steady, IInv, FlowInv
      <3> QED
        BY <1>4, <1>6, <2>1, <3>1 DEF Steady
    <2>3. ProviderOf(q)' = ProviderOf(q)
      BY <1>11, <2>2 DEF Steady
    <2> QED
      BY <1>2, <1>3, <2>1, <2>2, <2>3 DEF IInv, FoundInv
  <1>13. FreshInv'
    <2>1. \A q \in Slots : request'[q].stage = "exchange" =>
            On(request'[q].config, ProviderOf(q)')
      BY <1>1, <1>2, <1>11 DEF IInv, FreshInv, TypeOK
    <2> QED
      BY <1>2, <1>3, <2>1 DEF IInv, FreshInv
  <1>14. SteadyFlowSucceeds'
    <2>1. SUFFICES ASSUME NEW g \in Flows, steady'[g],
                          On(stored, flow[g].provider), ~Lacks(stored)
                   PROVE  /\ flow[g].phase \notin {"home", "failed"}
                          /\ flow[g].phase \in {"code", "callback", "in"} =>
                               flow[g].app = stored.options[flow[g].provider].app
      BY <1>3 DEF SteadyFlowSucceeds, On, Lacks
    <2>2. CASE flow[g].phase = "login"
      BY <2>2
    <2>3. CASE flow[g].phase # "login"
      <3>1. steady[g]
        BY <1>6, <2>1, <2>3
      <3> QED
        BY <2>1, <3>1 DEF IInv, SteadyFlowSucceeds
    <2> QED
      BY <2>2, <2>3
  <1> QED
    BY <1>7, <1>8, <1>10, <1>12, <1>13, <1>14 DEF IInv

\* The guard of a steady flow whose provider is wanted finds the configured client ID.
LEMMA GuardFinds ==
    ASSUME IInv, NEW r \in Slots, Steady(r), At(r, "guard"),
           On(stored, ProviderOf(r)), ~Lacks(stored)
    PROVE  /\ Authenticates(r)
           /\ registry[ProviderOf(r)] \in Apps
           /\ registry[ProviderOf(r)] = stored.options[ProviderOf(r)].app
  <1>1. ProviderOf(r) \in Providers
    BY DEF ProviderOf, Steady, IInv, TypeOK, FlowStates
  <1>2. request[r].config = stored
    BY DEF IInv, OwnInv, At
  <1>3. registry[ProviderOf(r)] = Strategy(stored.options[ProviderOf(r)])
    BY <1>1 DEF IInv, FoundInv
  <1>4. stored \in Configs /\ stored.options[ProviderOf(r)] \in Options
    BY <1>1 DEF IInv, TypeOK, Configs
  <1>5. stored.options[ProviderOf(r)].active /\ stored.options[ProviderOf(r)].app # None
    BY <1>1 DEF On, Lacks
  <1> QED
    BY <1>2, <1>3, <1>4, <1>5 DEF Authenticates, Strategy, Options

\* A request that ends without registering keeps the invariant, unless it fails a
\* steady flow or gives it another strategy's client ID.
LEMMA SameRegistryEnds ==
    ASSUME IInv, NEW r \in Slots, NEW phase \in Phases, Answer(r, phase),
           UNCHANGED <<stored, registry, fresh, steady>>,
           Steady(r) /\ On(stored, ProviderOf(r)) /\ ~Lacks(stored) =>
             /\ phase \notin {"home", "failed"}
             /\ phase \in {"code", "callback", "in"} =>
                  flow[request[r].flow].app = stored.options[ProviderOf(r)].app
    PROVE  IInv'
  <1>1. registry' \in [Providers -> Apps \cup {Anonymous, None}]
    BY DEF IInv, TypeOK
  <1>2. \A q \in Slots : q # r /\ At(q, "guard") => \A p \in Providers : registry'[p] # None
    BY DEF IInv, TypeOK
  <1>3. /\ steady' \in [Flows -> BOOLEAN]
        /\ \A q \in Slots : q # r /\ At(q, "guard") /\ request[q].flow \in Flows =>
             (steady'[request[q].flow] => \A p \in Providers : registry'[p] = Strategy(stored.options[p]))
    BY DEF IInv, TypeOK, FoundInv, Steady
  <1>4. Ending(r, phase)
    BY <1>1, <1>2, <1>3 DEF Ending, Steady, ProviderOf
  <1> QED
    BY <1>4, EndKeeps

\* Sending the browser to the provider keeps the invariant.
LEMMA BeginLoginKeeps ==
    ASSUME IInv, NEW r \in Slots, BeginLogin(r)
    PROVE  IInv'
  <1> USE DEF At
  <1> DEFINE p == ProviderOf(r)
             f == request[r].flow
  <1>1. /\ TypeOK /\ request[r].stage = "guard" /\ request[r].kind = "login"
        /\ f \in Flows /\ flow[f].phase = "login" /\ p \in Providers
        /\ flow \in [Flows -> FlowStates]
        /\ stored' = stored /\ registry' = registry /\ fresh' = fresh /\ steady' = steady
    BY DEF IInv, TypeOK, BeginLogin, FlowInv, ProviderOf, FlowStates
  <1>2. ASSUME ~(Authenticates(r) /\ registry[p] \in Apps), Answer(r, "home")
        PROVE  IInv'
    <2>1. ~(Steady(r) /\ On(stored, p) /\ ~Lacks(stored))
      BY <1>1, <1>2, GuardFinds
    <2> QED
      BY <1>1, <1>2, <2>1, SameRegistryEnds DEF Phases
  <1>3. ASSUME Authenticates(r), registry[p] \in Apps, Finish(r),
               flow' = [flow EXCEPT ![f].phase = "code", ![f].app = registry[p]]
        PROVE  IInv'
    <2>1. /\ request' = [q \in Slots |-> request'[q]]
          /\ request'[r] = Free
          /\ \A q \in Slots : q # r => request'[q] = request[q]
      BY <1>1, <1>3 DEF Finish, TypeOK
    <2>2. /\ flow' \in [Flows -> FlowStates]
          /\ \A g \in Flows : /\ flow'[g].provider = flow[g].provider
                              /\ g # f => flow'[g].phase = flow[g].phase
                              /\ g # f => flow'[g].app = flow[g].app
          /\ flow'[f].phase = "code" /\ flow'[f].app = registry[p]
      BY <1>1, <1>3 DEF FlowStates, Phases
    <2>3. TypeOK'
      <3>1. request' \in [Slots -> Requests]
        <4>1. \A q \in Slots : request'[q] \in Requests
          BY <1>1, <2>1 DEF TypeOK, Free, Requests, Stages, Kinds
        <4> QED
          BY <2>1, <4>1
      <3>2. \A q \in Slots :
              /\ request'[q].stage \in {"resolve", "guard", "exchange"} =>
                   request'[q].config \in Configs
              /\ request'[q].kind \in {"login", "callback"} => request'[q].flow \in Flows
              /\ request'[q].stage = "exchange" => request'[q].kind = "callback"
              /\ request'[q].stage = "guard" => \A x \in Providers : registry'[x] # None
        BY <1>1, <2>1 DEF TypeOK, Free
      <3> QED
        BY <1>1, <2>2, <3>1, <3>2 DEF TypeOK
    <2>4. \A q \in Slots : q # r => request[q].flow # f
      BY <1>1, LoginFlowAssumption DEF IInv, FlowInv
    <2>5. FlowInv'
      <3>1. \A q \in Slots : request'[q].kind \in {"login", "callback"} =>
              request'[q].stage # "idle" /\ flow'[request'[q].flow].phase = request'[q].kind
        BY <1>1, <2>1, <2>2, <2>4 DEF IInv, FlowInv, Busy, TypeOK, Free
      <3> QED
        BY <2>1, <3>1 DEF IInv, FlowInv, Busy, Free
    <2>7. \A q \in Slots : Steady(q)' => q # r /\ Steady(q)
      BY <1>1, <2>1, <2>2, LoginFlowAssumption DEF Steady, Free
    <2>8. OwnInv'
      BY <1>1, <2>1, <2>7 DEF IInv, OwnInv
    <2>9. \A q \in Slots : q # r /\ request[q].flow \in Flows => ProviderOf(q)' = ProviderOf(q)
      BY <2>1, <2>2 DEF ProviderOf
    <2>10. FoundInv'
      <3>1. SUFFICES ASSUME NEW q \in Slots, Steady(q)'
                     PROVE  /\ request'[q].stage = "guard" =>
                                 \A x \in Providers : registry'[x] = Strategy(stored'.options[x])
                            /\ request'[q].stage = "exchange" =>
                                 request'[q].app = stored'.options[ProviderOf(q)'].app
        BY DEF FoundInv
      <3>2. q # r /\ Steady(q) /\ ProviderOf(q)' = ProviderOf(q)
        BY <2>7, <2>9, <3>1 DEF Steady
      <3> QED
        BY <1>1, <2>1, <3>2 DEF IInv, FoundInv
    <2>11. FreshInv'
      <3>1. \A q \in Slots : request'[q].stage = "exchange" =>
              On(request'[q].config, ProviderOf(q)')
        BY <1>1, <2>1, <2>9 DEF IInv, FreshInv, TypeOK, Free
      <3> QED
        BY <1>1, <2>1, <3>1 DEF IInv, FreshInv, Free
    <2>12. SteadyFlowSucceeds'
      <3>1. SUFFICES ASSUME NEW g \in Flows, steady[g],
                            On(stored, flow[g].provider), ~Lacks(stored)
                     PROVE  /\ flow'[g].phase \notin {"home", "failed"}
                            /\ flow'[g].phase \in {"code", "callback", "in"} =>
                                 flow'[g].app = stored.options[flow[g].provider].app
        BY <1>1, <2>2 DEF SteadyFlowSucceeds, On, Lacks
      <3>2. CASE g # f
        BY <2>2, <3>1, <3>2 DEF IInv, SteadyFlowSucceeds
      <3>3. CASE g = f
        <4>1. Steady(r) /\ p = flow[g].provider
          BY <1>1, <3>1, <3>3 DEF Steady, ProviderOf
        <4>2. registry[p] = stored.options[p].app
          BY <1>1, <3>1, <4>1, GuardFinds
        <4> QED
          BY <2>2, <3>3, <4>1, <4>2
      <3> QED
        BY <3>2, <3>3
    <2> QED
      BY <2>3, <2>5, <2>8, <2>10, <2>11, <2>12 DEF IInv
  <1> QED
    BY <1>2, <1>3 DEF BeginLogin

\* The guard of the callback keeps the invariant: a steady flow finds the strategy of
\* its own configuration.
LEMMA CallbackKeeps ==
    ASSUME IInv, NEW r \in Slots, Callback(r)
    PROVE  IInv'
  <1> USE DEF At
  <1> DEFINE p == ProviderOf(r)
             f == request[r].flow
  <1>1. /\ TypeOK /\ request[r].stage = "guard" /\ request[r].kind = "callback"
        /\ request[r] \in Requests
        /\ f \in Flows /\ p \in Providers
        /\ stored' = stored /\ registry' = registry /\ fresh' = fresh /\ steady' = steady
    BY DEF IInv, TypeOK, Callback, ProviderOf, FlowStates
  <1>2. ASSUME ~(Authenticates(r) /\ registry[p] \in Apps), Answer(r, "failed")
        PROVE  IInv'
    <2>1. ~(Steady(r) /\ On(stored, p) /\ ~Lacks(stored))
      BY <1>1, <1>2, GuardFinds
    <2> QED
      BY <1>1, <1>2, <2>1, SameRegistryEnds DEF Phases
  <1>3. ASSUME Authenticates(r), registry[p] \in Apps, flow' = flow,
               Put(r, "exchange", request[r].kind, f, request[r].config, registry[p])
        PROVE  IInv'
    <2>1. /\ request' = [q \in Slots |-> request'[q]]
          /\ request'[r] = [stage |-> "exchange", kind |-> request[r].kind, flow |-> f,
                            config |-> request[r].config, app |-> registry[p]]
          /\ \A q \in Slots : q # r => request'[q] = request[q]
      BY <1>3 DEF Put
    <2>2. \A q \in Slots : request'[q].kind = request[q].kind /\ request'[q].flow = request[q].flow
                           /\ request'[q].config = request[q].config
      BY <2>1
    <2>3. \A q \in Slots : ProviderOf(q)' = ProviderOf(q) /\ (Steady(q)' <=> Steady(q))
      BY <1>1, <1>3, <2>2 DEF ProviderOf, Steady
    <2>4. TypeOK'
      <3>1. request' \in [Slots -> Requests]
        <4>1. \A q \in Slots : request'[q] \in Requests
          BY <1>1, <1>3, <2>1 DEF TypeOK, Requests, Stages
        <4> QED
          BY <2>1, <4>1
      <3>2. \A q \in Slots :
              /\ request'[q].stage \in {"resolve", "guard", "exchange"} =>
                   request'[q].config \in Configs
              /\ request'[q].kind \in {"login", "callback"} => request'[q].flow \in Flows
              /\ request'[q].stage = "exchange" => request'[q].kind = "callback"
              /\ request'[q].stage = "guard" => \A x \in Providers : registry'[x] # None
        BY <1>1, <2>1, <2>2 DEF TypeOK
      <3> QED
        BY <1>1, <1>3, <3>1, <3>2 DEF TypeOK
    <2>5. FlowInv'
      BY <1>1, <1>3, <2>1, <2>2 DEF IInv, FlowInv, Busy
    <2>7. OwnInv'
      BY <1>1, <2>1, <2>2, <2>3 DEF IInv, OwnInv
    <2>8. FoundInv'
      <3>1. SUFFICES ASSUME NEW q \in Slots, Steady(q)'
                     PROVE  /\ request'[q].stage = "guard" =>
                                 \A x \in Providers : registry'[x] = Strategy(stored'.options[x])
                            /\ request'[q].stage = "exchange" =>
                                 request'[q].app = stored'.options[ProviderOf(q)'].app
        BY DEF FoundInv
      <3>2. Steady(q) /\ ProviderOf(q)' = ProviderOf(q)
        BY <2>3, <3>1
      <3>3. CASE q # r
        BY <1>1, <2>1, <3>2, <3>3 DEF IInv, FoundInv
      <3>4. CASE q = r
        <4>1. request[r].config = stored /\ registry[p] = Strategy(stored.options[p])
          BY <1>1, <3>2, <3>4 DEF IInv, OwnInv, FoundInv
        <4>2. stored.options[p].active
          BY <1>3, <4>1 DEF Authenticates, On
        <4> QED
          BY <1>1, <2>1, <3>2, <3>4, <4>1, <4>2 DEF Strategy
      <3> QED
        BY <3>3, <3>4
    <2>9. FreshInv'
      <3>1. \A q \in Slots : request'[q].stage = "exchange" =>
              On(request'[q].config, ProviderOf(q)')
        BY <1>3, <2>1, <2>2, <2>3 DEF IInv, FreshInv, Authenticates
      <3> QED
        BY <1>1, <2>1, <2>2, <3>1 DEF IInv, FreshInv
    <2>10. SteadyFlowSucceeds'
      BY <1>1, <1>3 DEF IInv, SteadyFlowSucceeds, On, Lacks
    <2> QED
      BY <2>4, <2>5, <2>7, <2>8, <2>9, <2>10 DEF IInv
  <1> QED
    BY <1>1, <1>2, <1>3, Goes

\* The exchange of the code keeps the invariant: the client ID is the one the flow
\* began with.
LEMMA ExchangeKeeps ==
    ASSUME IInv, NEW r \in Slots, Exchange(r)
    PROVE  IInv'
  <1> DEFINE f == request[r].flow
             phase == IF request[r].app = flow[f].app THEN "in" ELSE "failed"
  <1>1. /\ f \in Flows /\ flow[f].phase = "callback" /\ flow[f].provider = ProviderOf(r)
        /\ At(r, "exchange")
    BY DEF IInv, TypeOK, FlowInv, Exchange, At, ProviderOf
  <1>2. Answer(r, phase) /\ UNCHANGED <<stored, registry, fresh, steady>> /\ phase \in Phases
    BY DEF Exchange, Phases
  <1>3. Steady(r) /\ On(stored, ProviderOf(r)) /\ ~Lacks(stored) =>
          /\ request[r].app = stored.options[ProviderOf(r)].app
          /\ flow[f].app = stored.options[ProviderOf(r)].app
    BY <1>1 DEF IInv, FoundInv, SteadyFlowSucceeds, Steady
  <1> QED
    BY <1>2, <1>3, SameRegistryEnds

\* An update keeps the invariant, for it ends every steady flow and every freshness.
LEMMA UpdateKeeps ==
    ASSUME IInv, NEW r \in Slots, NEW c \in Configs, Update(r, c)
    PROVE  IInv'
  <1> USE DEF At
  <1>1. TypeOK /\ request[r].kind = "update"
    BY DEF IInv, Update
  <1>2. /\ request' = [q \in Slots |-> request'[q]]
        /\ request'[r] = Free
        /\ \A q \in Slots : q # r => request'[q] = request[q]
    BY <1>1 DEF Update, Finish, TypeOK
  <1>3. flow' = flow /\ steady' = [f \in Flows |-> FALSE]
    BY DEF Update
  <1>4. /\ stored' \in Configs /\ registry' = registry
        /\ fresh' = [q \in Slots |-> FALSE]
    BY DEF Update
  <1>5. TypeOK'
    <2>1. request' \in [Slots -> Requests]
      <3>1. \A q \in Slots : request'[q] \in Requests
        BY <1>1, <1>2 DEF TypeOK, Free, Requests, Stages, Kinds
      <3> QED
        BY <1>2, <3>1
    <2>2. \A q \in Slots :
            /\ request'[q].stage \in {"resolve", "guard", "exchange"} =>
                 request'[q].config \in Configs
            /\ request'[q].kind \in {"login", "callback"} => request'[q].flow \in Flows
            /\ request'[q].stage = "exchange" => request'[q].kind = "callback"
            /\ request'[q].stage = "guard" => \A x \in Providers : registry'[x] # None
      BY <1>1, <1>2, <1>4 DEF TypeOK, Free
    <2> QED
      BY <1>1, <1>3, <1>4, <2>1, <2>2 DEF TypeOK
  <1>6. FlowInv'
    <2>1. \A q \in Slots : request'[q].kind \in {"login", "callback"} =>
            request'[q].stage # "idle" /\ flow'[request'[q].flow].phase = request'[q].kind
      BY <1>1, <1>2, <1>3 DEF IInv, FlowInv, Busy, TypeOK, Free
    <2> QED
      BY <1>2, <2>1 DEF IInv, FlowInv, Busy, Free
  <1>7. \A q \in Slots : ~Steady(q)'
    BY <1>3 DEF Steady
  <1>8. OwnInv' /\ FoundInv' /\ SteadyFlowSucceeds'
    BY <1>3, <1>7 DEF OwnInv, FoundInv, SteadyFlowSucceeds
  <1>9. FreshInv'
    <2>1. \A q \in Slots : request'[q].stage = "exchange" =>
            On(request'[q].config, ProviderOf(q)')
      BY <1>1, <1>2, <1>3 DEF IInv, FreshInv, TypeOK, Free, ProviderOf
    <2> QED
      BY <1>4, <2>1 DEF FreshInv
  <1> QED
    BY <1>5, <1>6, <1>8, <1>9 DEF IInv

\* A restart keeps the invariant: no request is left that would find an empty table.
LEMMA RestartKeeps ==
    ASSUME IInv, Restart
    PROVE  IInv'
  <1> USE DEF At
  <1>1. /\ request' = [r \in Slots |-> Free]
        /\ registry' = [p \in Providers |-> None]
        /\ stored' = stored /\ fresh' = fresh /\ steady' = steady
    BY DEF Restart
  <1>2. /\ flow' \in [Flows -> FlowStates]
        /\ \A g \in Flows : /\ flow'[g].phase = flow[g].phase \/ flow'[g].phase = "lost"
                            /\ flow'[g].provider = flow[g].provider
                            /\ flow'[g].app = flow[g].app
    <2>1. flow \in [Flows -> FlowStates]
      BY DEF IInv, TypeOK
    <2>2. \A g \in Flows : flow'[g] = flow[g] \/ flow'[g] = [flow[g] EXCEPT !.phase = "lost"]
      BY DEF Restart
    <2>3. flow' = [g \in Flows |-> flow'[g]]
      BY DEF Restart
    <2>4. \A g \in Flows : [flow[g] EXCEPT !.phase = "lost"] \in FlowStates
      BY <2>1 DEF FlowStates, Phases
    <2> QED
      BY <2>1, <2>2, <2>3, <2>4 DEF FlowStates
  <1>3. Free \in Requests
    BY DEF Free, Requests, Stages, Kinds
  <1>4. TypeOK'
    BY <1>1, <1>2, <1>3 DEF IInv, TypeOK, Free
  <1>5. FlowInv' /\ OwnInv' /\ FoundInv' /\ FreshInv'
    BY <1>1, LoginFlowAssumption
       DEF FlowInv, OwnInv, FoundInv, FreshInv, Free, Busy
  <1>6. SteadyFlowSucceeds'
    <2>1. SUFFICES ASSUME NEW g \in Flows, steady[g],
                          On(stored, flow[g].provider), ~Lacks(stored)
                   PROVE  /\ flow'[g].phase \notin {"home", "failed"}
                          /\ flow'[g].phase \in {"code", "callback", "in"} =>
                               flow[g].app = stored.options[flow[g].provider].app
      BY <1>1, <1>2 DEF SteadyFlowSucceeds, On, Lacks
    <2>2. flow'[g].phase = flow[g].phase \/ flow'[g].phase = "lost"
      BY <1>2
    <2> QED
      BY <2>1, <2>2 DEF IInv, SteadyFlowSucceeds
  <1> QED
    BY <1>4, <1>5, <1>6 DEF IInv

-----------------------------------------------------------------------------

\* The invariant holds at the start.
LEMMA Initially == Init => IInv
  <1> SUFFICES ASSUME Init PROVE IInv
    OBVIOUS
  <1>1. /\ stored \in Configs
        /\ registry = [p \in Providers |-> None]
        /\ request = [r \in Slots |-> Free]
        /\ fresh = [r \in Slots |-> FALSE]
    BY DEF Init
  <1>2. flow \in [Flows -> FlowStates] /\ steady = [f \in Flows |-> FALSE]
    <2>1. flow \in [Flows -> {NoFlow(p) : p \in Providers}]
      BY DEF Init
    <2>2. {NoFlow(p) : p \in Providers} \subseteq FlowStates
      <3>1. \A p \in Providers : NoFlow(p) \in FlowStates
        BY DEF NoFlow, FlowStates, Phases
      <3> QED
        BY <3>1
    <2> QED
      BY <2>1, <2>2 DEF Init
  <1>3. Free \in Requests
    BY DEF Free, Requests, Stages, Kinds
  <1>4. TypeOK
    BY <1>1, <1>2, <1>3 DEF TypeOK, Free, At
  <1>5. FlowInv /\ OwnInv /\ FoundInv /\ FreshInv
    BY <1>1, LoginFlowAssumption
       DEF FlowInv, OwnInv, FoundInv, FreshInv, Free, Busy, At
  <1>6. SteadyFlowSucceeds
    BY <1>2 DEF SteadyFlowSucceeds
  <1> QED
    BY <1>4, <1>5, <1>6 DEF IInv

\* Every step keeps the invariant.
LEMMA OneStep ==
    ASSUME IInv, [Next]_vars
    PROVE  IInv'
  <1>1. ASSUME NEW r \in Slots, NEW f \in Flows, Login(r, f) \/ Return(r, f)
        PROVE  IInv'
    BY <1>1, ArrivalArrives, ArrivalKeeps
  <1>2. ASSUME NEW r \in Slots, NEW kind \in Kinds, Call(r, kind)
        PROVE  IInv'
    BY <1>2, ArrivalArrives, ArrivalKeeps
  <1>3. ASSUME NEW r \in Slots, GetConfig(r) \/ Resolve(r) \/ BeginLogin(r) \/ Callback(r)
                                \/ Exchange(r)
        PROVE  IInv'
    BY <1>3, GetConfigKeeps, ResolveKeeps, BeginLoginKeeps, CallbackKeeps, ExchangeKeeps
  <1>4. ASSUME NEW r \in Slots, NEW c \in Configs, Update(r, c)
        PROVE  IInv'
    BY <1>4, UpdateKeeps
  <1>5. ASSUME NEW r \in Slots, Serve(r)
        PROVE  IInv'
    <2>1. request[r].flow = None /\ ~Steady(r)
      BY <1>5, LoginFlowAssumption DEF Serve, IInv, FlowInv, Steady
    <2>2. Answer(r, "lost") /\ "lost" \in Phases /\ UNCHANGED <<stored, registry, fresh, steady>>
      BY <1>5, <2>1 DEF Serve, Answer, Phases
    <2> QED
      BY <2>1, <2>2, SameRegistryEnds
  <1>6. ASSUME NEW r \in Slots, Abort(r)
        PROVE  IInv'
    <2>1. Answer(r, "lost") /\ "lost" \in Phases /\ UNCHANGED <<stored, registry, fresh, steady>>
      BY <1>6 DEF Abort, Phases
    <2> QED
      BY <2>1, SameRegistryEnds
  <1>7. ASSUME UNCHANGED vars
        PROVE  IInv'
    BY <1>7 DEF vars, IInv, TypeOK, FlowInv, OwnInv, FoundInv, FreshInv,
                SteadyFlowSucceeds, Busy, At, Steady, ProviderOf, On, Lacks
  <1> QED
    BY <1>1, <1>2, <1>3, <1>4, <1>5, <1>6, <1>7, RestartKeeps DEF Next, RequestStep

\* The strengthened invariant holds in every reachable state.
THEOREM LoginFlowInductive == Spec => []IInv
  BY Initially, OneStep, PTL DEF Spec

\* Every variable keeps its type, and passport always has a strategy under the name a
\* guard asks for: the middleware and its factories run before the guards.
THEOREM LoginFlowTypeOK == Spec => []TypeOK
  <1>1. IInv => TypeOK
    BY DEF IInv
  <1> QED
    BY <1>1, LoginFlowInductive, PTL

\* A login through an active provider is never sent home or failed, and has the client
\* ID of the configuration in both its requests, unless an update is stored meanwhile or
\* a request with an older configuration registers its strategies between the login's
\* or the callback's own and its guard.
THEOREM SteadySucceeds == Spec => []SteadyFlowSucceeds
  <1>1. IInv => SteadyFlowSucceeds
    BY DEF IInv
  <1> QED
    BY <1>1, LoginFlowInductive, PTL

\* A request that arrives after the update that turned a provider off was stored
\* exchanges no code with it.
THEOREM TurnedOff == Spec => []TurnedOffStaysOff
  <1>1. IInv => TurnedOffStaysOff
    BY DEF IInv, FreshInv, TurnedOffStaysOff, At
  <1> QED
    BY <1>1, LoginFlowInductive, PTL

\* Without a client ID of an active provider no request gets past the strategies, the
\* update that would correct it included, and none ever does again.
THEOREM NoWayBack == Spec => LockedForGood
  <1> USE DEF At
  <1>1. ASSUME IInv, Locked, [Next]_vars
        PROVE  Locked'
    <2>1. TypeOK /\ Lacks(stored)
      BY <1>1 DEF IInv, Locked
    <2>2. SUFFICES ASSUME stored' = stored
                   PROVE  \A r \in Slots :
                            /\ request'[r].stage = "guard" => request'[r].kind # "update"
                            /\ request'[r].stage = "resolve" => Lacks(request'[r].config)
      <3>1. stored' = stored
        BY <1>1 DEF Next, vars, RequestStep, Login, Return, Call, Arrive, GetConfig, Resolve,
                    BeginLogin, Callback, Exchange, Update, Serve, Abort, Restart, Locked
      <3> QED
        BY <2>1, <2>2, <3>1 DEF Locked, Lacks
    <2>3. ASSUME NEW r \in Slots,
                 request'[r] # request[r] => /\ request'[r].stage = "guard" =>
                                                  request'[r].kind # "update"
                                             /\ request'[r].stage = "resolve" =>
                                                  Lacks(request'[r].config),
                 \A q \in Slots : q # r => request'[q] = request[q]
          PROVE  \A q \in Slots :
                   /\ request'[q].stage = "guard" => request'[q].kind # "update"
                   /\ request'[q].stage = "resolve" => Lacks(request'[q].config)
      BY <1>1, <2>3 DEF Locked
    <2>4. ASSUME NEW r \in Slots, NEW s \in Stages \ {"guard", "resolve"}, NEW k, NEW f,
                 NEW c, NEW a, Put(r, s, k, f, c, a)
          PROVE  \A q \in Slots :
                   /\ request'[q].stage = "guard" => request'[q].kind # "update"
                   /\ request'[q].stage = "resolve" => Lacks(request'[q].config)
      <3>1. request'[r].stage = s
        BY <2>4 DEF Put
      <3> QED
        BY <2>3, <2>4, <3>1 DEF Put
    <2>5. ASSUME NEW r \in Slots, Finish(r)
          PROVE  Put(r, "idle", "other", None, None, None)
      BY <2>1, <2>5 DEF Finish, Free, Put, TypeOK
    <2>6. ASSUME NEW r \in Slots, RequestStep(r)
          PROVE  \A q \in Slots :
                   /\ request'[q].stage = "guard" => request'[q].kind # "update"
                   /\ request'[q].stage = "resolve" => Lacks(request'[q].config)
      <3>1. ASSUME \E f \in Flows : Login(r, f) \/ Return(r, f)
            PROVE  \E k, f : Put(r, "get", k, f, None, None)
        BY <2>1, <3>1, Arrivals
      <3>2. ASSUME NEW k \in Kinds, Call(r, k)
            PROVE  Put(r, "get", k, None, None, None)
        BY <2>1, <3>2, Arrivals
      <3>3. CASE GetConfig(r)
        <4>1. Put(r, "resolve", request[r].kind, request[r].flow, stored, request[r].app)
          BY <2>1, <3>3, Goes
        <4>2. request'[r].config = stored /\ request'[r].stage = "resolve"
          BY <4>1 DEF Put
        <4> QED
          BY <2>1, <2>3, <4>1, <4>2 DEF Put
      <3>4. CASE Resolve(r)
        <4>1. request[r].config \in Configs /\ Lacks(request[r].config)
          BY <1>1, <2>1, <3>4 DEF Resolve, TypeOK, Locked
        <4>2. Finish(r)
          BY <2>1, <3>4, <4>1, Goes, ResolvesUnlessLacks DEF Answer
        <4> QED
          BY <2>4, <2>5, <4>2 DEF Stages
      <3>5. CASE Callback(r)
        <4>1. Finish(r) \/ \E k, f, c, a : Put(r, "exchange", k, f, c, a)
          BY <2>1, <3>5, Goes DEF Answer
        <4> QED
          BY <2>4, <2>5, <4>1 DEF Stages
      <3>6. CASE BeginLogin(r) \/ Exchange(r) \/ (\E c \in Configs : Update(r, c)) \/ Serve(r)
                 \/ Abort(r)
        <4>1. Finish(r)
          BY <3>6 DEF BeginLogin, Exchange, Update, Serve, Abort, Answer
        <4> QED
          BY <2>4, <2>5, <4>1 DEF Stages
      <3> QED
        BY <2>4, <2>6, <3>1, <3>2, <3>3, <3>4, <3>5, <3>6 DEF RequestStep, Stages
    <2>7. CASE Restart
      BY <2>7 DEF Restart, Free
    <2>8. CASE UNCHANGED vars
      BY <1>1, <2>8 DEF vars, Locked
    <2> QED
      BY <1>1, <2>6, <2>7, <2>8 DEF Next
  <1>2. IInv /\ [Next]_vars => [Locked => Locked']_vars
    BY <1>1
  <1> QED
    BY <1>2, LoginFlowInductive, PTL DEF Spec, LockedForGood

-----------------------------------------------------------------------------
(***************************************************************************)
(* The register.                                                           *)
(***************************************************************************)

\* A request takes the stored configuration once and then keeps it or is done with
\* it, and replaces it only when it is done with it.
LEMMA HeldStep ==
    ASSUME TypeOK, FlowInv, NEW r \in Slots, RequestStep(r)
    PROVE  /\ \A q \in Slots : q # r => request'[q] = request[q]
           /\ \/ stored' = stored /\ Held(r)' \in {Held(r), {}}
              \/ stored' = stored /\ Held(r) = {} /\ Held(r)' = {stored}
              \/ stored' \in Configs /\ Held(r) = {} /\ Held(r)' = {}
  <1> USE DEF At
  <1>1. ASSUME NEW s \in Stages \ {"resolve", "guard", "exchange"}, NEW k, NEW f, NEW c, NEW a,
               Put(r, s, k, f, c, a)
        PROVE  /\ \A q \in Slots : q # r => request'[q] = request[q]
               /\ Held(r)' = {}
    BY <1>1 DEF Put, Held
  <1>2. ASSUME Finish(r)
        PROVE  Put(r, "idle", "other", None, None, None)
    BY <1>2 DEF Finish, Free, Put, TypeOK
  <1>3. CASE (\E f \in Flows : Login(r, f) \/ Return(r, f)) \/ \E k \in Kinds : Call(r, k)
    <2>1. \E k, f : Put(r, "get", k, f, None, None)
      BY <1>3, Arrivals
    <2>2. stored' = stored
      BY <1>3 DEF Login, Return, Call, Arrive
    <2> QED
      BY <1>1, <2>1, <2>2 DEF Stages
  <1>4. CASE GetConfig(r)
    <2>1. Put(r, "resolve", request[r].kind, request[r].flow, stored, request[r].app)
      BY <1>4, Goes
    <2>2. request[r].stage = "get" /\ stored' = stored
      BY <1>4 DEF GetConfig
    <2> QED
      BY <2>1, <2>2 DEF Put, Held
  <1>5. CASE Resolve(r)
    <2>1. stored' = stored /\ request[r].stage = "resolve"
      BY <1>5 DEF Resolve
    <2>2. CASE Put(r, "guard", request[r].kind, request[r].flow, request[r].config,
                   request[r].app)
      <3>1. request'[r].stage = "guard" /\ request'[r].config = request[r].config
        BY <2>2 DEF Put
      <3> QED
        BY <2>1, <2>2, <3>1 DEF Put, Held
    <2>3. CASE Finish(r)
      BY <1>1, <1>2, <2>1, <2>3 DEF Stages
    <2> QED
      BY <1>5, <2>2, <2>3, Goes DEF Answer
  <1>6. CASE Callback(r)
    <2>1. stored' = stored /\ request[r].stage = "guard" /\ request[r].kind = "callback"
      BY <1>6 DEF Callback
    <2>2. CASE Put(r, "exchange", request[r].kind, request[r].flow, request[r].config,
                   registry[ProviderOf(r)])
      <3>1. /\ request'[r].stage = "exchange" /\ request'[r].config = request[r].config
            /\ request'[r].kind = "callback"
        BY <2>1, <2>2 DEF Put
      <3> QED
        BY <2>1, <2>2, <3>1 DEF Put, Held
    <2>3. CASE Finish(r)
      BY <1>1, <1>2, <2>1, <2>3 DEF Stages
    <2> QED
      BY <1>6, <2>2, <2>3, Goes DEF Answer
  <1>7. CASE BeginLogin(r) \/ Exchange(r) \/ Serve(r) \/ Abort(r)
    <2>1. stored' = stored /\ Finish(r)
      BY <1>7 DEF BeginLogin, Exchange, Serve, Abort, Answer
    <2> QED
      BY <1>1, <1>2, <2>1 DEF Stages
  <1>8. CASE \E c \in Configs : Update(r, c)
    <2>1. stored' \in Configs /\ Finish(r) /\ request[r].stage = "guard" /\ request[r].kind = "update"
      BY <1>8 DEF Update
    <2> QED
      BY <1>1, <1>2, <2>1 DEF Stages, Held
  <1> QED
    BY <1>3, <1>4, <1>5, <1>6, <1>7, <1>8 DEF RequestStep

\* Every step uses the configuration in one step of the register, or not at all.
LEMMA RegisterStep == IInv /\ IInv' /\ [Next]_vars => [CR!Next]_(CR!vars)
  <1> SUFFICES ASSUME IInv, IInv', [Next]_vars
               PROVE  [CR!Next]_(CR!vars)
    OBVIOUS
  <1> DEFINE got == [r \in Slots |-> Held(r)]
  <1>1. TypeOK /\ FlowInv
    BY DEF IInv
  <1>2. got' \in [Slots -> SUBSET Configs]
    BY DEF IInv, TypeOK, Held, At
  <1>3. ASSUME stored' = stored, \A q \in Slots : Held(q)' \in {Held(q), {}}
        PROVE  CR!Next
    <2>1. CR!Drop
      BY <1>2, <1>3 DEF CR!Drop, CR!KeepsOrDrops, CR!NotTaken
    <2> QED
      BY <2>1 DEF CR!Next, CR!Promised
  <1>4. ASSUME NEW r \in Slots, RequestStep(r)
        PROVE  CR!Next
    <2>1. \A q \in Slots : q # r => Held(q)' = Held(q)
      BY <1>1, <1>4, HeldStep DEF Held, At
    <2>2. CASE stored' = stored /\ Held(r)' \in {Held(r), {}}
      BY <1>3, <2>1, <2>2
    <2>3. CASE stored' = stored /\ Held(r) = {} /\ Held(r)' = {stored}
      <3>1. got' = [got EXCEPT ![r] = {stored}]
        BY <2>1, <2>3
      <3>2. CR!Read(r)
        BY <2>3, <3>1 DEF CR!Read, CR!NotTaken
      <3> QED
        BY <3>2 DEF CR!Next, CR!Promised
    <2>4. CASE stored' \in Configs /\ Held(r) = {} /\ Held(r)' = {}
      <3>1. got' = got
        BY <2>1, <2>4
      <3> QED
        BY <2>4, <3>1 DEF CR!Next, CR!Promised, CR!Write
    <2> QED
      BY <1>1, <1>4, <2>2, <2>3, <2>4, HeldStep
  <1>5. CASE Restart
    <2>1. stored' = stored /\ \A q \in Slots : request'[q] = Free
      BY <1>5 DEF Restart
    <2> QED
      BY <1>3, <2>1 DEF Free, Held, At
  <1>6. CASE UNCHANGED vars
    BY <1>3, <1>6 DEF vars, Held, At
  <1> QED
    BY <1>4, <1>5, <1>6 DEF Next

\* LoginFlow and ConfigStore meet in one register: logins, updates and other requests
\* do with the configuration nothing but what ConfigStore's file, copy and requests
\* implement while their history is clean.
THEOREM RegisterUsed == Spec => UsesRegister
  <1>1. Init => CR!Init
    BY DEF Init, CR!Init, CR!NotTaken, Held, Free, At
  <1>2. IInv /\ [Next]_vars => [CR!Next]_(CR!vars)
    BY OneStep, RegisterStep
  <1> QED
    BY <1>1, <1>2, LoginFlowInductive, PTL DEF Spec, UsesRegister, CR!Spec
=============================================================================
