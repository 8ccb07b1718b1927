--------------------------- MODULE TopologyProofs ---------------------------
(* What holds of the topology executor for any callers, flights, adapters,     *)
(* endpoints and layouts: no adapter is lost, no command is applied twice,     *)
(* layouts only move forward and as far as events announced, and a request is  *)
(* begun only by the layout that is installed.                                 *)
EXTENDS Topology, FiniteSetTheorems, TLAPS

\* A flight that is under way.
Runs(f) == pc[f] \notin {"idle", "done"}

\* Where each kind of process can be.
PlacesOK ==
    /\ \A c \in Callers : pc[c] \in {"idle", "plan", "verify", "pick", "lookup", "insert",
            "recheck", "send", "inflight", "refresh", "refreshWait", "refreshAbandoned", "done"}
    /\ \A f \in Flights : pc[f] \in {"idle", "begin", "pick", "lookup", "insert", "recheck",
            "send", "inflight", "install", "retire", "finish", "done"}
    /\ pc[EventLoop] \in {"select", "look", "waitFlight", "refresh", "refreshWait",
            "refreshAbandoned", "done"}
    /\ \A f \in Flights : snap[f] = NoSnapshot

\* What a process has at a place: an endpoint, its adapter, the flight it waits for.
HandsOK ==
    /\ \A p \in Procs : pc[p] \in {"verify", "lookup", "insert", "recheck", "send", "inflight"} =>
            target[p] \in Endpoints
    /\ \A p \in Procs : pc[p] \in {"insert", "recheck", "send", "inflight"} => held[p] \in Adapters

AwaitsOK ==
    \A p \in Refreshers : pc[p] \in {"refreshWait", "refreshAbandoned", "waitFlight"} =>
            awaits[p] \in Flights

ProcsOK == PlacesOK /\ HandsOK /\ AwaitsOK

\* Nothing is collected to be closed before Close.
AdaptersOK ==
    /\ NoLeakedAdapter
    /\ closePc = "open" => toClose = {}

\* A command that may have been applied is not sent again.
AppliedOK ==
    \A c \in Callers :
        \/ applied[c] = 0
        \/ applied[c] = 1 /\ pc[c] = "done"
        \/ /\ applied[c] = 1 /\ why[c] = "giveUp"
           /\ pc[c] \in {"refresh", "refreshWait", "refreshAbandoned"}

\* One flight at a time, the one in refreshInFlight; what it has fetched is not older
\* than what is installed, until it installs it.
FlightsOK ==
    /\ \A f \in Flights : Runs(f) <=> refreshInFlight = f
    /\ topology <= serverEpoch /\ announced <= serverEpoch /\ handled <= announced
    /\ \A f \in Flights : pc[f] = "install" =>
            fetched[f] \in Epochs /\ topology <= fetched[f] /\ fetched[f] <= serverEpoch
    /\ \A f \in Flights : pc[f] = "retire" => fetched[f] \in Epochs /\ fetched[f] <= topology
    /\ \A f \in Flights : pc[f] \in {"inflight", "install"} => ~succeeded[f]
    /\ \A f \in Flights : Runs(f) /\ succeeded[f] =>
            fetched[f] \in Epochs /\ fetched[f] <= topology

\* A snapshot that is current has the target of its layout, control commands use
\* none, and the adapter of a seed stays in the cache.
RoutesOK ==
    /\ \A c \in Callers : pc[c] \in {"idle", "pick"} => snap[c] = NoSnapshot
    /\ \A c \in Callers :
         snap[c] # NoSnapshot /\ pc[c] \in {"verify", "lookup", "insert", "recheck"} =>
            /\ snap[c] <= version
            /\ snap[c] = version => topology # 0 /\ target[c] = Layout[topology][c]
    /\ \A p \in Procs : pc[p] = "recheck" /\ ~closed =>
            target[p] \in Seeds /\ adapters[target[p]] = held[p]

\* Once the event loop has looked, only the flight it found then may have fetched a
\* layout older than the event.
EventsOK ==
    /\ pc[EventLoop] \in {"waitFlight", "refresh", "refreshWait", "refreshAbandoned"} =>
          \A f \in Flights : Runs(f) /\ fetched[f] # 0 =>
              handled <= fetched[f] \/ (pc[EventLoop] = "waitFlight" /\ awaits[EventLoop] = f)
    /\ pc[EventLoop] = "refreshWait" /\ succeeded[awaits[EventLoop]] => handled <= topology

\* The inductive invariant.
TopologyInv ==
    TypeOK /\ ProcsOK /\ AdaptersOK /\ AppliedOK /\ FlightsOK /\ RoutesOK /\ EventsOK

-----------------------------------------------------------------------------
(* Lemmas about the constants.                                                *)

\* The kinds of processes.
LEMMA Kinds ==
    /\ Callers \subseteq Refreshers /\ Refreshers \subseteq Procs /\ Flights \subseteq Procs
    /\ EventLoop \in Refreshers /\ EventLoop \notin Callers \cup Flights
    /\ Callers \cap Flights = {} /\ Refreshers = Callers \cup {EventLoop}
  BY TopologyConstants DEF Refreshers, Procs

\* The bounds, and None.
LEMMA Constants ==
    /\ MaxPlanning \in Nat /\ MaxCalls \in Nat /\ Seeds \subseteq Endpoints
    /\ None \notin Flights /\ None \notin Endpoints /\ None \notin Adapters
  BY TopologyConstants

\* A layout leads every key to an endpoint.
LEMMA LayoutTypes == \A n \in Epochs, c \in Callers : Layout[n][c] \in Endpoints
  BY TopologyConstants

\* Layouts are numbered from 1.
LEMMA EpochsAre == \A n \in Epochs : n \in Nat /\ n > 0
  BY TopologyConstants, FS_CardinalityType

-----------------------------------------------------------------------------
(* Every step keeps every part of the invariant.                              *)

\* The type invariant.
LEMMA TypesKept ==
    ASSUME TopologyInv, [Next]_vars
    PROVE  TypeOK'
  <1>0. TypeOK /\ ExecTypes /\ AdapterTypes /\ FlightTypes /\ PcTypes /\ RouteTypes /\ WaitTypes
     /\ CallTypes /\ PlacesOK /\ HandsOK /\ AwaitsOK
    BY DEF TopologyInv, ProcsOK, TypeOK
  <1>1. ASSUME NEW c \in Callers, Begin(c) PROVE TypeOK'
    <2>1. ExecTypes'
      BY <1>0, <1>1, Kinds DEF Begin, ExecTypes, exec, events, closing
    <2>2. AdapterTypes'
      BY <1>0, <1>1, Kinds DEF Begin, AdapterTypes, exec, closing
    <2>3. FlightTypes'
      BY <1>0, <1>1, Kinds DEF Begin, FlightTypes, flight
    <2>4. PcTypes'
      BY <1>0, <1>1, Kinds DEF Begin, Goto, PCs, PcTypes
    <2>5. RouteTypes'
      BY <1>0, <1>1, Kinds, LayoutTypes, Constants DEF Begin, Candidates, EndpointsOf, RouteTypes,
         ExecTypes, exec, events, closing
    <2>6. WaitTypes'
      BY <1>0, <1>1, Kinds DEF Begin, WaitTypes, wait
    <2>7. CallTypes'
      BY <1>0, <1>1, Kinds, Constants DEF Begin, CallTypes
    <2> QED BY <2>1, <2>2, <2>3, <2>4, <2>5, <2>6, <2>7 DEF TypeOK
  <1>2. ASSUME NEW c \in Callers, Cancel(c) PROVE TypeOK'
    BY <1>0, <1>2, Kinds DEF Cancel, TypeOK, ExecTypes, AdapterTypes, FlightTypes, PcTypes,
       RouteTypes, WaitTypes, CallTypes, PlacesOK, HandsOK, AwaitsOK, PCs, exec, flight, events,
       route, wait, closing
  <1>3. ASSUME NEW c \in Callers, Plan(c) PROVE TypeOK'
    <2>1. ExecTypes'
      BY <1>0, <1>3, Kinds DEF Plan, ExecTypes, exec, events, closing
    <2>2. AdapterTypes'
      BY <1>0, <1>3, Kinds DEF Plan, AdapterTypes, exec, closing
    <2>3. FlightTypes'
      BY <1>0, <1>3, Kinds DEF Plan, FlightTypes, flight
    <2>4. PcTypes'
      BY <1>0, <1>3, Kinds DEF Plan, Goto, PCs, PcTypes
    <2>5. RouteTypes'
      BY <1>0, <1>3, Kinds, LayoutTypes DEF Plan, RouteTypes, ExecTypes, exec, events, closing
    <2>6. WaitTypes'
      BY <1>0, <1>3, Kinds DEF Plan, WaitTypes
    <2>7. CallTypes'
      <3>1. tries' \in [Callers -> 0..MaxPlanning]
        BY <1>0, <1>3, Constants DEF Plan, CallTypes
      <3>2. /\ refreshed' \in [Callers -> BOOLEAN]
            /\ UNCHANGED <<attempt, cancelled, calls, applied>>
        BY <1>0, <1>3 DEF Plan, CallTypes
      <3> QED BY <1>0, <3>1, <3>2 DEF CallTypes
    <2> QED BY <2>1, <2>2, <2>3, <2>4, <2>5, <2>6, <2>7 DEF TypeOK
  <1>4. ASSUME NEW c \in Callers, Verify(c) PROVE TypeOK'
    BY <1>0, <1>4, Kinds DEF Verify, Goto, TypeOK, ExecTypes, AdapterTypes, FlightTypes,
       PcTypes, RouteTypes, WaitTypes, CallTypes, PlacesOK, HandsOK, AwaitsOK, PCs, exec,
       flight, events, route, wait, call, closing
  <1>5. ASSUME NEW c \in Callers, Answer(c) PROVE TypeOK'
    BY <1>0, <1>5, Kinds DEF Answer, Goto, EndRequest, TypeOK, ExecTypes, AdapterTypes,
       FlightTypes, PcTypes, RouteTypes, WaitTypes, CallTypes, PlacesOK, HandsOK, AwaitsOK, PCs,
       exec, flight, events, closing
  <1>6. ASSUME NEW c \in Callers, ControlAnswer(c) PROVE TypeOK'
    BY <1>0, <1>6, Kinds DEF ControlAnswer, Goto, EndRequest, TypeOK, ExecTypes, AdapterTypes,
       FlightTypes, PcTypes, RouteTypes, WaitTypes, CallTypes, PlacesOK, HandsOK, AwaitsOK, PCs,
       exec, flight, events, wait, call, closing
  <1>7. ASSUME NEW c \in Callers, Return(c) PROVE TypeOK'
    <2>1. ExecTypes'
      BY <1>0, <1>7, Kinds DEF Return, ExecTypes, exec, events, closing
    <2>2. AdapterTypes'
      BY <1>0, <1>7, Kinds DEF Return, AdapterTypes, exec, closing
    <2>3. FlightTypes'
      BY <1>0, <1>7, Kinds DEF Return, FlightTypes, flight
    <2>4. PcTypes'
      BY <1>0, <1>7, Kinds DEF Return, Goto, PCs, PcTypes
    <2>5. RouteTypes'
      BY <1>0, <1>7, Kinds DEF Return, NoSnapshot, RouteTypes
    <2>6. WaitTypes'
      BY <1>0, <1>7, Kinds DEF Return, WaitTypes
    <2>7. CallTypes'
      BY <1>0, <1>7, Kinds, Constants DEF Return, CallTypes
    <2> QED BY <2>1, <2>2, <2>3, <2>4, <2>5, <2>6, <2>7 DEF TypeOK
  <1>8. ASSUME NEW f \in Flights, FlightBegin(f) PROVE TypeOK'
    <2>1. ExecTypes'
      BY <1>0, <1>8, Kinds DEF FlightBegin, ExecTypes, exec, events, closing
    <2>2. AdapterTypes'
      BY <1>0, <1>8, Kinds DEF FlightBegin, AdapterTypes, exec, closing
    <2>3. FlightTypes'
      BY <1>0, <1>8, Kinds DEF FlightBegin, FlightTypes, flight
    <2>4. PcTypes'
      BY <1>0, <1>8, Kinds DEF FlightBegin, Goto, PCs, PcTypes
    <2>5. RouteTypes'
      BY <1>0, <1>8, Kinds, LayoutTypes, Constants DEF FlightBegin, Candidates, EndpointsOf,
         RouteTypes, ExecTypes, exec, events, closing
    <2>6. WaitTypes'
      BY <1>0, <1>8, Kinds DEF FlightBegin, WaitTypes, wait
    <2>7. CallTypes'
      BY <1>0, <1>8, Kinds DEF FlightBegin, CallTypes, call
    <2> QED BY <2>1, <2>2, <2>3, <2>4, <2>5, <2>6, <2>7 DEF TypeOK
  <1>9. ASSUME NEW f \in Flights, Fetch(f) PROVE TypeOK'
    <2>1. ExecTypes'
      BY <1>0, <1>9, Kinds DEF Fetch, ExecTypes, exec, events, closing
    <2>2. AdapterTypes'
      BY <1>0, <1>9, Kinds DEF Fetch, EndRequest, AdapterTypes, exec, closing
    <2>3. FlightTypes'
      BY <1>0, <1>9, Kinds DEF Fetch, FlightTypes, ExecTypes, exec, events, closing
    <2>4. PcTypes'
      BY <1>0, <1>9, Kinds DEF Fetch, Goto, PCs, PcTypes
    <2>5. RouteTypes'
      BY <1>0, <1>9, Kinds DEF Fetch, EndRequest, RouteTypes
    <2>6. WaitTypes'
      BY <1>0, <1>9, Kinds DEF Fetch, WaitTypes, wait
    <2>7. CallTypes'
      BY <1>0, <1>9, Kinds DEF Fetch, CallTypes, call
    <2> QED BY <2>1, <2>2, <2>3, <2>4, <2>5, <2>6, <2>7 DEF TypeOK
  <1>10. ASSUME NEW f \in Flights, Install(f) PROVE TypeOK'
    <2>1. ExecTypes'
      BY <1>0, <1>10, Kinds DEF Install, ExecTypes, FlightTypes, events, closing
    <2>2. AdapterTypes'
      BY <1>0, <1>10, Kinds DEF Install, AdapterTypes, closing
    <2>3. FlightTypes'
      BY <1>0, <1>10, Kinds DEF Install, FlightTypes, AdapterTypes, closing
    <2>4. PcTypes'
      BY <1>0, <1>10, Kinds DEF Install, Goto, PCs, PcTypes
    <2>5. RouteTypes'
      BY <1>0, <1>10, Kinds DEF Install, RouteTypes, route
    <2>6. WaitTypes'
      BY <1>0, <1>10, Kinds DEF Install, WaitTypes, wait
    <2>7. CallTypes'
      BY <1>0, <1>10, Kinds DEF Install, CallTypes, call
    <2> QED BY <2>1, <2>2, <2>3, <2>4, <2>5, <2>6, <2>7 DEF TypeOK
  <1>11. ASSUME NEW f \in Flights, Retire(f) PROVE TypeOK'
    <2>1. ExecTypes'
      BY <1>0, <1>11, Kinds DEF Retire, EndpointsOf, ExecTypes, RouteTypes, events, closing
    <2>2. AdapterTypes'
      BY <1>0, <1>11, Kinds DEF Retire, AdapterTypes, closing
    <2>3. FlightTypes'
      BY <1>0, <1>11, Kinds DEF Retire, FlightTypes
    <2>4. PcTypes'
      BY <1>0, <1>11, Kinds DEF Retire, Goto, PCs, PcTypes
    <2>5. RouteTypes'
      BY <1>0, <1>11, Kinds, LayoutTypes, Constants DEF Retire, EndpointsOf, RouteTypes, FlightTypes
    <2>6. WaitTypes'
      BY <1>0, <1>11, Kinds DEF Retire, WaitTypes, wait
    <2>7. CallTypes'
      BY <1>0, <1>11, Kinds DEF Retire, CallTypes, call
    <2> QED BY <2>1, <2>2, <2>3, <2>4, <2>5, <2>6, <2>7 DEF TypeOK
  <1>12. ASSUME NEW f \in Flights, FlightFinish(f) PROVE TypeOK'
    BY <1>0, <1>12, Kinds DEF FlightFinish, Goto, TypeOK, ExecTypes, AdapterTypes, FlightTypes,
       PcTypes, RouteTypes, WaitTypes, CallTypes, PlacesOK, HandsOK, AwaitsOK, PCs, exec,
       events, wait, call, closing
  <1>13. ASSUME LoopSelect PROVE TypeOK'
    BY <1>0, <1>13, Kinds DEF LoopSelect, Goto, TypeOK, ExecTypes, AdapterTypes, FlightTypes,
       PcTypes, RouteTypes, WaitTypes, CallTypes, PlacesOK, HandsOK, AwaitsOK, PCs, exec,
       flight, route, wait, call, closing
  <1>14. ASSUME LoopLook PROVE TypeOK'
    BY <1>0, <1>14, Kinds DEF LoopLook, Goto, TypeOK, ExecTypes, AdapterTypes, FlightTypes,
       PcTypes, RouteTypes, WaitTypes, CallTypes, PlacesOK, HandsOK, AwaitsOK, PCs, exec,
       flight, events, route, call, closing
  <1>15. ASSUME LoopWait PROVE TypeOK'
    BY <1>0, <1>15, Kinds DEF LoopWait, Goto, TypeOK, ExecTypes, AdapterTypes, FlightTypes,
       PcTypes, RouteTypes, WaitTypes, CallTypes, PlacesOK, HandsOK, AwaitsOK, PCs, exec,
       flight, events, route, call, closing
  <1>16. ASSUME NEW p \in Refreshers, Refresh(p) PROVE TypeOK'
    <2>1. ExecTypes'
      BY <1>0, <1>16, Kinds DEF Refresh, ExecTypes, exec, events, closing
    <2>2. AdapterTypes'
      BY <1>0, <1>16, Kinds DEF Refresh, AdapterTypes, exec, closing
    <2>3. FlightTypes'
      <3>1. CASE UNCHANGED flight
        BY <1>0, <3>1 DEF flight, FlightTypes
      <3>2. CASE /\ refreshInFlight \in Flights
                 /\ waiters' = [waiters EXCEPT ![refreshInFlight] = @ + 1]
                 /\ UNCHANGED <<refreshInFlight, abandoned, succeeded, fetched, dropped>>
        BY <1>0, <3>2 DEF FlightTypes
      <3>3. ASSUME NEW f \in Flights, refreshInFlight' = f,
                   waiters' = [waiters EXCEPT ![f] = 1],
                   abandoned' = [abandoned EXCEPT ![f] = FALSE],
                   succeeded' = [succeeded EXCEPT ![f] = FALSE],
                   fetched' = [fetched EXCEPT ![f] = 0], UNCHANGED dropped
            PROVE  FlightTypes'
        BY <1>0, <3>3 DEF FlightTypes
      <3>4. refreshInFlight = None \/ refreshInFlight \in Flights
        BY <1>0 DEF FlightTypes
      <3> QED BY <1>16, <3>1, <3>2, <3>3, <3>4 DEF Refresh
    <2>4. PcTypes'
      BY <1>0, <1>16, Kinds DEF Refresh, Goto, Returned, PCs, PcTypes
    <2>5. RouteTypes'
      BY <1>0, <1>16, Kinds DEF Refresh, RouteTypes, route
    <2>6. WaitTypes'
      BY <1>0, <1>16, Kinds DEF Refresh, Returned, Idle, WaitTypes, FlightTypes, flight
    <2>7. CallTypes'
      BY <1>0, <1>16, Kinds DEF Refresh, Returned, CallTypes, call
    <2> QED BY <2>1, <2>2, <2>3, <2>4, <2>5, <2>6, <2>7 DEF TypeOK
  <1>17. ASSUME NEW p \in Refreshers, RefreshAbandoned(p) PROVE TypeOK'
    <2>1. ExecTypes'
      BY <1>0, <1>17, Kinds DEF RefreshAbandoned, ExecTypes, exec, events, closing
    <2>2. AdapterTypes'
      BY <1>0, <1>17, Kinds DEF RefreshAbandoned, AdapterTypes, exec, closing
    <2>3. FlightTypes'
      BY <1>0, <1>17, Kinds DEF RefreshAbandoned, FlightTypes, flight
    <2>4. PcTypes'
      BY <1>0, <1>17, Kinds DEF RefreshAbandoned, Goto, Returned, PCs, PcTypes
    <2>5. RouteTypes'
      BY <1>0, <1>17, Kinds DEF RefreshAbandoned, RouteTypes, route
    <2>6. WaitTypes'
      BY <1>0, <1>17, Kinds DEF RefreshAbandoned, Returned, WaitTypes
    <2>7. CallTypes'
      BY <1>0, <1>17, Kinds DEF RefreshAbandoned, Returned, CallTypes
    <2> QED BY <2>1, <2>2, <2>3, <2>4, <2>5, <2>6, <2>7 DEF TypeOK
  <1>18. ASSUME NEW p \in Refreshers, RefreshWait(p) PROVE TypeOK'
    <2>1. ExecTypes'
      BY <1>0, <1>18, Kinds DEF RefreshWait, ExecTypes, exec, events, closing
    <2>2. AdapterTypes'
      BY <1>0, <1>18, Kinds DEF RefreshWait, AdapterTypes, exec, closing
    <2>3. FlightTypes'
      <3>1. /\ waiters' = [waiters EXCEPT ![awaits[p]] = IF @ > 0 THEN @ - 1 ELSE @]
            /\ UNCHANGED <<refreshInFlight, fetched, dropped>>
        BY <1>18 DEF RefreshWait
      <3>2. awaits[p] \in Flights
        BY <1>0, <1>18 DEF RefreshWait, AwaitsOK
      <3>3. waiters[awaits[p]] \in Nat
        BY <1>0, <3>2 DEF FlightTypes
      <3>4. (IF waiters[awaits[p]] > 0 THEN waiters[awaits[p]] - 1 ELSE waiters[awaits[p]]) \in Nat
        BY <3>3
      <3>5. waiters' \in [Flights -> Nat]
        BY <1>0, <3>1, <3>2, <3>4 DEF FlightTypes
      <3>6. abandoned' \in [Flights -> BOOLEAN] /\ succeeded' \in [Flights -> BOOLEAN]
        BY <1>0, <1>18, Zenon DEF FlightTypes, RefreshWait
      <3> QED BY <1>0, <3>1, <3>5, <3>6 DEF FlightTypes
    <2>4. PcTypes'
      BY <1>0, <1>18, Kinds DEF RefreshWait, Goto, Returned, PCs, PcTypes
    <2>5. RouteTypes'
      BY <1>0, <1>18, Kinds DEF RefreshWait, RouteTypes, route
    <2>6. WaitTypes'
      BY <1>0, <1>18, Kinds DEF RefreshWait, Returned, WaitTypes
    <2>7. CallTypes'
      <3>1. \/ UNCHANGED <<attempt, tries, refreshed>>
            \/ /\ attempt' = [attempt EXCEPT ![p] = 1]
               /\ tries' = [tries EXCEPT ![p] = 0]
               /\ refreshed' = [refreshed EXCEPT ![p] = FALSE]
        BY <1>18 DEF RefreshWait, Returned
      <3>2. UNCHANGED <<cancelled, calls, applied>>
        BY <1>18 DEF RefreshWait
      <3>3. attempt' \in [Callers -> 0..1]
        <4>1. attempt \in [Callers -> 0..1] /\ 1 \in 0..1
          BY <1>0 DEF CallTypes
        <4> QED BY <3>1, <4>1, Zenon
      <3>4. tries' \in [Callers -> 0..MaxPlanning]
        BY <1>0, <3>1, Constants DEF CallTypes
      <3>5. refreshed' \in [Callers -> BOOLEAN]
        BY <1>0, <3>1, Zenon DEF CallTypes
      <3> QED BY <1>0, <3>2, <3>3, <3>4, <3>5 DEF CallTypes
    <2> QED BY <2>1, <2>2, <2>3, <2>4, <2>5, <2>6, <2>7 DEF TypeOK
  <1>19. ASSUME NEW p \in Procs, Pick(p) PROVE TypeOK'
    <2>1. ExecTypes'
      BY <1>0, <1>19, Kinds DEF Pick, ExecTypes, exec, events, closing
    <2>2. AdapterTypes'
      BY <1>0, <1>19, Kinds DEF Pick, AdapterTypes, exec, closing
    <2>3. FlightTypes'
      BY <1>0, <1>19, Kinds DEF Pick, FlightTypes, flight
    <2>4. PcTypes'
      BY <1>0, <1>19, Kinds DEF Pick, Goto, PCs, PcTypes
    <2>5. RouteTypes'
      BY <1>0, <1>19, Kinds DEF Pick, RouteTypes
    <2>6. WaitTypes'
      BY <1>0, <1>19, Kinds DEF Pick, WaitTypes, wait
    <2>7. CallTypes'
      BY <1>0, <1>19, Kinds DEF Pick, CallTypes, call
    <2> QED BY <2>1, <2>2, <2>3, <2>4, <2>5, <2>6, <2>7 DEF TypeOK
  <1>20. ASSUME NEW p \in Procs, Lookup(p) PROVE TypeOK'
    <2>1. ExecTypes'
      BY <1>0, <1>20, Kinds DEF Lookup, Unusable, ExecTypes, exec, events, closing
    <2>2. AdapterTypes'
      BY <1>0, <1>20, Kinds DEF Lookup, Unusable, AdapterTypes, RouteTypes, exec, closing
    <2>3. FlightTypes'
      BY <1>0, <1>20, Kinds DEF Lookup, FlightTypes, flight
    <2>4. PcTypes'
      BY <1>0, <1>20, Kinds DEF Lookup, Goto, Failed, Unusable, PCs, PcTypes
    <2>5. RouteTypes'
      BY <1>0, <1>20, Kinds DEF Lookup, Goto, Failed, Unusable, RouteTypes, AdapterTypes, HandsOK,
         exec, closing
    <2>6. WaitTypes'
      BY <1>0, <1>20, Kinds DEF Lookup, WaitTypes, wait
    <2>7. CallTypes'
      BY <1>0, <1>20, Kinds DEF Lookup, CallTypes, call
    <2> QED BY <2>1, <2>2, <2>3, <2>4, <2>5, <2>6, <2>7 DEF TypeOK
  <1>21. ASSUME NEW p \in Procs, Insert(p) PROVE TypeOK'
    BY <1>0, <1>21, Kinds DEF Insert, Goto, Failed, Unusable, TypeOK, ExecTypes, AdapterTypes,
       FlightTypes, PcTypes, RouteTypes, WaitTypes, CallTypes, PlacesOK, HandsOK, AwaitsOK, PCs,
       flight, events, wait, call, closing
  <1>22. ASSUME NEW p \in Procs, Recheck(p) PROVE TypeOK'
    <2>1. ExecTypes'
      BY <1>0, <1>22, Kinds DEF Recheck, Unusable, ExecTypes, exec, events, closing
    <2>2. AdapterTypes'
      BY <1>0, <1>22, Kinds DEF Recheck, Unusable, AdapterTypes, exec, closing
    <2>3. FlightTypes'
      BY <1>0, <1>22, Kinds DEF Recheck, FlightTypes, flight
    <2>4. PcTypes'
      BY <1>0, <1>22, Kinds DEF Recheck, Goto, Failed, Unusable, PCs, PcTypes
    <2>5. RouteTypes'
      BY <1>0, <1>22, Kinds DEF Recheck, Unusable, RouteTypes
    <2>6. WaitTypes'
      BY <1>0, <1>22, Kinds DEF Recheck, WaitTypes, wait
    <2>7. CallTypes'
      BY <1>0, <1>22, Kinds DEF Recheck, CallTypes, call
    <2> QED BY <2>1, <2>2, <2>3, <2>4, <2>5, <2>6, <2>7 DEF TypeOK
  <1>23. ASSUME NEW p \in Procs, Send(p) PROVE TypeOK'
    BY <1>0, <1>23, Kinds DEF Send, Goto, Failed, TypeOK, ExecTypes, AdapterTypes, FlightTypes,
       PcTypes, RouteTypes, WaitTypes, CallTypes, PlacesOK, HandsOK, AwaitsOK, PCs, exec,
       flight, events, call, closing
  <1>24. ASSUME NEW a \in Adapters, Forget(a) PROVE TypeOK'
    BY <1>0, <1>24, Kinds DEF Forget, TypeOK, ExecTypes, AdapterTypes, FlightTypes, PcTypes,
       RouteTypes, WaitTypes, CallTypes, PlacesOK, HandsOK, AwaitsOK, PCs, flight, events,
       route, wait, call, closing
  <1>25. ASSUME ServerChange PROVE TypeOK'
    BY <1>0, <1>25, Kinds DEF ServerChange, TypeOK, ExecTypes, AdapterTypes, FlightTypes,
       PcTypes, RouteTypes, WaitTypes, CallTypes, PlacesOK, HandsOK, AwaitsOK, PCs, exec,
       flight, events, route, wait, call, closing
  <1>26. ASSUME ManagementEvent PROVE TypeOK'
    BY <1>0, <1>26, Kinds DEF ManagementEvent, TypeOK, ExecTypes, AdapterTypes, FlightTypes,
       PcTypes, RouteTypes, WaitTypes, CallTypes, PlacesOK, HandsOK, AwaitsOK, PCs, exec,
       flight, route, wait, call, closing
  <1>27. ASSUME Close PROVE TypeOK'
    BY <1>0, <1>27, Kinds DEF Close, TypeOK, ExecTypes, AdapterTypes, FlightTypes, PcTypes,
       RouteTypes, WaitTypes, CallTypes, PlacesOK, HandsOK, AwaitsOK, PCs, flight, events,
       route, wait, call
  <1>28. ASSUME CloseAdapters PROVE TypeOK'
    BY <1>0, <1>28, Kinds DEF CloseAdapters, TypeOK, ExecTypes, AdapterTypes, FlightTypes,
       PcTypes, RouteTypes, WaitTypes, CallTypes, PlacesOK, HandsOK, AwaitsOK, PCs, exec,
       flight, events, route, wait, call
  <1>29. ASSUME CloseReturns PROVE TypeOK'
    BY <1>0, <1>29, Kinds DEF CloseReturns, TypeOK, ExecTypes, AdapterTypes, FlightTypes,
       PcTypes, RouteTypes, WaitTypes, CallTypes, PlacesOK, HandsOK, AwaitsOK, PCs, exec,
       flight, events, route, wait, call
  <1>30. CASE UNCHANGED vars
    BY <1>0, <1>30 DEF TypeOK, ExecTypes, AdapterTypes, FlightTypes, PcTypes, RouteTypes,
       WaitTypes, CallTypes, PlacesOK, HandsOK, AwaitsOK, PCs, vars, exec, flight, events,
       route, call, wait, closing
  <1> QED BY Kinds, <1>1, <1>2, <1>3, <1>4, <1>5, <1>6, <1>7, <1>8, <1>9, <1>10, <1>11, <1>12,
     <1>13, <1>14, <1>15, <1>16, <1>17, <1>18, <1>19, <1>20, <1>21, <1>22, <1>23, <1>24, <1>25,
     <1>26, <1>27, <1>28, <1>29, <1>30 DEF Next, Step, CallStep, FlightStep, LoopStep

\* Where processes are.
LEMMA PlacesKept ==
    ASSUME TopologyInv, [Next]_vars
    PROVE  PlacesOK'
  <1>0. PlacesOK /\ PcTypes /\ RouteTypes
    BY DEF TopologyInv, ProcsOK, TypeOK
  <1>1. ASSUME NEW c \in Callers, Begin(c) PROVE PlacesOK'
    BY <1>0, <1>1, Kinds DEF Begin, Goto, Candidates, EndpointsOf, PlacesOK, PcTypes, RouteTypes
  <1>2. ASSUME NEW c \in Callers, Cancel(c) PROVE PlacesOK'
    BY <1>0, <1>2, Kinds DEF Cancel, PlacesOK, PcTypes, RouteTypes, route
  <1>3. ASSUME NEW c \in Callers, Plan(c) PROVE PlacesOK'
    BY <1>0, <1>3, Kinds DEF Plan, Goto, PlacesOK, PcTypes, RouteTypes
  <1>4. ASSUME NEW c \in Callers, Verify(c) PROVE PlacesOK'
    BY <1>0, <1>4, Kinds DEF Verify, Goto, PlacesOK, PcTypes, RouteTypes, route
  <1>5. ASSUME NEW c \in Callers, Answer(c) PROVE PlacesOK'
    BY <1>0, <1>5, Kinds DEF Answer, Goto, EndRequest, PlacesOK, PcTypes, RouteTypes
  <1>6. ASSUME NEW c \in Callers, ControlAnswer(c) PROVE PlacesOK'
    BY <1>0, <1>6, Kinds DEF ControlAnswer, Goto, EndRequest, PlacesOK, PcTypes, RouteTypes
  <1>7. ASSUME NEW c \in Callers, Return(c) PROVE PlacesOK'
    BY <1>0, <1>7, Kinds DEF Return, Goto, PlacesOK, PcTypes, RouteTypes
  <1>8. ASSUME NEW f \in Flights, FlightBegin(f) PROVE PlacesOK'
    BY <1>0, <1>8, Kinds DEF FlightBegin, Goto, Candidates, EndpointsOf, PlacesOK, PcTypes,
       RouteTypes
  <1>9. ASSUME NEW f \in Flights, Fetch(f) PROVE PlacesOK'
    BY <1>0, <1>9, Kinds DEF Fetch, Goto, EndRequest, PlacesOK, PcTypes, RouteTypes
  <1>10. ASSUME NEW f \in Flights, Install(f) PROVE PlacesOK'
    BY <1>0, <1>10, Kinds DEF Install, Goto, PlacesOK, PcTypes, RouteTypes, route
  <1>11. ASSUME NEW f \in Flights, Retire(f) PROVE PlacesOK'
    BY <1>0, <1>11, Kinds DEF Retire, Goto, EndpointsOf, PlacesOK, PcTypes, RouteTypes
  <1>12. ASSUME NEW f \in Flights, FlightFinish(f) PROVE PlacesOK'
    BY <1>0, <1>12, Kinds DEF FlightFinish, Goto, PlacesOK, PcTypes, RouteTypes
  <1>13. ASSUME LoopSelect PROVE PlacesOK'
    BY <1>0, <1>13, Kinds DEF LoopSelect, Goto, PlacesOK, PcTypes, RouteTypes, route
  <1>14. ASSUME LoopLook PROVE PlacesOK'
    BY <1>0, <1>14, Kinds DEF LoopLook, Goto, PlacesOK, PcTypes, RouteTypes, route
  <1>15. ASSUME LoopWait PROVE PlacesOK'
    BY <1>0, <1>15, Kinds DEF LoopWait, Goto, PlacesOK, PcTypes, RouteTypes, route
  <1>16. ASSUME NEW p \in Refreshers, Refresh(p) PROVE PlacesOK'
    BY <1>0, <1>16, Kinds DEF Refresh, Goto, Returned, PlacesOK, PcTypes, RouteTypes, route
  <1>17. ASSUME NEW p \in Refreshers, RefreshAbandoned(p) PROVE PlacesOK'
    BY <1>0, <1>17, Kinds DEF RefreshAbandoned, Goto, Returned, PlacesOK, PcTypes, RouteTypes,
       route
  <1>18. ASSUME NEW p \in Refreshers, RefreshWait(p) PROVE PlacesOK'
    BY <1>0, <1>18, Kinds DEF RefreshWait, Goto, Returned, PlacesOK, PcTypes, RouteTypes, route
  <1>19. ASSUME NEW p \in Procs, Pick(p) PROVE PlacesOK'
    BY <1>0, <1>19, Kinds DEF Pick, Goto, PlacesOK, PcTypes, RouteTypes
  <1>20. ASSUME NEW p \in Procs, Lookup(p) PROVE PlacesOK'
    BY <1>0, <1>20, Kinds DEF Lookup, Goto, Failed, Unusable, PlacesOK, PcTypes, RouteTypes
  <1>21. ASSUME NEW p \in Procs, Insert(p) PROVE PlacesOK'
    BY <1>0, <1>21, Kinds DEF Insert, Goto, Failed, Unusable, PlacesOK, PcTypes, RouteTypes
  <1>22. ASSUME NEW p \in Procs, Recheck(p) PROVE PlacesOK'
    BY <1>0, <1>22, Kinds DEF Recheck, Goto, Failed, Unusable, PlacesOK, PcTypes, RouteTypes
  <1>23. ASSUME NEW p \in Procs, Send(p) PROVE PlacesOK'
    BY <1>0, <1>23, Kinds DEF Send, Goto, Failed, PlacesOK, PcTypes, RouteTypes
  <1>24. ASSUME NEW a \in Adapters, Forget(a) PROVE PlacesOK'
    BY <1>0, <1>24, Kinds DEF Forget, PlacesOK, PcTypes, RouteTypes, route
  <1>25. ASSUME ServerChange PROVE PlacesOK'
    BY <1>0, <1>25, Kinds DEF ServerChange, PlacesOK, PcTypes, RouteTypes, route
  <1>26. ASSUME ManagementEvent PROVE PlacesOK'
    BY <1>0, <1>26, Kinds DEF ManagementEvent, PlacesOK, PcTypes, RouteTypes, route
  <1>27. ASSUME Close PROVE PlacesOK'
    BY <1>0, <1>27, Kinds DEF Close, PlacesOK, PcTypes, RouteTypes, route
  <1>28. ASSUME CloseAdapters PROVE PlacesOK'
    BY <1>0, <1>28, Kinds DEF CloseAdapters, PlacesOK, PcTypes, RouteTypes, route
  <1>29. ASSUME CloseReturns PROVE PlacesOK'
    BY <1>0, <1>29, Kinds DEF CloseReturns, PlacesOK, PcTypes, RouteTypes, route
  <1>30. CASE UNCHANGED vars
    BY <1>0, <1>30 DEF PlacesOK, PcTypes, RouteTypes, vars, route
  <1> QED BY Kinds, <1>1, <1>2, <1>3, <1>4, <1>5, <1>6, <1>7, <1>8, <1>9, <1>10, <1>11, <1>12,
     <1>13, <1>14, <1>15, <1>16, <1>17, <1>18, <1>19, <1>20, <1>21, <1>22, <1>23, <1>24, <1>25,
     <1>26, <1>27, <1>28, <1>29, <1>30 DEF Next, Step, CallStep, FlightStep, LoopStep

\* The endpoint and the adapter of a process.
LEMMA HandsKept ==
    ASSUME TopologyInv, [Next]_vars
    PROVE  HandsOK'
  <1>0. HandsOK /\ PcTypes /\ RouteTypes /\ ExecTypes /\ AdapterTypes
    BY DEF TopologyInv, ProcsOK, TypeOK
  <1>1. ASSUME NEW c \in Callers, Begin(c) PROVE HandsOK'
    BY <1>0, <1>1, Kinds DEF Begin, Goto, Candidates, EndpointsOf, HandsOK, PcTypes, RouteTypes
  <1>2. ASSUME NEW c \in Callers, Cancel(c) PROVE HandsOK'
    BY <1>0, <1>2, Kinds DEF Cancel, HandsOK, PcTypes, RouteTypes, route
  <1>3. ASSUME NEW c \in Callers, Plan(c) PROVE HandsOK'
    BY <1>0, <1>3, Kinds, LayoutTypes DEF Plan, Goto, HandsOK, PcTypes, RouteTypes, ExecTypes,
       exec, events, closing
  <1>4. ASSUME NEW c \in Callers, Verify(c) PROVE HandsOK'
    BY <1>0, <1>4, Kinds DEF Verify, Goto, HandsOK, PcTypes, RouteTypes, route
  <1>5. ASSUME NEW c \in Callers, Answer(c) PROVE HandsOK'
    BY <1>0, <1>5, Kinds DEF Answer, Goto, EndRequest, HandsOK, PcTypes, RouteTypes
  <1>6. ASSUME NEW c \in Callers, ControlAnswer(c) PROVE HandsOK'
    BY <1>0, <1>6, Kinds DEF ControlAnswer, Goto, EndRequest, HandsOK, PcTypes, RouteTypes
  <1>7. ASSUME NEW c \in Callers, Return(c) PROVE HandsOK'
    BY <1>0, <1>7, Kinds DEF Return, Goto, HandsOK, PcTypes, RouteTypes
  <1>8. ASSUME NEW f \in Flights, FlightBegin(f) PROVE HandsOK'
    BY <1>0, <1>8, Kinds DEF FlightBegin, Goto, Candidates, EndpointsOf, HandsOK, PcTypes,
       RouteTypes
  <1>9. ASSUME NEW f \in Flights, Fetch(f) PROVE HandsOK'
    BY <1>0, <1>9, Kinds DEF Fetch, Goto, EndRequest, HandsOK, PcTypes, RouteTypes
  <1>10. ASSUME NEW f \in Flights, Install(f) PROVE HandsOK'
    BY <1>0, <1>10, Kinds DEF Install, Goto, HandsOK, PcTypes, RouteTypes, route
  <1>11. ASSUME NEW f \in Flights, Retire(f) PROVE HandsOK'
    BY <1>0, <1>11, Kinds DEF Retire, Goto, EndpointsOf, HandsOK, PcTypes, RouteTypes
  <1>12. ASSUME NEW f \in Flights, FlightFinish(f) PROVE HandsOK'
    BY <1>0, <1>12, Kinds DEF FlightFinish, Goto, HandsOK, PcTypes, RouteTypes
  <1>13. ASSUME LoopSelect PROVE HandsOK'
    BY <1>0, <1>13, Kinds DEF LoopSelect, Goto, HandsOK, PcTypes, RouteTypes, route
  <1>14. ASSUME LoopLook PROVE HandsOK'
    BY <1>0, <1>14, Kinds DEF LoopLook, Goto, HandsOK, PcTypes, RouteTypes, route
  <1>15. ASSUME LoopWait PROVE HandsOK'
    BY <1>0, <1>15, Kinds DEF LoopWait, Goto, HandsOK, PcTypes, RouteTypes, route
  <1>16. ASSUME NEW p \in Refreshers, Refresh(p) PROVE HandsOK'
    BY <1>0, <1>16, Kinds DEF Refresh, Goto, Returned, HandsOK, PcTypes, RouteTypes, route
  <1>17. ASSUME NEW p \in Refreshers, RefreshAbandoned(p) PROVE HandsOK'
    BY <1>0, <1>17, Kinds DEF RefreshAbandoned, Goto, Returned, HandsOK, PcTypes, RouteTypes,
       route
  <1>18. ASSUME NEW p \in Refreshers, RefreshWait(p) PROVE HandsOK'
    BY <1>0, <1>18, Kinds DEF RefreshWait, Goto, Returned, HandsOK, PcTypes, RouteTypes, route
  <1>19. ASSUME NEW p \in Procs, Pick(p) PROVE HandsOK'
    BY <1>0, <1>19, Kinds DEF Pick, Goto, HandsOK, PcTypes, RouteTypes
  <1>20. ASSUME NEW p \in Procs, Lookup(p) PROVE HandsOK'
    BY <1>0, <1>20, Kinds DEF Lookup, Goto, Failed, Unusable, HandsOK, PcTypes, RouteTypes,
       AdapterTypes, exec, closing
  <1>21. ASSUME NEW p \in Procs, Insert(p) PROVE HandsOK'
    BY <1>0, <1>21, Kinds DEF Insert, Goto, Failed, Unusable, HandsOK, PcTypes, RouteTypes,
       AdapterTypes, closing
  <1>22. ASSUME NEW p \in Procs, Recheck(p) PROVE HandsOK'
    BY <1>0, <1>22, Kinds DEF Recheck, Goto, Failed, Unusable, HandsOK, PcTypes, RouteTypes
  <1>23. ASSUME NEW p \in Procs, Send(p) PROVE HandsOK'
    BY <1>0, <1>23, Kinds DEF Send, Goto, Failed, HandsOK, PcTypes, RouteTypes
  <1>24. ASSUME NEW a \in Adapters, Forget(a) PROVE HandsOK'
    BY <1>0, <1>24, Kinds DEF Forget, HandsOK, PcTypes, RouteTypes, route
  <1>25. ASSUME ServerChange PROVE HandsOK'
    BY <1>0, <1>25, Kinds DEF ServerChange, HandsOK, PcTypes, RouteTypes, route
  <1>26. ASSUME ManagementEvent PROVE HandsOK'
    BY <1>0, <1>26, Kinds DEF ManagementEvent, HandsOK, PcTypes, RouteTypes, route
  <1>27. ASSUME Close PROVE HandsOK'
    BY <1>0, <1>27, Kinds DEF Close, HandsOK, PcTypes, RouteTypes, route
  <1>28. ASSUME CloseAdapters PROVE HandsOK'
    BY <1>0, <1>28, Kinds DEF CloseAdapters, HandsOK, PcTypes, RouteTypes, route
  <1>29. ASSUME CloseReturns PROVE HandsOK'
    BY <1>0, <1>29, Kinds DEF CloseReturns, HandsOK, PcTypes, RouteTypes, route
  <1>30. CASE UNCHANGED vars
    BY <1>0, <1>30 DEF HandsOK, PcTypes, RouteTypes, vars, route
  <1> QED BY Kinds, <1>1, <1>2, <1>3, <1>4, <1>5, <1>6, <1>7, <1>8, <1>9, <1>10, <1>11, <1>12,
     <1>13, <1>14, <1>15, <1>16, <1>17, <1>18, <1>19, <1>20, <1>21, <1>22, <1>23, <1>24, <1>25,
     <1>26, <1>27, <1>28, <1>29, <1>30 DEF Next, Step, CallStep, FlightStep, LoopStep

\* The flight a process waits for.
LEMMA AwaitsKept ==
    ASSUME TopologyInv, [Next]_vars
    PROVE  AwaitsOK'
  <1>0. AwaitsOK /\ PcTypes /\ WaitTypes /\ FlightTypes
    BY DEF TopologyInv, ProcsOK, TypeOK
  <1>1. ASSUME NEW c \in Callers, Begin(c) PROVE AwaitsOK'
    BY <1>0, <1>1, Kinds DEF Begin, Goto, AwaitsOK, PcTypes, WaitTypes, wait
  <1>2. ASSUME NEW c \in Callers, Cancel(c) PROVE AwaitsOK'
    BY <1>0, <1>2, Kinds DEF Cancel, AwaitsOK, PcTypes, WaitTypes, wait
  <1>3. ASSUME NEW c \in Callers, Plan(c) PROVE AwaitsOK'
    BY <1>0, <1>3, Kinds DEF Plan, Goto, AwaitsOK, PcTypes, WaitTypes
  <1>4. ASSUME NEW c \in Callers, Verify(c) PROVE AwaitsOK'
    BY <1>0, <1>4, Kinds DEF Verify, Goto, AwaitsOK, PcTypes, WaitTypes, wait
  <1>5. ASSUME NEW c \in Callers, Answer(c) PROVE AwaitsOK'
    BY <1>0, <1>5, Kinds DEF Answer, Goto, AwaitsOK, PcTypes, WaitTypes
  <1>6. ASSUME NEW c \in Callers, ControlAnswer(c) PROVE AwaitsOK'
    BY <1>0, <1>6, Kinds DEF ControlAnswer, Goto, AwaitsOK, PcTypes, WaitTypes, wait
  <1>7. ASSUME NEW c \in Callers, Return(c) PROVE AwaitsOK'
    BY <1>0, <1>7, Kinds DEF Return, Goto, AwaitsOK, PcTypes, WaitTypes
  <1>8. ASSUME NEW f \in Flights, FlightBegin(f) PROVE AwaitsOK'
    BY <1>0, <1>8, Kinds DEF FlightBegin, Goto, AwaitsOK, PcTypes, WaitTypes, wait
  <1>9. ASSUME NEW f \in Flights, Fetch(f) PROVE AwaitsOK'
    BY <1>0, <1>9, Kinds DEF Fetch, Goto, AwaitsOK, PcTypes, WaitTypes, wait
  <1>10. ASSUME NEW f \in Flights, Install(f) PROVE AwaitsOK'
    BY <1>0, <1>10, Kinds DEF Install, Goto, AwaitsOK, PcTypes, WaitTypes, wait
  <1>11. ASSUME NEW f \in Flights, Retire(f) PROVE AwaitsOK'
    BY <1>0, <1>11, Kinds DEF Retire, Goto, AwaitsOK, PcTypes, WaitTypes, wait
  <1>12. ASSUME NEW f \in Flights, FlightFinish(f) PROVE AwaitsOK'
    BY <1>0, <1>12, Kinds DEF FlightFinish, Goto, AwaitsOK, PcTypes, WaitTypes, wait
  <1>13. ASSUME LoopSelect PROVE AwaitsOK'
    BY <1>0, <1>13, Kinds DEF LoopSelect, Goto, AwaitsOK, PcTypes, WaitTypes, wait
  <1>14. ASSUME LoopLook PROVE AwaitsOK'
    BY <1>0, <1>14, Kinds DEF LoopLook, Goto, AwaitsOK, PcTypes, WaitTypes, FlightTypes, flight
  <1>15. ASSUME LoopWait PROVE AwaitsOK'
    BY <1>0, <1>15, Kinds DEF LoopWait, Goto, AwaitsOK, PcTypes, WaitTypes
  <1>16. ASSUME NEW p \in Refreshers, Refresh(p) PROVE AwaitsOK'
    BY <1>0, <1>16, Kinds DEF Refresh, Goto, Returned, Idle, AwaitsOK, PcTypes, WaitTypes,
       FlightTypes, flight
  <1>17. ASSUME NEW p \in Refreshers, RefreshAbandoned(p) PROVE AwaitsOK'
    BY <1>0, <1>17, Kinds DEF RefreshAbandoned, Goto, Returned, AwaitsOK, PcTypes, WaitTypes
  <1>18. ASSUME NEW p \in Refreshers, RefreshWait(p) PROVE AwaitsOK'
    BY <1>0, <1>18, Kinds DEF RefreshWait, Goto, Returned, AwaitsOK, PcTypes, WaitTypes
  <1>19. ASSUME NEW p \in Procs, Pick(p) PROVE AwaitsOK'
    BY <1>0, <1>19, Kinds DEF Pick, Goto, AwaitsOK, PcTypes, WaitTypes, wait
  <1>20. ASSUME NEW p \in Procs, Lookup(p) PROVE AwaitsOK'
    BY <1>0, <1>20, Kinds DEF Lookup, Goto, Failed, Unusable, AwaitsOK, PcTypes, WaitTypes, wait
  <1>21. ASSUME NEW p \in Procs, Insert(p) PROVE AwaitsOK'
    BY <1>0, <1>21, Kinds DEF Insert, Goto, Failed, Unusable, AwaitsOK, PcTypes, WaitTypes, wait
  <1>22. ASSUME NEW p \in Procs, Recheck(p) PROVE AwaitsOK'
    BY <1>0, <1>22, Kinds DEF Recheck, Goto, Failed, Unusable, AwaitsOK, PcTypes, WaitTypes,
       wait
  <1>23. ASSUME NEW p \in Procs, Send(p) PROVE AwaitsOK'
    BY <1>0, <1>23, Kinds DEF Send, Goto, Failed, AwaitsOK, PcTypes, WaitTypes
  <1>24. ASSUME NEW a \in Adapters, Forget(a) PROVE AwaitsOK'
    BY <1>0, <1>24, Kinds DEF Forget, AwaitsOK, PcTypes, WaitTypes, wait
  <1>25. ASSUME ServerChange PROVE AwaitsOK'
    BY <1>0, <1>25, Kinds DEF ServerChange, AwaitsOK, PcTypes, WaitTypes, wait
  <1>26. ASSUME ManagementEvent PROVE AwaitsOK'
    BY <1>0, <1>26, Kinds DEF ManagementEvent, AwaitsOK, PcTypes, WaitTypes, wait
  <1>27. ASSUME Close PROVE AwaitsOK'
    BY <1>0, <1>27, Kinds DEF Close, AwaitsOK, PcTypes, WaitTypes, wait
  <1>28. ASSUME CloseAdapters PROVE AwaitsOK'
    BY <1>0, <1>28, Kinds DEF CloseAdapters, AwaitsOK, PcTypes, WaitTypes, wait
  <1>29. ASSUME CloseReturns PROVE AwaitsOK'
    BY <1>0, <1>29, Kinds DEF CloseReturns, AwaitsOK, PcTypes, WaitTypes, wait
  <1>30. CASE UNCHANGED vars
    BY <1>0, <1>30 DEF AwaitsOK, PcTypes, WaitTypes, vars, wait
  <1> QED BY Kinds, <1>1, <1>2, <1>3, <1>4, <1>5, <1>6, <1>7, <1>8, <1>9, <1>10, <1>11, <1>12,
     <1>13, <1>14, <1>15, <1>16, <1>17, <1>18, <1>19, <1>20, <1>21, <1>22, <1>23, <1>24, <1>25,
     <1>26, <1>27, <1>28, <1>29, <1>30 DEF Next, Step, CallStep, FlightStep, LoopStep

\* Adapters are cached, retiring, to be closed or about to be cached.
LEMMA AdaptersKept ==
    ASSUME TopologyInv, [Next]_vars
    PROVE  AdaptersOK'
  <1>0. AdaptersOK /\ PcTypes /\ AdapterTypes /\ RouteTypes /\ HandsOK
    BY DEF TopologyInv, ProcsOK, TypeOK
  <1>1. ASSUME NEW c \in Callers, Begin(c) PROVE AdaptersOK'
    BY <1>0, <1>1, Kinds DEF Begin, Goto, Candidates, EndpointsOf, AdaptersOK, NoLeakedAdapter,
       PcTypes, AdapterTypes, RouteTypes, HandsOK, exec, closing
  <1>2. ASSUME NEW c \in Callers, Cancel(c) PROVE AdaptersOK'
    BY <1>0, <1>2, Kinds DEF Cancel, AdaptersOK, NoLeakedAdapter, PcTypes, AdapterTypes,
       RouteTypes, HandsOK, exec, route, closing
  <1>3. ASSUME NEW c \in Callers, Plan(c) PROVE AdaptersOK'
    BY <1>0, <1>3, Kinds DEF Plan, Goto, AdaptersOK, NoLeakedAdapter, PcTypes, AdapterTypes,
       RouteTypes, HandsOK, exec, closing
  <1>4. ASSUME NEW c \in Callers, Verify(c) PROVE AdaptersOK'
    BY <1>0, <1>4, Kinds DEF Verify, Goto, AdaptersOK, NoLeakedAdapter, PcTypes, AdapterTypes,
       RouteTypes, HandsOK, exec, route, closing
  <1>5. ASSUME NEW c \in Callers, Answer(c) PROVE AdaptersOK'
    BY <1>0, <1>5, Kinds DEF Answer, Goto, EndRequest, AdaptersOK, NoLeakedAdapter, PcTypes,
       AdapterTypes, RouteTypes, HandsOK, exec, closing
  <1>6. ASSUME NEW c \in Callers, ControlAnswer(c) PROVE AdaptersOK'
    BY <1>0, <1>6, Kinds DEF ControlAnswer, Goto, EndRequest, AdaptersOK, NoLeakedAdapter,
       PcTypes, AdapterTypes, RouteTypes, HandsOK, exec, closing
  <1>7. ASSUME NEW c \in Callers, Return(c) PROVE AdaptersOK'
    BY <1>0, <1>7, Kinds DEF Return, Goto, AdaptersOK, NoLeakedAdapter, PcTypes, AdapterTypes,
       RouteTypes, HandsOK, exec, closing
  <1>8. ASSUME NEW f \in Flights, FlightBegin(f) PROVE AdaptersOK'
    BY <1>0, <1>8, Kinds DEF FlightBegin, Goto, Candidates, EndpointsOf, AdaptersOK,
       NoLeakedAdapter, PcTypes, AdapterTypes, RouteTypes, HandsOK, exec, closing
  <1>9. ASSUME NEW f \in Flights, Fetch(f) PROVE AdaptersOK'
    BY <1>0, <1>9, Kinds DEF Fetch, Goto, EndRequest, AdaptersOK, NoLeakedAdapter, PcTypes,
       AdapterTypes, RouteTypes, HandsOK, exec, closing
  <1>10. ASSUME NEW f \in Flights, Install(f) PROVE AdaptersOK'
    BY <1>0, <1>10, Kinds DEF Install, Goto, AdaptersOK, NoLeakedAdapter, PcTypes, AdapterTypes,
       RouteTypes, HandsOK, route, closing
  <1>11. ASSUME NEW f \in Flights, Retire(f) PROVE AdaptersOK'
    BY <1>0, <1>11, Kinds DEF Retire, Goto, EndpointsOf, AdaptersOK, NoLeakedAdapter, PcTypes,
       AdapterTypes, RouteTypes, HandsOK, closing
  <1>12. ASSUME NEW f \in Flights, FlightFinish(f) PROVE AdaptersOK'
    BY <1>0, <1>12, Kinds DEF FlightFinish, Goto, AdaptersOK, NoLeakedAdapter, PcTypes,
       AdapterTypes, RouteTypes, HandsOK, exec, closing
  <1>13. ASSUME LoopSelect PROVE AdaptersOK'
    BY <1>0, <1>13, Kinds DEF LoopSelect, Goto, AdaptersOK, NoLeakedAdapter, PcTypes,
       AdapterTypes, RouteTypes, HandsOK, exec, route, closing
  <1>14. ASSUME LoopLook PROVE AdaptersOK'
    BY <1>0, <1>14, Kinds DEF LoopLook, Goto, AdaptersOK, NoLeakedAdapter, PcTypes,
       AdapterTypes, RouteTypes, HandsOK, exec, route, closing
  <1>15. ASSUME LoopWait PROVE AdaptersOK'
    BY <1>0, <1>15, Kinds DEF LoopWait, Goto, AdaptersOK, NoLeakedAdapter, PcTypes,
       AdapterTypes, RouteTypes, HandsOK, exec, route, closing
  <1>16. ASSUME NEW p \in Refreshers, Refresh(p) PROVE AdaptersOK'
    BY <1>0, <1>16, Kinds DEF Refresh, Goto, Returned, Idle, AdaptersOK, NoLeakedAdapter,
       PcTypes, AdapterTypes, RouteTypes, HandsOK, exec, route, closing
  <1>17. ASSUME NEW p \in Refreshers, RefreshAbandoned(p) PROVE AdaptersOK'
    BY <1>0, <1>17, Kinds DEF RefreshAbandoned, Goto, Returned, AdaptersOK, NoLeakedAdapter,
       PcTypes, AdapterTypes, RouteTypes, HandsOK, exec, route, closing
  <1>18. ASSUME NEW p \in Refreshers, RefreshWait(p) PROVE AdaptersOK'
    BY <1>0, <1>18, Kinds DEF RefreshWait, Goto, Returned, AdaptersOK, NoLeakedAdapter, PcTypes,
       AdapterTypes, RouteTypes, HandsOK, exec, route, closing
  <1>19. ASSUME NEW p \in Procs, Pick(p) PROVE AdaptersOK'
    BY <1>0, <1>19, Kinds DEF Pick, Goto, AdaptersOK, NoLeakedAdapter, PcTypes, AdapterTypes,
       RouteTypes, HandsOK, exec, closing
  <1>20. ASSUME NEW p \in Procs, Lookup(p) PROVE AdaptersOK'
    BY <1>0, <1>20, Kinds, Constants DEF Lookup, Goto, Failed, Unusable, AdaptersOK,
       NoLeakedAdapter, PcTypes, AdapterTypes, RouteTypes, HandsOK, exec, closing
  <1>21. ASSUME NEW p \in Procs, Insert(p) PROVE AdaptersOK'
    BY <1>0, <1>21, Kinds, Constants DEF Insert, Goto, Failed, Unusable, AdaptersOK,
       NoLeakedAdapter, PcTypes, AdapterTypes, RouteTypes, HandsOK, closing
  <1>22. ASSUME NEW p \in Procs, Recheck(p) PROVE AdaptersOK'
    BY <1>0, <1>22, Kinds DEF Recheck, Goto, Failed, Unusable, AdaptersOK, NoLeakedAdapter,
       PcTypes, AdapterTypes, RouteTypes, HandsOK, exec, closing
  <1>23. ASSUME NEW p \in Procs, Send(p) PROVE AdaptersOK'
    BY <1>0, <1>23, Kinds DEF Send, Goto, Failed, AdaptersOK, NoLeakedAdapter, PcTypes,
       AdapterTypes, RouteTypes, HandsOK, exec, closing
  <1>24. ASSUME NEW a \in Adapters, Forget(a) PROVE AdaptersOK'
    BY <1>0, <1>24, Kinds DEF Forget, AdaptersOK, NoLeakedAdapter, PcTypes, AdapterTypes,
       RouteTypes, HandsOK, route, closing
  <1>25. ASSUME ServerChange PROVE AdaptersOK'
    BY <1>0, <1>25, Kinds DEF ServerChange, AdaptersOK, NoLeakedAdapter, PcTypes, AdapterTypes,
       RouteTypes, HandsOK, exec, route, closing
  <1>26. ASSUME ManagementEvent PROVE AdaptersOK'
    BY <1>0, <1>26, Kinds DEF ManagementEvent, AdaptersOK, NoLeakedAdapter, PcTypes,
       AdapterTypes, RouteTypes, HandsOK, exec, route, closing
  <1>27. ASSUME Close PROVE AdaptersOK'
    BY <1>0, <1>27, Kinds DEF Close, AdaptersOK, NoLeakedAdapter, PcTypes, AdapterTypes,
       RouteTypes, HandsOK, route
  <1>28. ASSUME CloseAdapters PROVE AdaptersOK'
    BY <1>0, <1>28, Kinds DEF CloseAdapters, AdaptersOK, NoLeakedAdapter, PcTypes, AdapterTypes,
       RouteTypes, HandsOK, exec, route
  <1>29. ASSUME CloseReturns PROVE AdaptersOK'
    BY <1>0, <1>29, Kinds DEF CloseReturns, AdaptersOK, NoLeakedAdapter, PcTypes, AdapterTypes,
       RouteTypes, HandsOK, exec, route
  <1>30. CASE UNCHANGED vars
    BY <1>0, <1>30 DEF AdaptersOK, NoLeakedAdapter, PcTypes, AdapterTypes, RouteTypes, HandsOK,
       vars, exec, route, closing
  <1> QED BY Kinds, <1>1, <1>2, <1>3, <1>4, <1>5, <1>6, <1>7, <1>8, <1>9, <1>10, <1>11, <1>12,
     <1>13, <1>14, <1>15, <1>16, <1>17, <1>18, <1>19, <1>20, <1>21, <1>22, <1>23, <1>24, <1>25,
     <1>26, <1>27, <1>28, <1>29, <1>30 DEF Next, Step, CallStep, FlightStep, LoopStep

\* A command is applied by its last request only.
LEMMA AppliedKept ==
    ASSUME TopologyInv, [Next]_vars
    PROVE  AppliedOK'
  <1>0. AppliedOK /\ PcTypes /\ WaitTypes /\ CallTypes /\ PlacesOK
    BY DEF TopologyInv, ProcsOK, TypeOK
  <1>1. ASSUME NEW c \in Callers, Begin(c) PROVE AppliedOK'
    BY <1>0, <1>1, Kinds DEF Begin, Goto, AppliedOK, PcTypes, WaitTypes, CallTypes, PlacesOK,
       wait
  <1>2. ASSUME NEW c \in Callers, Cancel(c) PROVE AppliedOK'
    BY <1>0, <1>2, Kinds DEF Cancel, AppliedOK, PcTypes, WaitTypes, CallTypes, PlacesOK, route,
       wait
  <1>3. ASSUME NEW c \in Callers, Plan(c) PROVE AppliedOK'
    BY <1>0, <1>3, Kinds DEF Plan, Goto, AppliedOK, PcTypes, WaitTypes, CallTypes, PlacesOK
  <1>4. ASSUME NEW c \in Callers, Verify(c) PROVE AppliedOK'
    BY <1>0, <1>4, Kinds DEF Verify, Goto, AppliedOK, PcTypes, WaitTypes, CallTypes, PlacesOK,
       route, wait, call
  <1>5. ASSUME NEW c \in Callers, Answer(c) PROVE AppliedOK'
    BY <1>0, <1>5, Kinds DEF Answer, Goto, AppliedOK, PcTypes, WaitTypes, CallTypes, PlacesOK
  <1>6. ASSUME NEW c \in Callers, ControlAnswer(c) PROVE AppliedOK'
    BY <1>0, <1>6, Kinds DEF ControlAnswer, Goto, AppliedOK, PcTypes, WaitTypes, CallTypes,
       PlacesOK, wait, call
  <1>7. ASSUME NEW c \in Callers, Return(c) PROVE AppliedOK'
    BY <1>0, <1>7, Kinds DEF Return, Goto, AppliedOK, PcTypes, WaitTypes, CallTypes, PlacesOK
  <1>8. ASSUME NEW f \in Flights, FlightBegin(f) PROVE AppliedOK'
    BY <1>0, <1>8, Kinds DEF FlightBegin, Goto, AppliedOK, PcTypes, WaitTypes, CallTypes,
       PlacesOK, wait, call
  <1>9. ASSUME NEW f \in Flights, Fetch(f) PROVE AppliedOK'
    BY <1>0, <1>9, Kinds DEF Fetch, Goto, AppliedOK, PcTypes, WaitTypes, CallTypes, PlacesOK,
       wait, call
  <1>10. ASSUME NEW f \in Flights, Install(f) PROVE AppliedOK'
    BY <1>0, <1>10, Kinds DEF Install, Goto, AppliedOK, PcTypes, WaitTypes, CallTypes, PlacesOK,
       route, wait, call
  <1>11. ASSUME NEW f \in Flights, Retire(f) PROVE AppliedOK'
    BY <1>0, <1>11, Kinds DEF Retire, Goto, AppliedOK, PcTypes, WaitTypes, CallTypes, PlacesOK,
       wait, call
  <1>12. ASSUME NEW f \in Flights, FlightFinish(f) PROVE AppliedOK'
    BY <1>0, <1>12, Kinds DEF FlightFinish, Goto, AppliedOK, PcTypes, WaitTypes, CallTypes,
       PlacesOK, wait, call
  <1>13. ASSUME LoopSelect PROVE AppliedOK'
    BY <1>0, <1>13, Kinds DEF LoopSelect, Goto, AppliedOK, PcTypes, WaitTypes, CallTypes,
       PlacesOK, route, wait, call
  <1>14. ASSUME LoopLook PROVE AppliedOK'
    BY <1>0, <1>14, Kinds DEF LoopLook, Goto, AppliedOK, PcTypes, WaitTypes, CallTypes,
       PlacesOK, route, call
  <1>15. ASSUME LoopWait PROVE AppliedOK'
    BY <1>0, <1>15, Kinds DEF LoopWait, Goto, AppliedOK, PcTypes, WaitTypes, CallTypes,
       PlacesOK, route, call
  <1>16. ASSUME NEW p \in Refreshers, Refresh(p) PROVE AppliedOK'
    BY <1>0, <1>16, Kinds DEF Refresh, Goto, Returned, Idle, AppliedOK, PcTypes, WaitTypes,
       CallTypes, PlacesOK, route, call
  <1>17. ASSUME NEW p \in Refreshers, RefreshAbandoned(p) PROVE AppliedOK'
    BY <1>0, <1>17, Kinds DEF RefreshAbandoned, Goto, Returned, AppliedOK, PcTypes, WaitTypes,
       CallTypes, PlacesOK, route
  <1>18. ASSUME NEW p \in Refreshers, RefreshWait(p) PROVE AppliedOK'
    BY <1>0, <1>18, Kinds DEF RefreshWait, Goto, Returned, AppliedOK, PcTypes, WaitTypes,
       CallTypes, PlacesOK, route
  <1>19. ASSUME NEW p \in Procs, Pick(p) PROVE AppliedOK'
    BY <1>0, <1>19, Kinds DEF Pick, Goto, AppliedOK, PcTypes, WaitTypes, CallTypes, PlacesOK,
       wait, call
  <1>20. ASSUME NEW p \in Procs, Lookup(p) PROVE AppliedOK'
    BY <1>0, <1>20, Kinds DEF Lookup, Goto, Failed, Unusable, AppliedOK, PcTypes, WaitTypes,
       CallTypes, PlacesOK, wait, call
  <1>21. ASSUME NEW p \in Procs, Insert(p) PROVE AppliedOK'
    BY <1>0, <1>21, Kinds DEF Insert, Goto, Failed, Unusable, AppliedOK, PcTypes, WaitTypes,
       CallTypes, PlacesOK, wait, call
  <1>22. ASSUME NEW p \in Procs, Recheck(p) PROVE AppliedOK'
    BY <1>0, <1>22, Kinds DEF Recheck, Goto, Failed, Unusable, AppliedOK, PcTypes, WaitTypes,
       CallTypes, PlacesOK, wait, call
  <1>23. ASSUME NEW p \in Procs, Send(p) PROVE AppliedOK'
    BY <1>0, <1>23, Kinds DEF Send, Goto, Failed, AppliedOK, PcTypes, WaitTypes, CallTypes,
       PlacesOK, call
  <1>24. ASSUME NEW a \in Adapters, Forget(a) PROVE AppliedOK'
    BY <1>0, <1>24, Kinds DEF Forget, AppliedOK, PcTypes, WaitTypes, CallTypes, PlacesOK, route,
       wait, call
  <1>25. ASSUME ServerChange PROVE AppliedOK'
    BY <1>0, <1>25, Kinds DEF ServerChange, AppliedOK, PcTypes, WaitTypes, CallTypes, PlacesOK,
       route, wait, call
  <1>26. ASSUME ManagementEvent PROVE AppliedOK'
    BY <1>0, <1>26, Kinds DEF ManagementEvent, AppliedOK, PcTypes, WaitTypes, CallTypes,
       PlacesOK, route, wait, call
  <1>27. ASSUME Close PROVE AppliedOK'
    BY <1>0, <1>27, Kinds DEF Close, AppliedOK, PcTypes, WaitTypes, CallTypes, PlacesOK, route,
       wait, call
  <1>28. ASSUME CloseAdapters PROVE AppliedOK'
    BY <1>0, <1>28, Kinds DEF CloseAdapters, AppliedOK, PcTypes, WaitTypes, CallTypes, PlacesOK,
       route, wait, call
  <1>29. ASSUME CloseReturns PROVE AppliedOK'
    BY <1>0, <1>29, Kinds DEF CloseReturns, AppliedOK, PcTypes, WaitTypes, CallTypes, PlacesOK,
       route, wait, call
  <1>30. CASE UNCHANGED vars
    BY <1>0, <1>30 DEF AppliedOK, PcTypes, WaitTypes, CallTypes, PlacesOK, vars, route, call,
       wait
  <1> QED BY Kinds, <1>1, <1>2, <1>3, <1>4, <1>5, <1>6, <1>7, <1>8, <1>9, <1>10, <1>11, <1>12,
     <1>13, <1>14, <1>15, <1>16, <1>17, <1>18, <1>19, <1>20, <1>21, <1>22, <1>23, <1>24, <1>25,
     <1>26, <1>27, <1>28, <1>29, <1>30 DEF Next, Step, CallStep, FlightStep, LoopStep

\* Flights do not overlap, and fetch what is newer.
LEMMA FlightsKept ==
    ASSUME TopologyInv, [Next]_vars
    PROVE  FlightsOK'
  <1>0. FlightsOK /\ PcTypes /\ ExecTypes /\ FlightTypes /\ PlacesOK
    BY DEF TopologyInv, ProcsOK, TypeOK
  <1>1. ASSUME NEW c \in Callers, Begin(c) PROVE FlightsOK'
    BY <1>0, <1>1, Kinds, Constants, EpochsAre DEF Begin, Goto, FlightsOK, Runs, PcTypes,
       ExecTypes, FlightTypes, PlacesOK, exec, flight, events, closing
  <1>2. ASSUME NEW c \in Callers, Cancel(c) PROVE FlightsOK'
    BY <1>0, <1>2, Kinds, Constants, EpochsAre DEF Cancel, FlightsOK, Runs, PcTypes, ExecTypes,
       FlightTypes, PlacesOK, exec, flight, events, route, closing
  <1>3. ASSUME NEW c \in Callers, Plan(c) PROVE FlightsOK'
    BY <1>0, <1>3, Kinds, Constants, EpochsAre DEF Plan, Goto, FlightsOK, Runs, PcTypes,
       ExecTypes, FlightTypes, PlacesOK, exec, flight, events, closing
  <1>4. ASSUME NEW c \in Callers, Verify(c) PROVE FlightsOK'
    BY <1>0, <1>4, Kinds, Constants, EpochsAre DEF Verify, Goto, FlightsOK, Runs, PcTypes,
       ExecTypes, FlightTypes, PlacesOK, exec, flight, events, route, closing
  <1>5. ASSUME NEW c \in Callers, Answer(c) PROVE FlightsOK'
    BY <1>0, <1>5, Kinds, Constants, EpochsAre DEF Answer, Goto, FlightsOK, Runs, PcTypes,
       ExecTypes, FlightTypes, PlacesOK, exec, flight, events, closing
  <1>6. ASSUME NEW c \in Callers, ControlAnswer(c) PROVE FlightsOK'
    BY <1>0, <1>6, Kinds, Constants, EpochsAre DEF ControlAnswer, Goto, FlightsOK, Runs,
       PcTypes, ExecTypes, FlightTypes, PlacesOK, exec, flight, events, closing
  <1>7. ASSUME NEW c \in Callers, Return(c) PROVE FlightsOK'
    BY <1>0, <1>7, Kinds, Constants, EpochsAre DEF Return, Goto, FlightsOK, Runs, PcTypes,
       ExecTypes, FlightTypes, PlacesOK, exec, flight, events, closing
  <1>8. ASSUME NEW f \in Flights, FlightBegin(f) PROVE FlightsOK'
    BY <1>0, <1>8, Kinds, Constants, EpochsAre DEF FlightBegin, Goto, FlightsOK, Runs, PcTypes,
       ExecTypes, FlightTypes, PlacesOK, exec, flight, events, closing
  <1>9. ASSUME NEW f \in Flights, Fetch(f) PROVE FlightsOK'
    BY <1>0, <1>9, Kinds, Constants, EpochsAre DEF Fetch, Goto, FlightsOK, Runs, PcTypes,
       ExecTypes, FlightTypes, PlacesOK, exec, events, closing
  <1>10. ASSUME NEW f \in Flights, Install(f) PROVE FlightsOK'
    BY <1>0, <1>10, Kinds, Constants, EpochsAre DEF Install, Goto, FlightsOK, Runs, PcTypes,
       ExecTypes, FlightTypes, PlacesOK, events, route, closing
  <1>11. ASSUME NEW f \in Flights, Retire(f) PROVE FlightsOK'
    BY <1>0, <1>11, Kinds, Constants, EpochsAre DEF Retire, Goto, FlightsOK, Runs, PcTypes,
       ExecTypes, FlightTypes, PlacesOK, events, closing
  <1>12. ASSUME NEW f \in Flights, FlightFinish(f) PROVE FlightsOK'
    BY <1>0, <1>12, Kinds, Constants, EpochsAre DEF FlightFinish, Goto, FlightsOK, Runs,
       PcTypes, ExecTypes, FlightTypes, PlacesOK, exec, events, closing
  <1>13. ASSUME LoopSelect PROVE FlightsOK'
    BY <1>0, <1>13, Kinds, Constants, EpochsAre DEF LoopSelect, Goto, FlightsOK, Runs, PcTypes,
       ExecTypes, FlightTypes, PlacesOK, exec, flight, route, closing
  <1>14. ASSUME LoopLook PROVE FlightsOK'
    BY <1>0, <1>14, Kinds, Constants, EpochsAre DEF LoopLook, Goto, FlightsOK, Runs, PcTypes,
       ExecTypes, FlightTypes, PlacesOK, exec, flight, events, route, closing
  <1>15. ASSUME LoopWait PROVE FlightsOK'
    BY <1>0, <1>15, Kinds, Constants, EpochsAre DEF LoopWait, Goto, FlightsOK, Runs, PcTypes,
       ExecTypes, FlightTypes, PlacesOK, exec, flight, events, route, closing
  <1>16. ASSUME NEW p \in Refreshers, Refresh(p) PROVE FlightsOK'
    BY <1>0, <1>16, Kinds, Constants, EpochsAre DEF Refresh, Goto, Returned, FlightsOK, Runs,
       PcTypes, ExecTypes, FlightTypes, PlacesOK, exec, flight, events, route, closing
  <1>17. ASSUME NEW p \in Refreshers, RefreshAbandoned(p) PROVE FlightsOK'
    BY <1>0, <1>17, Kinds, Constants, EpochsAre DEF RefreshAbandoned, Goto, Returned, FlightsOK,
       Runs, PcTypes, ExecTypes, FlightTypes, PlacesOK, exec, flight, events, route, closing
  <1>18. ASSUME NEW p \in Refreshers, RefreshWait(p) PROVE FlightsOK'
    BY <1>0, <1>18, Kinds, Constants, EpochsAre DEF RefreshWait, Goto, Returned, FlightsOK,
       Runs, PcTypes, ExecTypes, FlightTypes, PlacesOK, exec, events, route, closing
  <1>19. ASSUME NEW p \in Procs, Pick(p) PROVE FlightsOK'
    BY <1>0, <1>19, Kinds, Constants, EpochsAre DEF Pick, Goto, FlightsOK, Runs, PcTypes,
       ExecTypes, FlightTypes, PlacesOK, exec, flight, events, closing
  <1>20. ASSUME NEW p \in Procs, Lookup(p) PROVE FlightsOK'
    BY <1>0, <1>20, Kinds, Constants, EpochsAre DEF Lookup, Goto, Failed, Unusable, FlightsOK,
       Runs, PcTypes, ExecTypes, FlightTypes, PlacesOK, exec, flight, events, closing
  <1>21. ASSUME NEW p \in Procs, Insert(p) PROVE FlightsOK'
    BY <1>0, <1>21, Kinds, Constants, EpochsAre DEF Insert, Goto, Failed, Unusable, FlightsOK,
       Runs, PcTypes, ExecTypes, FlightTypes, PlacesOK, flight, events, closing
  <1>22. ASSUME NEW p \in Procs, Recheck(p) PROVE FlightsOK'
    BY <1>0, <1>22, Kinds, Constants, EpochsAre DEF Recheck, Goto, Failed, Unusable, FlightsOK,
       Runs, PcTypes, ExecTypes, FlightTypes, PlacesOK, exec, flight, events, closing
  <1>23. ASSUME NEW p \in Procs, Send(p) PROVE FlightsOK'
    BY <1>0, <1>23, Kinds, Constants, EpochsAre DEF Send, Goto, Failed, FlightsOK, Runs,
       PcTypes, ExecTypes, FlightTypes, PlacesOK, exec, flight, events, closing
  <1>24. ASSUME NEW a \in Adapters, Forget(a) PROVE FlightsOK'
    BY <1>0, <1>24, Kinds, Constants, EpochsAre DEF Forget, FlightsOK, Runs, PcTypes, ExecTypes,
       FlightTypes, PlacesOK, flight, events, route, closing
  <1>25. ASSUME ServerChange PROVE FlightsOK'
    BY <1>0, <1>25, Kinds, Constants, EpochsAre DEF ServerChange, FlightsOK, Runs, PcTypes,
       ExecTypes, FlightTypes, PlacesOK, exec, flight, events, route, closing
  <1>26. ASSUME ManagementEvent PROVE FlightsOK'
    BY <1>0, <1>26, Kinds, Constants, EpochsAre DEF ManagementEvent, FlightsOK, Runs, PcTypes,
       ExecTypes, FlightTypes, PlacesOK, exec, flight, route, closing
  <1>27. ASSUME Close PROVE FlightsOK'
    BY <1>0, <1>27, Kinds, Constants, EpochsAre DEF Close, FlightsOK, Runs, PcTypes, ExecTypes,
       FlightTypes, PlacesOK, flight, events, route
  <1>28. ASSUME CloseAdapters PROVE FlightsOK'
    BY <1>0, <1>28, Kinds, Constants, EpochsAre DEF CloseAdapters, FlightsOK, Runs, PcTypes,
       ExecTypes, FlightTypes, PlacesOK, exec, flight, events, route
  <1>29. ASSUME CloseReturns PROVE FlightsOK'
    BY <1>0, <1>29, Kinds, Constants, EpochsAre DEF CloseReturns, FlightsOK, Runs, PcTypes,
       ExecTypes, FlightTypes, PlacesOK, exec, flight, events, route
  <1>30. CASE UNCHANGED vars
    BY <1>0, <1>30 DEF FlightsOK, Runs, PcTypes, ExecTypes, FlightTypes, PlacesOK, vars, exec,
       flight, events, route, closing
  <1> QED BY Kinds, <1>1, <1>2, <1>3, <1>4, <1>5, <1>6, <1>7, <1>8, <1>9, <1>10, <1>11, <1>12,
     <1>13, <1>14, <1>15, <1>16, <1>17, <1>18, <1>19, <1>20, <1>21, <1>22, <1>23, <1>24, <1>25,
     <1>26, <1>27, <1>28, <1>29, <1>30 DEF Next, Step, CallStep, FlightStep, LoopStep

\* Snapshots and the cache.
LEMMA RoutesKept ==
    ASSUME TopologyInv, [Next]_vars
    PROVE  RoutesOK'
  <1>0. RoutesOK /\ PcTypes /\ ExecTypes /\ RouteTypes /\ AdapterTypes /\ HandsOK /\ PlacesOK
    BY DEF TopologyInv, ProcsOK, TypeOK
  <1>1. ASSUME NEW c \in Callers, Begin(c) PROVE RoutesOK'
    BY <1>0, <1>1, Kinds DEF Begin, Goto, Candidates, EndpointsOf, RoutesOK, PcTypes, ExecTypes,
       RouteTypes, AdapterTypes, HandsOK, PlacesOK, NoSnapshot, exec, events, closing
  <1>2. ASSUME NEW c \in Callers, Cancel(c) PROVE RoutesOK'
    BY <1>0, <1>2, Kinds DEF Cancel, RoutesOK, PcTypes, ExecTypes, RouteTypes, AdapterTypes,
       HandsOK, PlacesOK, NoSnapshot, exec, events, route, closing
  <1>3. ASSUME NEW c \in Callers, Plan(c) PROVE RoutesOK'
    BY <1>0, <1>3, Kinds DEF Plan, Goto, RoutesOK, PcTypes, ExecTypes, RouteTypes, AdapterTypes,
       HandsOK, PlacesOK, NoSnapshot, exec, events, closing
  <1>4. ASSUME NEW c \in Callers, Verify(c) PROVE RoutesOK'
    BY <1>0, <1>4, Kinds DEF Verify, Goto, RoutesOK, PcTypes, ExecTypes, RouteTypes,
       AdapterTypes, HandsOK, PlacesOK, NoSnapshot, exec, events, route, closing
  <1>5. ASSUME NEW c \in Callers, Answer(c) PROVE RoutesOK'
    BY <1>0, <1>5, Kinds DEF Answer, Goto, EndRequest, RoutesOK, PcTypes, ExecTypes, RouteTypes,
       AdapterTypes, HandsOK, PlacesOK, NoSnapshot, exec, events, closing
  <1>6. ASSUME NEW c \in Callers, ControlAnswer(c) PROVE RoutesOK'
    BY <1>0, <1>6, Kinds DEF ControlAnswer, Goto, EndRequest, RoutesOK, PcTypes, ExecTypes,
       RouteTypes, AdapterTypes, HandsOK, PlacesOK, NoSnapshot, exec, events, closing
  <1>7. ASSUME NEW c \in Callers, Return(c) PROVE RoutesOK'
    BY <1>0, <1>7, Kinds DEF Return, Goto, RoutesOK, PcTypes, ExecTypes, RouteTypes,
       AdapterTypes, HandsOK, PlacesOK, NoSnapshot, exec, events, closing
  <1>8. ASSUME NEW f \in Flights, FlightBegin(f) PROVE RoutesOK'
    BY <1>0, <1>8, Kinds DEF FlightBegin, Goto, Candidates, EndpointsOf, RoutesOK, PcTypes,
       ExecTypes, RouteTypes, AdapterTypes, HandsOK, PlacesOK, NoSnapshot, exec, events, closing
  <1>9. ASSUME NEW f \in Flights, Fetch(f) PROVE RoutesOK'
    BY <1>0, <1>9, Kinds DEF Fetch, Goto, EndRequest, RoutesOK, PcTypes, ExecTypes, RouteTypes,
       AdapterTypes, HandsOK, PlacesOK, NoSnapshot, exec, events, closing
  <1>10. ASSUME NEW f \in Flights, Install(f) PROVE RoutesOK'
    BY <1>0, <1>10, Kinds DEF Install, Goto, RoutesOK, PcTypes, ExecTypes, RouteTypes,
       AdapterTypes, HandsOK, PlacesOK, NoSnapshot, events, route, closing
  <1>11. ASSUME NEW f \in Flights, Retire(f) PROVE RoutesOK'
    BY <1>0, <1>11, Kinds DEF Retire, Goto, EndpointsOf, RoutesOK, PcTypes, ExecTypes,
       RouteTypes, AdapterTypes, HandsOK, PlacesOK, NoSnapshot, events, closing
  <1>12. ASSUME NEW f \in Flights, FlightFinish(f) PROVE RoutesOK'
    BY <1>0, <1>12, Kinds DEF FlightFinish, Goto, RoutesOK, PcTypes, ExecTypes, RouteTypes,
       AdapterTypes, HandsOK, PlacesOK, NoSnapshot, exec, events, closing
  <1>13. ASSUME LoopSelect PROVE RoutesOK'
    BY <1>0, <1>13, Kinds DEF LoopSelect, Goto, RoutesOK, PcTypes, ExecTypes, RouteTypes,
       AdapterTypes, HandsOK, PlacesOK, NoSnapshot, exec, route, closing
  <1>14. ASSUME LoopLook PROVE RoutesOK'
    BY <1>0, <1>14, Kinds DEF LoopLook, Goto, RoutesOK, PcTypes, ExecTypes, RouteTypes,
       AdapterTypes, HandsOK, PlacesOK, NoSnapshot, exec, events, route, closing
  <1>15. ASSUME LoopWait PROVE RoutesOK'
    BY <1>0, <1>15, Kinds DEF LoopWait, Goto, RoutesOK, PcTypes, ExecTypes, RouteTypes,
       AdapterTypes, HandsOK, PlacesOK, NoSnapshot, exec, events, route, closing
  <1>16. ASSUME NEW p \in Refreshers, Refresh(p) PROVE RoutesOK'
    BY <1>0, <1>16, Kinds DEF Refresh, Goto, Returned, RoutesOK, PcTypes, ExecTypes, RouteTypes,
       AdapterTypes, HandsOK, PlacesOK, NoSnapshot, exec, events, route, closing
  <1>17. ASSUME NEW p \in Refreshers, RefreshAbandoned(p) PROVE RoutesOK'
    BY <1>0, <1>17, Kinds DEF RefreshAbandoned, Goto, Returned, RoutesOK, PcTypes, ExecTypes,
       RouteTypes, AdapterTypes, HandsOK, PlacesOK, NoSnapshot, exec, events, route, closing
  <1>18. ASSUME NEW p \in Refreshers, RefreshWait(p) PROVE RoutesOK'
    BY <1>0, <1>18, Kinds DEF RefreshWait, Goto, Returned, RoutesOK, PcTypes, ExecTypes,
       RouteTypes, AdapterTypes, HandsOK, PlacesOK, NoSnapshot, exec, events, route, closing
  <1>19. ASSUME NEW p \in Procs, Pick(p) PROVE RoutesOK'
    BY <1>0, <1>19, Kinds DEF Pick, Goto, RoutesOK, PcTypes, ExecTypes, RouteTypes,
       AdapterTypes, HandsOK, PlacesOK, NoSnapshot, exec, events, closing
  <1>20. ASSUME NEW p \in Procs, Lookup(p) PROVE RoutesOK'
    BY <1>0, <1>20, Kinds, Constants DEF Lookup, Goto, Failed, Unusable, RoutesOK, PcTypes,
       ExecTypes, RouteTypes, AdapterTypes, HandsOK, PlacesOK, NoSnapshot, exec, events, closing
  <1>21. ASSUME NEW p \in Procs, Insert(p) PROVE RoutesOK'
    BY <1>0, <1>21, Kinds, Constants DEF Insert, Goto, Failed, Unusable, RoutesOK, PcTypes,
       ExecTypes, RouteTypes, AdapterTypes, HandsOK, PlacesOK, NoSnapshot, events, closing
  <1>22. ASSUME NEW p \in Procs, Recheck(p) PROVE RoutesOK'
    BY <1>0, <1>22, Kinds DEF Recheck, Goto, Failed, Unusable, RoutesOK, PcTypes, ExecTypes,
       RouteTypes, AdapterTypes, HandsOK, PlacesOK, NoSnapshot, exec, events, closing
  <1>23. ASSUME NEW p \in Procs, Send(p) PROVE RoutesOK'
    BY <1>0, <1>23, Kinds DEF Send, Goto, Failed, RoutesOK, PcTypes, ExecTypes, RouteTypes,
       AdapterTypes, HandsOK, PlacesOK, NoSnapshot, exec, events, closing
  <1>24. ASSUME NEW a \in Adapters, Forget(a) PROVE RoutesOK'
    BY <1>0, <1>24, Kinds DEF Forget, RoutesOK, PcTypes, ExecTypes, RouteTypes, AdapterTypes,
       HandsOK, PlacesOK, NoSnapshot, events, route, closing
  <1>25. ASSUME ServerChange PROVE RoutesOK'
    BY <1>0, <1>25, Kinds DEF ServerChange, RoutesOK, PcTypes, ExecTypes, RouteTypes,
       AdapterTypes, HandsOK, PlacesOK, NoSnapshot, exec, events, route, closing
  <1>26. ASSUME ManagementEvent PROVE RoutesOK'
    BY <1>0, <1>26, Kinds DEF ManagementEvent, RoutesOK, PcTypes, ExecTypes, RouteTypes,
       AdapterTypes, HandsOK, PlacesOK, NoSnapshot, exec, route, closing
  <1>27. ASSUME Close PROVE RoutesOK'
    BY <1>0, <1>27, Kinds DEF Close, RoutesOK, PcTypes, ExecTypes, RouteTypes, AdapterTypes,
       HandsOK, PlacesOK, NoSnapshot, events, route
  <1>28. ASSUME CloseAdapters PROVE RoutesOK'
    BY <1>0, <1>28, Kinds DEF CloseAdapters, RoutesOK, PcTypes, ExecTypes, RouteTypes,
       AdapterTypes, HandsOK, PlacesOK, NoSnapshot, exec, events, route
  <1>29. ASSUME CloseReturns PROVE RoutesOK'
    BY <1>0, <1>29, Kinds DEF CloseReturns, RoutesOK, PcTypes, ExecTypes, RouteTypes,
       AdapterTypes, HandsOK, PlacesOK, NoSnapshot, exec, events, route
  <1>30. CASE UNCHANGED vars
    BY <1>0, <1>30 DEF RoutesOK, PcTypes, ExecTypes, RouteTypes, AdapterTypes, HandsOK,
       PlacesOK, NoSnapshot, vars, exec, events, route, closing
  <1> QED BY Kinds, <1>1, <1>2, <1>3, <1>4, <1>5, <1>6, <1>7, <1>8, <1>9, <1>10, <1>11, <1>12,
     <1>13, <1>14, <1>15, <1>16, <1>17, <1>18, <1>19, <1>20, <1>21, <1>22, <1>23, <1>24, <1>25,
     <1>26, <1>27, <1>28, <1>29, <1>30 DEF Next, Step, CallStep, FlightStep, LoopStep

\* Events and the flights after them.
LEMMA EventsKept ==
    ASSUME TopologyInv, [Next]_vars
    PROVE  EventsOK'
  <1>0. EventsOK /\ PcTypes /\ ExecTypes /\ FlightTypes /\ PlacesOK /\ AwaitsOK /\ FlightsOK /\
     WaitTypes
    BY DEF TopologyInv, ProcsOK, TypeOK
  <1>1. ASSUME NEW c \in Callers, Begin(c) PROVE EventsOK'
    BY <1>0, <1>1, Kinds, Constants, EpochsAre DEF Begin, Goto, EventsOK, Runs, PcTypes,
       ExecTypes, FlightTypes, PlacesOK, AwaitsOK, FlightsOK, exec, flight, events, wait,
       closing
  <1>2. ASSUME NEW c \in Callers, Cancel(c) PROVE EventsOK'
    BY <1>0, <1>2, Kinds, Constants, EpochsAre DEF Cancel, EventsOK, Runs, PcTypes, ExecTypes,
       FlightTypes, PlacesOK, AwaitsOK, FlightsOK, exec, flight, events, route, wait, closing
  <1>3. ASSUME NEW c \in Callers, Plan(c) PROVE EventsOK'
    BY <1>0, <1>3, Kinds, Constants, EpochsAre DEF Plan, Goto, EventsOK, Runs, PcTypes,
       ExecTypes, FlightTypes, PlacesOK, AwaitsOK, FlightsOK, exec, flight, events, closing
  <1>4. ASSUME NEW c \in Callers, Verify(c) PROVE EventsOK'
    BY <1>0, <1>4, Kinds, Constants, EpochsAre DEF Verify, Goto, EventsOK, Runs, PcTypes,
       ExecTypes, FlightTypes, PlacesOK, AwaitsOK, FlightsOK, exec, flight, events, route, wait,
       closing
  <1>5. ASSUME NEW c \in Callers, Answer(c) PROVE EventsOK'
    BY <1>0, <1>5, Kinds, Constants, EpochsAre DEF Answer, Goto, EventsOK, Runs, PcTypes,
       ExecTypes, FlightTypes, PlacesOK, AwaitsOK, FlightsOK, exec, flight, events, closing
  <1>6. ASSUME NEW c \in Callers, ControlAnswer(c) PROVE EventsOK'
    BY <1>0, <1>6, Kinds, Constants, EpochsAre DEF ControlAnswer, Goto, EventsOK, Runs, PcTypes,
       ExecTypes, FlightTypes, PlacesOK, AwaitsOK, FlightsOK, exec, flight, events, wait,
       closing
  <1>7. ASSUME NEW c \in Callers, Return(c) PROVE EventsOK'
    BY <1>0, <1>7, Kinds, Constants, EpochsAre DEF Return, Goto, EventsOK, Runs, PcTypes,
       ExecTypes, FlightTypes, PlacesOK, AwaitsOK, FlightsOK, exec, flight, events, closing
  <1>8. ASSUME NEW f \in Flights, FlightBegin(f) PROVE EventsOK'
    BY <1>0, <1>8, Kinds, Constants, EpochsAre DEF FlightBegin, Goto, EventsOK, Runs, PcTypes,
       ExecTypes, FlightTypes, PlacesOK, AwaitsOK, FlightsOK, exec, flight, events, wait,
       closing
  <1>9. ASSUME NEW f \in Flights, Fetch(f) PROVE EventsOK'
    BY <1>0, <1>9, Kinds, Constants, EpochsAre DEF Fetch, Goto, EventsOK, Runs, PcTypes,
       ExecTypes, FlightTypes, PlacesOK, AwaitsOK, FlightsOK, exec, events, wait, closing
  <1>10. ASSUME NEW f \in Flights, Install(f) PROVE EventsOK'
    BY <1>0, <1>10, Kinds, Constants, EpochsAre DEF Install, Goto, EventsOK, Runs, PcTypes,
       ExecTypes, FlightTypes, PlacesOK, AwaitsOK, FlightsOK, events, route, wait, closing
  <1>11. ASSUME NEW f \in Flights, Retire(f) PROVE EventsOK'
    BY <1>0, <1>11, Kinds, Constants, EpochsAre DEF Retire, Goto, EventsOK, Runs, PcTypes,
       ExecTypes, FlightTypes, PlacesOK, AwaitsOK, FlightsOK, events, wait, closing
  <1>12. ASSUME NEW f \in Flights, FlightFinish(f) PROVE EventsOK'
    BY <1>0, <1>12, Kinds, Constants, EpochsAre DEF FlightFinish, Goto, EventsOK, Runs, PcTypes,
       ExecTypes, FlightTypes, PlacesOK, AwaitsOK, FlightsOK, exec, events, wait, closing
  <1>13. ASSUME LoopSelect PROVE EventsOK'
    BY <1>0, <1>13, Kinds, Constants, EpochsAre DEF LoopSelect, Goto, EventsOK, Runs, PcTypes,
       ExecTypes, FlightTypes, PlacesOK, AwaitsOK, FlightsOK, exec, flight, route, wait, closing
  <1>14. ASSUME LoopLook PROVE EventsOK'
    <2>1. CASE refreshInFlight = None
      BY <1>0, <1>14, <2>1, Kinds, Constants, EpochsAre DEF LoopLook, Goto, EventsOK, Runs, PcTypes,
         ExecTypes, FlightTypes, WaitTypes, PlacesOK, AwaitsOK, FlightsOK, exec, flight, events,
         route, closing
    <2>2. CASE refreshInFlight \in Flights
      BY <1>0, <1>14, <2>2, Kinds, Constants, EpochsAre DEF LoopLook, Goto, EventsOK, Runs, PcTypes,
         ExecTypes, FlightTypes, WaitTypes, PlacesOK, AwaitsOK, FlightsOK, exec, flight, events,
         route, closing
    <2> QED BY <1>0, <2>1, <2>2 DEF FlightTypes
  <1>15. ASSUME LoopWait PROVE EventsOK'
    BY <1>0, <1>15, Kinds, Constants, EpochsAre DEF LoopWait, Goto, EventsOK, Runs, PcTypes,
       ExecTypes, FlightTypes, PlacesOK, AwaitsOK, FlightsOK, exec, flight, events, route,
       closing
  <1>16. ASSUME NEW p \in Refreshers, Refresh(p) PROVE EventsOK'
    <2>1. CASE p = EventLoop
      BY <1>0, <1>16, <2>1, Kinds, Constants, EpochsAre DEF Refresh, Goto, Returned, Idle, EventsOK,
         Runs, PcTypes, ExecTypes, FlightTypes, WaitTypes, PlacesOK, AwaitsOK, FlightsOK, exec,
         flight, events, route, closing
    <2>2. CASE p \in Callers
      BY <1>0, <1>16, <2>2, Kinds, Constants, EpochsAre DEF Refresh, Goto, Returned, Idle, EventsOK,
         Runs, PcTypes, ExecTypes, FlightTypes, WaitTypes, PlacesOK, AwaitsOK, FlightsOK, exec,
         flight, events, route, closing
    <2> QED BY <2>1, <2>2, Kinds
  <1>17. ASSUME NEW p \in Refreshers, RefreshAbandoned(p) PROVE EventsOK'
    <2>1. CASE p = EventLoop
      BY <1>0, <1>17, <2>1, Kinds, Constants, EpochsAre DEF RefreshAbandoned, Goto, Returned,
         EventsOK, Runs, PcTypes, ExecTypes, FlightTypes, WaitTypes, PlacesOK, AwaitsOK, FlightsOK,
         exec, flight, events, route, closing
    <2>2. CASE p \in Callers
      BY <1>0, <1>17, <2>2, Kinds, Constants, EpochsAre DEF RefreshAbandoned, Goto, Returned,
         EventsOK, Runs, PcTypes, ExecTypes, FlightTypes, WaitTypes, PlacesOK, AwaitsOK, FlightsOK,
         exec, flight, events, route, closing
    <2> QED BY <2>1, <2>2, Kinds
  <1>18. ASSUME NEW p \in Refreshers, RefreshWait(p) PROVE EventsOK'
    BY <1>0, <1>18, Kinds, Constants, EpochsAre DEF RefreshWait, Goto, Returned, EventsOK, Runs,
       PcTypes, ExecTypes, FlightTypes, PlacesOK, AwaitsOK, FlightsOK, exec, events, route,
       closing
  <1>19. ASSUME NEW p \in Procs, Pick(p) PROVE EventsOK'
    BY <1>0, <1>19, Kinds, Constants, EpochsAre DEF Pick, Goto, EventsOK, Runs, PcTypes,
       ExecTypes, FlightTypes, PlacesOK, AwaitsOK, FlightsOK, exec, flight, events, wait,
       closing
  <1>20. ASSUME NEW p \in Procs, Lookup(p) PROVE EventsOK'
    BY <1>0, <1>20, Kinds, Constants, EpochsAre DEF Lookup, Goto, Failed, Unusable, EventsOK,
       Runs, PcTypes, ExecTypes, FlightTypes, PlacesOK, AwaitsOK, FlightsOK, exec, flight,
       events, wait, closing
  <1>21. ASSUME NEW p \in Procs, Insert(p) PROVE EventsOK'
    BY <1>0, <1>21, Kinds, Constants, EpochsAre DEF Insert, Goto, Failed, Unusable, EventsOK,
       Runs, PcTypes, ExecTypes, FlightTypes, PlacesOK, AwaitsOK, FlightsOK, flight, events,
       wait, closing
  <1>22. ASSUME NEW p \in Procs, Recheck(p) PROVE EventsOK'
    BY <1>0, <1>22, Kinds, Constants, EpochsAre DEF Recheck, Goto, Failed, Unusable, EventsOK,
       Runs, PcTypes, ExecTypes, FlightTypes, PlacesOK, AwaitsOK, FlightsOK, exec, flight,
       events, wait, closing
  <1>23. ASSUME NEW p \in Procs, Send(p) PROVE EventsOK'
    BY <1>0, <1>23, Kinds, Constants, EpochsAre DEF Send, Goto, Failed, EventsOK, Runs, PcTypes,
       ExecTypes, FlightTypes, PlacesOK, AwaitsOK, FlightsOK, exec, flight, events, closing
  <1>24. ASSUME NEW a \in Adapters, Forget(a) PROVE EventsOK'
    BY <1>0, <1>24, Kinds, Constants, EpochsAre DEF Forget, EventsOK, Runs, PcTypes, ExecTypes,
       FlightTypes, PlacesOK, AwaitsOK, FlightsOK, flight, events, route, wait, closing
  <1>25. ASSUME ServerChange PROVE EventsOK'
    BY <1>0, <1>25, Kinds, Constants, EpochsAre DEF ServerChange, EventsOK, Runs, PcTypes,
       ExecTypes, FlightTypes, PlacesOK, AwaitsOK, FlightsOK, exec, flight, events, route, wait,
       closing
  <1>26. ASSUME ManagementEvent PROVE EventsOK'
    BY <1>0, <1>26, Kinds, Constants, EpochsAre DEF ManagementEvent, EventsOK, Runs, PcTypes,
       ExecTypes, FlightTypes, PlacesOK, AwaitsOK, FlightsOK, exec, flight, route, wait, closing
  <1>27. ASSUME Close PROVE EventsOK'
    BY <1>0, <1>27, Kinds, Constants, EpochsAre DEF Close, EventsOK, Runs, PcTypes, ExecTypes,
       FlightTypes, PlacesOK, AwaitsOK, FlightsOK, flight, events, route, wait
  <1>28. ASSUME CloseAdapters PROVE EventsOK'
    BY <1>0, <1>28, Kinds, Constants, EpochsAre DEF CloseAdapters, EventsOK, Runs, PcTypes,
       ExecTypes, FlightTypes, PlacesOK, AwaitsOK, FlightsOK, exec, flight, events, route, wait
  <1>29. ASSUME CloseReturns PROVE EventsOK'
    BY <1>0, <1>29, Kinds, Constants, EpochsAre DEF CloseReturns, EventsOK, Runs, PcTypes,
       ExecTypes, FlightTypes, PlacesOK, AwaitsOK, FlightsOK, exec, flight, events, route, wait
  <1>30. CASE UNCHANGED vars
    BY <1>0, <1>30 DEF EventsOK, Runs, PcTypes, ExecTypes, FlightTypes, PlacesOK, AwaitsOK,
       FlightsOK, vars, exec, flight, events, route, wait, closing
  <1> QED BY Kinds, <1>1, <1>2, <1>3, <1>4, <1>5, <1>6, <1>7, <1>8, <1>9, <1>10, <1>11, <1>12,
     <1>13, <1>14, <1>15, <1>16, <1>17, <1>18, <1>19, <1>20, <1>21, <1>22, <1>23, <1>24, <1>25,
     <1>26, <1>27, <1>28, <1>29, <1>30 DEF Next, Step, CallStep, FlightStep, LoopStep

-----------------------------------------------------------------------------
(* Theorems.                                                                  *)

\* The invariant holds initially.
LEMMA InvInit == Init => TopologyInv
  <1> SUFFICES ASSUME Init PROVE TopologyInv
    OBVIOUS
  <1>1. TypeOK
    <2>1. 1 \in Epochs /\ MaxPlanning \in Nat /\ MaxCalls \in Nat
      BY TopologyConstants
    <2>2. ExecTypes /\ AdapterTypes /\ FlightTypes
      BY <2>1 DEF Init, ExecTypes, AdapterTypes, FlightTypes
    <2>3. PcTypes /\ RouteTypes /\ WaitTypes
      BY DEF Init, PcTypes, PCs, RouteTypes, WaitTypes
    <2>4. CallTypes
      BY <2>1 DEF Init, CallTypes
    <2> QED BY <2>2, <2>3, <2>4 DEF TypeOK
  <1>2. PlacesOK /\ HandsOK /\ AwaitsOK
    BY Kinds DEF Init, PlacesOK, HandsOK, AwaitsOK
  <1>3. AdaptersOK
    BY DEF Init, AdaptersOK, NoLeakedAdapter
  <1>4. AppliedOK
    BY DEF Init, AppliedOK
  <1>5. FlightsOK
    BY Kinds, Constants DEF Init, FlightsOK, Runs
  <1>6. RoutesOK
    BY Kinds DEF Init, RoutesOK
  <1>7. EventsOK
    BY Kinds DEF Init, EventsOK
  <1> QED BY <1>1, <1>2, <1>3, <1>4, <1>5, <1>6, <1>7 DEF TopologyInv, ProcsOK

\* TopologyInv holds in every reachable state of the executor, with any number of
\* callers and layouts (topology.go:403, topology_refresh.go:36, topology_adapter.go:256).
THEOREM TopologyInvariant == Spec => []TopologyInv
  <1>1. TopologyInv /\ [Next]_vars => TopologyInv'
    BY TypesKept, PlacesKept, HandsKept, AwaitsKept, AdaptersKept, AppliedKept, FlightsKept,
       RoutesKept, EventsKept DEF TopologyInv, ProcsOK
  <1> QED BY <1>1, InvInit, PTL DEF Spec

\* No adapter is leaked, whatever lookups, refreshes and retirements Close races with
\* (topology_adapter.go:67, topology.go:351).
THEOREM NoLeakedAdapterHolds == Spec => []NoLeakedAdapter
  <1>1. TopologyInv => NoLeakedAdapter
    BY DEF TopologyInv, AdaptersOK
  <1> QED BY <1>1, TopologyInvariant, PTL

\* No command is applied twice, through reroutes, refreshes and replays
\* (topology_reroute.go:34).
THEOREM AppliedOnceHolds == Spec => []AppliedOnce
  <1>1. TopologyInv => AppliedOnce
    BY DEF TopologyInv, AppliedOK, AppliedOnce
  <1> QED BY <1>1, TopologyInvariant, PTL

\* Layouts only move forward, and as far as events announced, although refreshes are
\* abandoned, joined and in flight when an event arrives (topology_refresh.go:36).
THEOREM LayoutsMoveForwardHolds == Spec => LayoutsMoveForward
  <1>1. TopologyInv /\ [Next]_vars => [topology' >= topology]_vars
    <2> SUFFICES ASSUME TopologyInv, Next PROVE topology' >= topology
      BY DEF vars
    <2>1. topology \in Nat
      BY EpochsAre DEF TopologyInv, TypeOK, ExecTypes
    <2>2. ASSUME NEW f \in Flights, Install(f) PROVE topology' >= topology
      <3>1. fetched[f] \in Nat /\ topology <= fetched[f]
        BY <2>2, EpochsAre DEF Install, TopologyInv, FlightsOK
      <3>2. topology' = fetched[f] \/ topology' = topology
        BY <2>2 DEF Install
      <3> QED BY <2>1, <3>1, <3>2
    <2>3. UNCHANGED topology \/ \E f \in Flights : Install(f)
      <3>1. ASSUME NEW c \in Callers, Begin(c) \/ Cancel(c) \/ CallStep(c)
            PROVE  UNCHANGED topology
        BY <3>1 DEF CallStep, Begin, Cancel, Plan, Verify, Answer, ControlAnswer, Return, exec
      <3>2. ASSUME NEW f \in Flights, FlightStep(f)
            PROVE  UNCHANGED topology \/ Install(f)
        BY <3>2 DEF FlightStep, FlightBegin, Fetch, Retire, FlightFinish, exec
      <3>3. ASSUME NEW p \in Refreshers, Refresh(p) \/ RefreshAbandoned(p) \/ RefreshWait(p)
            PROVE  UNCHANGED topology
        BY <3>3 DEF Refresh, RefreshAbandoned, RefreshWait, exec
      <3>4. ASSUME NEW p \in Procs, Pick(p) \/ Lookup(p) \/ Insert(p) \/ Recheck(p) \/ Send(p)
            PROVE  UNCHANGED topology
        BY <3>4 DEF Pick, Lookup, Insert, Recheck, Send, exec
      <3>5. ASSUME LoopStep \/ (\E a \in Adapters : Forget(a)) \/ ServerChange \/ ManagementEvent
                   \/ Close \/ CloseAdapters \/ CloseReturns
            PROVE  UNCHANGED topology
        BY <3>5 DEF LoopStep, LoopSelect, LoopLook, LoopWait, Forget, ServerChange,
                    ManagementEvent, Close, CloseAdapters, CloseReturns, exec
      <3> QED BY <3>1, <3>2, <3>3, <3>4, <3>5 DEF Next, Step
    <2> QED BY <2>1, <2>2, <2>3
  <1>2. TopologyInv /\ [Next]_vars =>
          [pc[EventLoop] = "refreshWait" /\ pc'[EventLoop] = "select"
             /\ succeeded[awaits[EventLoop]] => topology >= handled]_vars
    BY EpochsAre DEF TopologyInv, TypeOK, ExecTypes, EventsOK
  <1> QED BY <1>1, <1>2, TopologyInvariant, PTL
          DEF Spec, LayoutsMoveForward, InstalledInOrder, EventNotMissed

\* A request is begun only on the cached adapter of the endpoint that leads its key in
\* the layout installed at that moment (topology_snapshot.go:39, topology_adapter.go:124).
THEOREM RoutedByCurrentHolds == Spec => RoutedByCurrent
  <1> DEFINE Routed(c) ==
        snap[c] # NoSnapshot /\ pc[c] # "send" /\ pc'[c] = "send"
            => ~closed /\ target[c] = Layout[topology][c] /\ adapters'[target[c]] = held'[c]
  <1>1. TopologyInv /\ [Next]_vars => [\A c \in Callers : Routed(c)]_vars
    <2> SUFFICES ASSUME TopologyInv, Next, NEW c \in Callers,
                        snap[c] # NoSnapshot, pc[c] # "send", pc'[c] = "send"
                 PROVE  /\ ~closed /\ target[c] = Layout[topology][c]
                        /\ adapters'[target[c]] = held'[c]
      OBVIOUS
    <2>0. /\ PcTypes /\ RouteTypes /\ AdapterTypes /\ PlacesOK /\ HandsOK /\ RoutesOK
          /\ c \in Procs /\ c \notin Flights
      BY Kinds DEF TopologyInv, ProcsOK, TypeOK
    <2>1. Lookup(c) \/ Insert(c) \/ Recheck(c)
      BY <2>0, Kinds DEF Next, Step, CallStep, FlightStep, LoopStep, Begin, Cancel, Plan, Verify,
             Answer, ControlAnswer, Return, FlightBegin, Fetch, Install, Retire, FlightFinish,
             LoopSelect, LoopLook, LoopWait, Refresh, RefreshAbandoned, RefreshWait, Returned,
             Pick, Lookup, Insert, Recheck, Send, Forget, ServerChange, ManagementEvent, Close,
             CloseAdapters, CloseReturns, Goto, PcTypes
    <2>2. CASE Lookup(c)
      BY <2>0, <2>2, Constants DEF Lookup, Goto, Failed, Unusable, PcTypes, RouteTypes,
         AdapterTypes, HandsOK, RoutesOK, exec
    <2>3. CASE Insert(c)
      BY <2>0, <2>3, Constants DEF Insert, Goto, Failed, Unusable, PcTypes, RouteTypes,
         AdapterTypes, HandsOK, RoutesOK
    <2>4. CASE Recheck(c)
      BY <2>0, <2>4 DEF Recheck, Goto, Failed, Unusable, PcTypes, RouteTypes, RoutesOK, exec
    <2> QED BY <2>1, <2>2, <2>3, <2>4
  <1> QED BY <1>1, TopologyInvariant, PTL DEF Spec, RoutedByCurrent
=============================================================================
