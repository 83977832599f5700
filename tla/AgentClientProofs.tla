------------------------- MODULE AgentClientProofs -------------------------
(***************************************************************************)
(* Proofs about AgentClient: sharing one object for requests is safe as    *)
(* long as enter and close do not overlap other calls, for any number of   *)
(* threads, and comes to the loans of a ClientPool.                        *)
(***************************************************************************)
EXTENDS AgentClient, TLAPS

InFlight(t) == pc[t] \in {"send", "wait", "finally"}

-----------------------------------------------------------------------------
(* The inductive invariant.  The three reads of self._client in one request *)
(* agree because of what it says of the time between them.                  *)

\* Only a request that is in flight holds a client.
HolderInFlight == \A t \in Threads : ~ InFlight(t) => client[t] = None

\* A close is alone.
CloseAlone == \A t \in Threads : Closing(t) => OthersIdle(t)

\* The shared client is open, but for the time between closing and forgetting it.
CurrentOpen ==
    /\ (\A t \in Threads : ~ At(t, "clear")) => current \in open \cup {None}
    /\ \A t \in Threads : At(t, "clear") => current \notin open
    /\ \A t \in Threads : pc[t] \in {"closing", "take"} => current # None

\* Requests in flight all use the shared client, or each one of its own.
SharedOrOwn ==
    /\ current # None => \A t \in Threads : InFlight(t) => client[t] = current
    /\ current = None =>
          \A t, u \in Threads : t # u /\ InFlight(t) /\ InFlight(u) => client[t] # client[u]

\* An open client is referred to.
OpenReferred == \A c \in open : c = current \/ \E t \in Threads : client[t] = c

ScopedInv ==
    scoped => /\ CloseAlone
              /\ CurrentOpen
              /\ SharedOrOwn
              /\ OpenReferred
              /\ \A t \in Threads : InFlight(t) => client[t] \in open

ClientInv == TypeOK /\ HolderInFlight /\ ScopedInv

-----------------------------------------------------------------------------
\* What a method makes of an answer is an outcome.
LEMMA ReadsIsOutcome ==
    ASSUME NEW m, NEW a \in Answers
    PROVE  Reads(m, a) \in Outcomes
<1>1. a.status \in {"2xx", "4xx", "5xx"}
      /\ a.body \in {"complete", "huge", "incomplete", "not an object", "not JSON",
                    "undecodable"}
  BY DEF Answers
<1> QED
  BY <1>1 DEF Reads, Outcomes

\* Every step keeps the shape of the variables.
LEMMA TypeStep == TypeOK /\ [Next]_vars => TypeOK'
<1> SUFFICES ASSUME TypeOK, [Next]_vars PROVE TypeOK'
  OBVIOUS
<1> USE ClientsAssumption, MethodsAssumption DEF TypeOK, Steps, Outcomes, Goto, At
<1>1. CASE UNCHANGED vars
  BY <1>1 DEF vars
<1>2. CASE Next
  <2> PICK t \in Threads : Start(t) \/ Continue(t)
    BY <1>2 DEF Next
  <2>1. CASE Enter(t)
    BY <2>1 DEF Enter, Fresh, OthersIdle
  <2>2. CASE BeginClose(t)
    BY <2>2 DEF BeginClose, OthersIdle
  <2>3. CASE \E m \in Methods : Begin(t, m)
    BY <2>3 DEF Begin
  <2>4. CASE RefusePassport(t)
    BY <2>4 DEF RefusePassport, Return
  <2>5. CASE CloseCheck(t)
    BY <2>5 DEF CloseCheck, Return
  <2>6. CASE CloseClient(t)
    BY <2>6 DEF CloseClient, Return
  <2>7. CASE CloseClear(t)
    BY <2>7 DEF CloseClear, Return
  <2>8. CASE PickClient(t)
    BY <2>8 DEF PickClient, Fresh
  <2>9. CASE TakeClient(t)
    BY <2>9 DEF TakeClient
  <2>10. CASE SendUnusable(t)
    BY <2>10 DEF SendUnusable, Return
  <2>11. CASE Send(t)
    BY <2>11 DEF Send
  <2>12. CASE Receive(t)
    <3>1. PICK r \in {"NetworkError"} \cup {Reads(call[t], a) : a \in Answers} :
             outcome' = [outcome EXCEPT ![t] = r]
      BY <2>12 DEF Receive
    <3>2. r \in Outcomes
      BY <3>1, ReadsIsOutcome
    <3> QED
      BY <2>12, <3>1, <3>2 DEF Receive
  <2>13. CASE Finally(t)
    BY <2>13 DEF Finally, Return
  <2> QED
    BY <2>1, <2>2, <2>3, <2>4, <2>5, <2>6, <2>7, <2>8, <2>9, <2>10, <2>11, <2>12, <2>13
    DEF Start, Continue
<1> QED
  BY <1>1, <1>2

\* Every step keeps the local variable of a call that is over cleared.
LEMMA HolderStep == TypeOK /\ HolderInFlight /\ [Next]_vars => HolderInFlight'
<1> SUFFICES ASSUME TypeOK, HolderInFlight, [Next]_vars PROVE HolderInFlight'
  OBVIOUS
<1> USE DEF TypeOK, HolderInFlight, InFlight, Goto, At
<1>1. CASE UNCHANGED vars
  BY <1>1 DEF vars
<1>2. CASE Next
  <2> PICK t \in Threads : Start(t) \/ Continue(t)
    BY <1>2 DEF Next
  <2>1. CASE Start(t)
    BY <2>1 DEF Start, Enter, BeginClose, Begin, RefusePassport, Return
  <2>2. CASE CloseCheck(t) \/ CloseClient(t) \/ CloseClear(t)
    BY <2>2 DEF CloseCheck, CloseClient, CloseClear, Return
  <2>3. CASE PickClient(t) \/ TakeClient(t)
    BY <2>3 DEF PickClient, TakeClient
  <2>4. CASE SendUnusable(t) \/ Finally(t)
    BY <2>4 DEF SendUnusable, Finally, Return
  <2>5. CASE Send(t) \/ Receive(t)
    BY <2>5 DEF Send, Receive
  <2> QED
    BY <2>1, <2>2, <2>3, <2>4, <2>5 DEF Continue
<1> QED
  BY <1>1, <1>2

\* Every step keeps the requests apart from the enters and closes.
LEMMA ScopedStep == ClientInv /\ [Next]_vars => ScopedInv'
<1> SUFFICES ASSUME ClientInv, [Next]_vars, scoped' PROVE ScopedInv'
  BY DEF ScopedInv
<1> USE DEF ClientInv, TypeOK, HolderInFlight, ScopedInv, CloseAlone, CurrentOpen, SharedOrOwn,
            OpenReferred, InFlight, Closing, OthersIdle, Goto, At
<1>1. CASE UNCHANGED vars
  BY <1>1 DEF vars
<1>2. CASE Next
  <2> PICK t \in Threads : Start(t) \/ Continue(t)
    BY <1>2 DEF Next
  <2>1. CASE Enter(t)
    BY <2>1, ClientsAssumption DEF Enter, Fresh
  <2>2. CASE BeginClose(t)
    BY <2>2 DEF BeginClose
  <2>3. CASE \E m \in Methods : Begin(t, m)
    <3> PICK m \in Methods : Begin(t, m)
      BY <2>3
    <3>1. scoped /\ ~ \E u \in Threads : Closing(u)
      BY Zenon DEF Begin
    <3>2. /\ UNCHANGED <<current, open, client>>
          /\ pc' = [pc EXCEPT ![t] = "pick"]
      BY DEF Begin
    <3>3. \A u \in Threads : ~ Closing(u)' /\ (InFlight(u)' <=> u # t /\ InFlight(u))
      BY <3>1, <3>2
    <3>4. CloseAlone' /\ SharedOrOwn' /\ OpenReferred'
      BY <3>1, <3>2, <3>3
    <3>5. CurrentOpen'
      BY <3>1, <3>2
    <3> QED
      BY <3>1, <3>2, <3>3, <3>4, <3>5
  <2>4. CASE RefusePassport(t)
    BY <2>4 DEF RefusePassport, Return
  <2>5. CASE CloseCheck(t)
    BY <2>5 DEF CloseCheck, Return
  <2>6. CASE CloseClient(t)
    BY <2>6 DEF CloseClient, Return
  <2>7. CASE CloseClear(t)
    BY <2>7, ClientsAssumption DEF CloseClear, Return
  <2>8. CASE PickClient(t)
    BY <2>8, ClientsAssumption DEF PickClient, Fresh
  <2>9. CASE TakeClient(t)
    <3>1. /\ scoped /\ pc[t] = "take" /\ UNCHANGED <<current, open>>
          /\ pc' = [pc EXCEPT ![t] = "send"]
          /\ client' = [client EXCEPT ![t] = current]
      BY <2>9 DEF TakeClient
    <3>2. current # None
      BY <3>1
    <3>3. \A u \in Threads : ~ Closing(u)
      BY <3>1
    <3>4. current \in open
      <4>1. CurrentOpen
        BY <3>1
      <4> QED
        BY <4>1, <3>2, <3>3
    <3>5. \A u \in Threads : ~ Closing(u)' /\ (InFlight(u)' <=> u = t \/ InFlight(u))
      BY <3>1, <3>3
    <3>6. \A u \in Threads : InFlight(u)' => client'[u] = current
      BY <3>1, <3>2, <3>5
    <3>7. CloseAlone' /\ CurrentOpen'
      BY <3>1, <3>2, <3>4, <3>5
    <3>8. SharedOrOwn'
      BY <3>1, <3>2, <3>6
    <3>9. OpenReferred'
      <4>1. OpenReferred /\ client[t] = None
        BY <3>1
      <4> QED
        BY <4>1, <3>1, ClientsAssumption
    <3>10. \A u \in Threads : InFlight(u)' => client'[u] \in open'
      BY <3>1, <3>4, <3>6
    <3> QED
      BY <3>7, <3>8, <3>9, <3>10
  <2>10. CASE SendUnusable(t)
    <3>1. scoped /\ pc[t] = "send" /\ client[t] \notin open
      BY <2>10 DEF SendUnusable
    <3> QED
      BY <3>1
  <2>11. CASE Send(t) \/ Receive(t)
    <3>1. scoped /\ UNCHANGED <<current, open, client>>
      BY <2>11 DEF Send, Receive
    <3>2. /\ pc[t] \in {"send", "wait"}
          /\ \E l \in {"wait", "finally"} : pc' = [pc EXCEPT ![t] = l]
      BY <2>11 DEF Send, Receive
    <3>3. \A u \in Threads : Closing(u)' = Closing(u) /\ InFlight(u)' = InFlight(u)
      BY <3>2
    <3>4. client[t] \in open
      BY <3>1, <3>2
    <3> QED
      BY <3>1, <3>2, <3>3
  <2>12. CASE Finally(t)
    BY <2>12, ClientsAssumption DEF Finally, Return
  <2> QED
    BY <2>1, <2>2, <2>3, <2>4, <2>5, <2>6, <2>7, <2>8, <2>9, <2>10, <2>11, <2>12
    DEF Start, Continue
<1> QED
  BY <1>1, <1>2

\* The invariant is inductive.
LEMMA ClientInvInductive == Spec => []ClientInv
<1>1. Init => ClientInv
  BY ClientsAssumption
  DEF Init, ClientInv, TypeOK, HolderInFlight, ScopedInv, CloseAlone, CurrentOpen, SharedOrOwn,
      OpenReferred, InFlight, Closing, OthersIdle, At, Steps, Outcomes
<1>2. ClientInv /\ [Next]_vars => ClientInv'
  BY TypeStep, HolderStep, ScopedStep DEF ClientInv
<1> QED
  BY <1>1, <1>2, PTL DEF Spec

-----------------------------------------------------------------------------
(* Every variable keeps its shape, whatever threads do to the object and    *)
(* whatever the server answers.                                             *)
THEOREM TypeCorrect == Spec => []TypeOK
<1>1. ClientInv => TypeOK
  BY DEF ClientInv
<1> QED
  BY <1>1, ClientInvInductive, PTL

(* Threads may share the object for requests: none is sent on a client that *)
(* is None or that another thread has closed.                               *)
THEOREM SharingIsSafe == Spec => []RequestsHaveOpenClient
<1>1. ClientInv => RequestsHaveOpenClient
  BY DEF ClientInv, ScopedInv, RequestsHaveOpenClient, InFlight
<1> QED
  BY <1>1, ClientInvInductive, PTL

(* No httpx client is lost, so at most one per request and the shared one   *)
(* are open at any time.                                                    *)
THEOREM ClientsAreClosed == Spec => []NoClientLost
<1>1. ASSUME ClientInv PROVE NoClientLost
  <2> SUFFICES ASSUME scoped, NEW c \in open, c # current
      PROVE  \E t \in Threads : client[t] = c /\ \A u \in Threads \ {t} : client[u] # c
    BY DEF NoClientLost
  <2>1. PICK t \in Threads : client[t] = c
    BY <1>1 DEF ClientInv, ScopedInv, OpenReferred
  <2>2. c # None
    BY <1>1, ClientsAssumption DEF ClientInv, TypeOK
  <2>3. \A u \in Threads : client[u] = c => InFlight(u)
    BY <1>1, <2>2 DEF ClientInv, HolderInFlight
  <2>4. current = None
    BY <1>1, <2>1, <2>3 DEF ClientInv, ScopedInv, SharedOrOwn
  <2>5. \A u \in Threads \ {t} : client[u] # c
    BY <1>1, <2>1, <2>3, <2>4 DEF ClientInv, ScopedInv, SharedOrOwn
  <2> QED
    BY <2>1, <2>5
<1> QED
  BY <1>1, ClientInvInductive, PTL

(* While enter and close are alone, sharing is never the reason of an       *)
(* error: what is not a NetworkError was made of an answer.                 *)
THEOREM SharingRaisesNothing == Spec => SharingNeverRaises
<1>1. ASSUME ClientInv, [Next]_vars, scoped',
             NEW t \in Threads, outcome'[t] # outcome[t], ~ At(t, "wait")
      PROVE  outcome'[t] \in {"new", "ok", "NetworkError"}
  <2> USE <1>1 DEF ClientInv, TypeOK, Goto, At
  <2>1. Next
    BY DEF vars
  <2> PICK u \in Threads : Start(u) \/ Continue(u)
    BY <2>1 DEF Next
  <2>2. CASE Start(u)
    BY <2>2 DEF Start, Enter, BeginClose, Begin, RefusePassport, Return
  <2>3. CASE CloseCheck(u) \/ CloseClear(u)
    BY <2>3 DEF CloseCheck, CloseClear, Return
  <2>4. CASE CloseClient(u)
    BY <2>4 DEF CloseClient, ScopedInv, CurrentOpen
  <2>5. CASE SendUnusable(u)
    BY <2>5 DEF SendUnusable, ScopedInv, InFlight
  <2>6. CASE PickClient(u) \/ TakeClient(u) \/ Send(u)
    BY <2>6 DEF PickClient, TakeClient, Send
  <2>7. CASE Receive(u)
    <3>1. PICK r : outcome' = [outcome EXCEPT ![u] = r]
      BY <2>7 DEF Receive
    <3>2. u # t
      BY <2>7 DEF Receive
    <3> QED
      BY <3>1, <3>2
  <2>8. CASE Finally(u)
    BY <2>8 DEF Finally, Return
  <2> QED
    BY <2>2, <2>3, <2>4, <2>5, <2>6, <2>7, <2>8 DEF Continue
<1>2. ClientInv /\ [Next]_vars =>
        [\A t \in Threads :
           scoped' /\ outcome'[t] # outcome[t] /\ ~ At(t, "wait")
              => outcome'[t] \in {"new", "ok", "NetworkError"}]_outcome
  BY <1>1
<1> QED
  BY <1>2, ClientInvInductive, PTL DEF Spec, SharingNeverRaises

-----------------------------------------------------------------------------
(* The refinement of ClientPool *)

\* Each step is one of the pool, or none, unless an enter or a close overlaps.
LEMMA PoolStep ==
    ASSUME ClientInv, [Next]_vars, scoped'
    PROVE  Pool!Next \/ UNCHANGED <<Shared, open, client>>
<1> USE DEF ClientInv, TypeOK, Goto, At
<1>1. CASE UNCHANGED vars
  BY <1>1 DEF vars, Shared
<1>2. CASE Next
  <2> PICK t \in Threads : Start(t) \/ Continue(t)
    BY <1>2 DEF Next
  <2> DEFINE Clear == \E u \in Threads : pc[u] = "clear"
  <2>1. scoped
    BY DEF Start, Continue, Enter, BeginClose, Begin, RefusePassport, CloseCheck, CloseClient,
           CloseClear, PickClient, TakeClient, SendUnusable, Send, Receive, Finally
  <2>2. /\ \A u \in Threads : Closing(u) => OthersIdle(u)
        /\ ~ Clear => current \in open \cup {None}
        /\ \A u \in Threads : pc[u] \in {"closing", "take"} => current # None
        /\ \A u \in Threads : InFlight(u) => client[u] \in open
        /\ current # None => \A u \in Threads : InFlight(u) => client[u] = current
        /\ current = None =>
              \A u, v \in Threads : u # v /\ InFlight(u) /\ InFlight(v) => client[u] # client[v]
        /\ \A u \in Threads : ~ InFlight(u) => client[u] = None
    BY <2>1 DEF ScopedInv, CloseAlone, CurrentOpen, SharedOrOwn, HolderInFlight
  \* Where no close is at its last step, the shared client is self._client.
  <2>3. ~ Clear => Shared = current
    BY DEF Shared
  <2>4. (\A u \in Threads : pc'[u] # "clear") => Shared' = current'
    BY DEF Shared
  <2>5. CASE Enter(t)
    <3>1. PICK c \in Fresh : current' = c /\ open' = open \cup {c}
      BY <2>5 DEF Enter
    <3>2. current = None /\ OthersIdle(t) /\ pc[t] = "idle" /\ UNCHANGED <<pc, client>>
      BY <2>5 DEF Enter
    <3>3. ~ Clear /\ \A u \in Threads : client[u] = None
      BY <2>2, <3>2 DEF OthersIdle, InFlight
    <3>4. c \in Clients \ open
      BY <3>1 DEF Fresh
    <3>5. Shared = None /\ Shared' = c
      BY <2>3, <2>4, <3>1, <3>2, <3>3
    <3>6. Pool!Open
      BY <3>1, <3>2, <3>3, <3>4, <3>5 DEF Pool!Open, Pool!NoLease
    <3> QED BY <3>6 DEF Pool!Next
  <2>6. CASE BeginClose(t) \/ (\E m \in Methods : Begin(t, m)) \/ RefusePassport(t) \/ CloseCheck(t)
    <3>1. /\ UNCHANGED <<current, open>>
          /\ \A u \in Threads : pc[u] = "clear" <=> pc'[u] = "clear"
          /\ client' = client
      <4>1. client[t] = None
        BY <2>2, <2>6 DEF BeginClose, Begin, RefusePassport, CloseCheck, InFlight
      <4>2. CASE BeginClose(t) \/ \E m \in Methods : Begin(t, m)
        BY <4>2 DEF BeginClose, Begin
      <4>3. CASE RefusePassport(t) \/ CloseCheck(t)
        BY <4>1, <4>3 DEF RefusePassport, CloseCheck, Return
      <4> QED BY <2>6, <4>2, <4>3
    <3>2. Shared' = Shared
      BY <3>1 DEF Shared
    <3> QED BY <3>1, <3>2
  <2>7. CASE CloseClient(t)
    <3>1. /\ pc[t] = "closing" /\ current # None
      BY <2>2, <2>7 DEF CloseClient
    <3>2. /\ open' = open \ {current} /\ pc' = [pc EXCEPT ![t] = "clear"]
          /\ UNCHANGED <<client, current>>
      BY <2>7, <3>1 DEF CloseClient
    <3>3. ~ Clear /\ \A u \in Threads : client[u] = None
      BY <2>2, <3>1 DEF OthersIdle, InFlight, Closing
    <3>4. Shared = current /\ Shared' = None
      BY <2>3, <3>2, <3>3 DEF Shared
    <3>5. Pool!Close
      BY <3>1, <3>2, <3>3, <3>4 DEF Pool!Close, Pool!NoLease
    <3> QED BY <3>5 DEF Pool!Next
  <2>8. CASE CloseClear(t)
    <3>1. /\ pc[t] = "clear" /\ current' = None /\ pc' = [pc EXCEPT ![t] = "idle"]
          /\ client' = [client EXCEPT ![t] = None] /\ open' = open
      BY <2>8 DEF CloseClear, Return
    <3>2. client' = client
      BY <2>2, <3>1 DEF InFlight
    <3>3. Shared = None /\ Shared' = None
      BY <3>1 DEF Shared
    <3> QED BY <3>1, <3>2, <3>3
  \* The steps of a request find no close at work.
  <2>9. pc[t] \in {"pick", "take", "send", "wait", "finally"} => ~ Clear
    BY <2>2 DEF Closing, OthersIdle
  <2>10. CASE PickClient(t)
    <3>1. pc[t] = "pick" /\ current' = current /\ ~ Clear /\ client[t] = None
      BY <2>2, <2>9, <2>10 DEF PickClient, InFlight
    <3>2. \A u \in Threads : pc'[u] # "clear"
      BY <2>10, <3>1 DEF PickClient
    <3>3. Shared = current /\ Shared' = current
      BY <2>3, <2>4, <3>1, <3>2
    <3>4. CASE current # None
      BY <2>10, <3>3, <3>4 DEF PickClient
    <3>5. CASE current = None
      <4>1. PICK c \in Fresh : open' = open \cup {c} /\ client' = [client EXCEPT ![t] = c]
        BY <2>10, <3>5 DEF PickClient
      <4>2. c \in Clients \ open
        BY DEF Fresh
      <4>3. Pool!BorrowOwn(t)
        BY <3>1, <3>3, <3>5, <4>1, <4>2 DEF Pool!BorrowOwn
      <4> QED BY <4>3 DEF Pool!Next
    <3> QED BY <3>4, <3>5
  <2>11. CASE TakeClient(t)
    <3>1. /\ pc[t] = "take" /\ pc' = [pc EXCEPT ![t] = "send"]
          /\ client' = [client EXCEPT ![t] = current] /\ UNCHANGED <<current, open>>
      BY <2>11 DEF TakeClient
    <3>2. ~ Clear /\ client[t] = None /\ current # None
      BY <2>2, <2>9, <3>1 DEF InFlight
    <3>3. Shared = current /\ Shared' = current
      BY <2>3, <2>4, <3>1, <3>2
    <3>4. Pool!BorrowShared(t)
      BY <3>1, <3>2, <3>3 DEF Pool!BorrowShared
    <3> QED BY <3>4 DEF Pool!Next
  <2>12. CASE SendUnusable(t)
    BY <2>2, <2>12 DEF SendUnusable, InFlight
  <2>13. CASE Send(t) \/ Receive(t)
    <3>1. /\ UNCHANGED <<current, open, client>>
          /\ \A u \in Threads : pc[u] = "clear" <=> pc'[u] = "clear"
      BY <2>13 DEF Send, Receive
    <3>2. Shared' = Shared
      BY <3>1 DEF Shared
    <3> QED BY <3>1, <3>2
  <2>14. CASE Finally(t)
    <3>1. /\ pc[t] = "finally" /\ pc' = [pc EXCEPT ![t] = "idle"]
          /\ client' = [client EXCEPT ![t] = None] /\ current' = current
          /\ open' = IF current = None THEN open \ {client[t]} ELSE open
      BY <2>14 DEF Finally, Return
    <3>2. ~ Clear /\ client[t] \in open /\ client[t] # None
      BY <2>2, <2>9, <3>1, ClientsAssumption DEF InFlight
    <3>3. Shared = current /\ Shared' = current
      BY <2>3, <2>4, <3>1, <3>2
    <3>4. open' = open \ ({client[t]} \ {current})
      <4>1. current # None => client[t] = current
        BY <2>2, <3>1 DEF InFlight
      <4>2. CASE current = None
        BY <3>1, <3>2, <4>2
      <4>3. CASE current # None
        BY <3>1, <4>1, <4>3
      <4> QED BY <4>2, <4>3
    <3>5. Pool!GiveBack(t)
      BY <3>1, <3>2, <3>3, <3>4 DEF Pool!GiveBack
    <3> QED BY <3>5 DEF Pool!Next
  <2> QED
    BY <2>5, <2>6, <2>7, <2>8, <2>10, <2>11, <2>12, <2>13, <2>14 DEF Start, Continue
<1> QED BY <1>1, <1>2

(* As long as enter and close are alone, the object is a ClientPool for any *)
(* number of threads: every request borrows one client and gives it back.   *)
THEOREM SharingIsAPool == Spec => IsPool
<1>1. Init => Pool!Init
  BY DEF Init, Pool!Init, Shared
<1>2. ClientInv /\ [Next]_vars => [scoped' => Pool!Next]_(Pool!pvars)
  BY PoolStep DEF Pool!pvars
<1> QED BY <1>1, <1>2, ClientInvInductive, PTL DEF Spec, IsPool

-----------------------------------------------------------------------------
(* How long a call can take.  The prover does neither fairness nor ENABLED, *)
(* but CallsReturn rests on this: a call has a number of steps before it    *)
(* that its own steps lower and nobody else's step touches.                 *)

\* The steps a call may still take.
Left(t) ==
    CASE pc[t] = "pick"    -> 5
      [] pc[t] = "take"    -> 4
      [] pc[t] = "send"    -> 3
      [] pc[t] = "wait"    -> 2
      [] pc[t] = "finally" -> 1
      [] pc[t] = "close"   -> 3
      [] pc[t] = "closing" -> 2
      [] pc[t] = "clear"   -> 1
      [] OTHER             -> 0

(***************************************************************************)
(* Each step of a call in _client.py brings its end nearer, and no step of *)
(* another thread puts it off: neither a request, whatever the server      *)
(* answers, nor a close has a loop or a retry in it.  So a call that is    *)
(* scheduled is over after at most five steps of its own.                  *)
(***************************************************************************)
CallsAreShort ==
    [][\A t \in Threads : ~ At(t, "idle") =>
          IF Continue(t) THEN Left(t)' < Left(t) ELSE Left(t)' = Left(t)]_vars

(* Requests and closes of any number of threads that share the object.     *)
THEOREM CallsEndInFiveSteps == Spec => CallsAreShort
<1>1. ASSUME TypeOK, Next
      PROVE  \A t \in Threads : ~ At(t, "idle") =>
                IF Continue(t) THEN Left(t)' < Left(t) ELSE Left(t)' = Left(t)
  <2> TAKE t \in Threads
  <2> HAVE ~ At(t, "idle")
  <2> USE <1>1 DEF TypeOK, Left, Goto, At
  <2>1. CASE Continue(t)
    <3>1. CASE CloseCheck(t) \/ CloseClient(t) \/ CloseClear(t)
      BY <3>1, <2>1 DEF CloseCheck, CloseClient, CloseClear, Return
    <3>2. CASE PickClient(t) \/ TakeClient(t)
      BY <3>2, <2>1 DEF PickClient, TakeClient
    <3>3. CASE SendUnusable(t) \/ Send(t)
      BY <3>3, <2>1 DEF SendUnusable, Send, Return
    <3>4. CASE Receive(t) \/ Finally(t)
      BY <3>4, <2>1 DEF Receive, Finally, Return
    <3> QED
      BY <2>1, <3>1, <3>2, <3>3, <3>4 DEF Continue
  <2>2. CASE ~ Continue(t)
    <3>1. PICK u \in Threads : Start(u) \/ Continue(u)
      BY <1>1 DEF Next
    <3>2. u # t
      BY <2>2, <3>1 DEF Start, Enter, BeginClose, Begin, RefusePassport
    <3>3. pc'[t] = pc[t]
      BY <3>1, <3>2 DEF Start, Continue, Enter, BeginClose, Begin, RefusePassport, CloseCheck,
         CloseClient, CloseClear, PickClient, TakeClient, SendUnusable, Send, Receive, Finally,
         Return
    <3> QED
      BY <2>2, <3>3
  <2> QED
    BY <2>1, <2>2
<1> QED
  BY <1>1, TypeCorrect, PTL DEF Spec, CallsAreShort
=============================================================================
