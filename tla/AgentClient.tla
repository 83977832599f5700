---------------------------- MODULE AgentClient ----------------------------
(***************************************************************************)
(* The HTTPS client of the Python SDK (sdk/aiegis_agent/_client.py).       *)
(*                                                                         *)
(* An AiegisClient holds one piece of state, self._client: the httpx       *)
(* client that the with statement installed, or None.  _post uses it if it *)
(* is there and makes a client of its own otherwise, and after the request *)
(* looks at self._client again to decide whether the one it used was its   *)
(* own.  There is no lock, so every read and write of self._client is a    *)
(* step here, and the steps of threads that share the object interleave.   *)
(*                                                                         *)
(* Data kept abstract: URLs, headers, request bodies and the fields of the *)
(* answers.  An answer is a status class and a kind of body.  A closed     *)
(* httpx client that nothing refers to is as good as one never made, so    *)
(* Clients is a finite pool that is used again.                            *)
(***************************************************************************)
EXTENDS Integers, FiniteSets

CONSTANTS
    Threads,    \* callers that share one AiegisClient
    Methods,    \* the methods they call in this instance
    Clients,    \* httpx.Client objects
    None        \* Python's None

ASSUME ClientsAssumption == IsFiniteSet(Clients) /\ None \notin Clients

ASSUME ThreadsAssumption == IsFiniteSet(Threads)

Posts == {"request_challenge", "issue_passport", "verify_passport"}

ASSUME MethodsAssumption == Methods \subseteq Posts

VARIABLES
    current,    \* self._client
    open,       \* the httpx clients that were made and not closed
    pc,         \* the step each thread is about to take
    client,     \* the local variable of _post: the httpx client in use
    call,       \* the method a thread is in
    outcome,    \* how its last call ended; in a call, what the answer will make of it
    scoped      \* history: no enter or close has overlapped another call

vars == <<current, open, pc, client, call, outcome, scoped>>

\* "huge": an integer field holds a JSON number that int() cannot convert;
\* "undecodable": the bytes are no text in the encoding they are taken for.
Answers == [status : {"2xx", "4xx", "5xx"},
            body   : {"complete", "huge", "incomplete", "not an object", "not JSON",
                       "undecodable"}]

Steps == {"idle", "pick", "take", "send", "wait", "finally", "close", "closing", "clear"}

Outcomes == {"new", "ok", "NetworkError", "AttributeError", "OverflowError", "RuntimeError",
             "UnicodeDecodeError"}

(***************************************************************************)
(* The type invariant.                                                     *)
(***************************************************************************)
TypeOK ==
    /\ current \in Clients \cup {None}
    /\ open \subseteq Clients
    /\ pc \in [Threads -> Steps]
    /\ client \in [Threads -> Clients \cup {None}]
    /\ call \in [Threads -> Posts \cup {None}]
    /\ outcome \in [Threads -> Outcomes]
    /\ scoped \in BOOLEAN

Init ==
    /\ current = None
    /\ open = {}
    /\ pc = [t \in Threads |-> "idle"]
    /\ client = [t \in Threads |-> None]
    /\ call = [t \in Threads |-> None]
    /\ outcome = [t \in Threads |-> "new"]
    /\ scoped = TRUE

-----------------------------------------------------------------------------
At(t, l) == pc[t] = l

Goto(t, l) == pc' = [pc EXCEPT ![t] = l]

OthersIdle(t) == \A u \in Threads \ {t} : At(u, "idle")

Closing(t) == pc[t] \in {"close", "closing", "clear"}

\* Clients a new httpx.Client() may be: never made, or closed and forgotten.
Fresh == {c \in Clients : c \notin open /\ c # current /\ \A t \in Threads : client[t] # c}

\* Bound: a client is left for every thread that may make one.
ClientLeft ==
    Cardinality({t \in Threads : At(t, "pick")}) < Cardinality(Fresh)

\* The frame of a call is gone when it returns.
Return(t, r) ==
    /\ Goto(t, "idle")
    /\ client' = [client EXCEPT ![t] = None]
    /\ call' = [call EXCEPT ![t] = None]
    /\ outcome' = [outcome EXCEPT ![t] = r]

-----------------------------------------------------------------------------
(* The context manager. *)

\* A client that was there is overwritten, not closed.
Enter(t) ==
    /\ At(t, "idle")
    /\ ClientLeft
    /\ \E c \in Fresh :
          /\ current' = c
          /\ open' = open \cup {c}
    /\ scoped' = (scoped /\ OthersIdle(t) /\ current = None)
    /\ UNCHANGED <<pc, client, call, outcome>>

\* __exit__, or close() called directly.
BeginClose(t) ==
    /\ At(t, "idle")
    /\ Goto(t, "close")
    /\ outcome' = [outcome EXCEPT ![t] = "new"]
    /\ scoped' = (scoped /\ OthersIdle(t))
    /\ UNCHANGED <<current, open, client, call>>

\* Mutant: close takes it for granted that there is a client.
CloseUnchecked(t) ==
    /\ At(t, "close")
    /\ Goto(t, "closing")
    /\ UNCHANGED <<current, open, client, call, outcome, scoped>>

CloseCheck(t) ==
    /\ At(t, "close")
    /\ \/ current = None /\ Return(t, "ok")
       \/ current # None /\ Goto(t, "closing") /\ UNCHANGED <<client, call, outcome>>
    /\ UNCHANGED <<current, open, scoped>>

CloseClient(t) ==
    /\ At(t, "closing")
    /\ \/ /\ current = None
          /\ Return(t, "AttributeError")
          /\ UNCHANGED open
       \/ /\ current # None
          /\ open' = open \ {current}
          /\ Goto(t, "clear")
          /\ UNCHANGED <<client, call, outcome>>
    /\ UNCHANGED <<current, scoped>>

CloseClear(t) ==
    /\ At(t, "clear")
    /\ current' = None
    /\ Return(t, "ok")
    /\ UNCHANGED <<open, scoped>>

-----------------------------------------------------------------------------
(* A request. *)

Begin(t, m) ==
    /\ At(t, "idle")
    /\ ClientLeft
    /\ Goto(t, "pick")
    /\ call' = [call EXCEPT ![t] = m]
    /\ outcome' = [outcome EXCEPT ![t] = "new"]
    /\ scoped' = (scoped /\ ~ \E u \in Threads : Closing(u))
    /\ UNCHANGED <<current, open, client>>

\* issue_passport checks the risk class and the five pillars before it posts.
RefusePassport(t) ==
    /\ At(t, "idle")
    /\ Return(t, "NetworkError")
    /\ UNCHANGED <<current, open, scoped>>

\* Mutant: the client made for a request stays with the object.
PickAndKeep(t) ==
    /\ At(t, "pick")
    /\ \/ /\ current # None
          /\ Goto(t, "take")
          /\ UNCHANGED <<current, open, client>>
       \/ /\ current = None
          /\ \E c \in Fresh :
                /\ current' = c
                /\ open' = open \cup {c}
                /\ client' = [client EXCEPT ![t] = c]
          /\ Goto(t, "send")
    /\ UNCHANGED <<call, outcome, scoped>>

\* The first read of self._client; without one a client is made for this request.
PickClient(t) ==
    /\ At(t, "pick")
    /\ \/ /\ current # None
          /\ Goto(t, "take")
          /\ UNCHANGED <<open, client>>
       \/ /\ current = None
          /\ \E c \in Fresh :
                /\ open' = open \cup {c}
                /\ client' = [client EXCEPT ![t] = c]
          /\ Goto(t, "send")
    /\ UNCHANGED <<current, call, outcome, scoped>>

\* Mutant: a client that is handed out counts as open.
TakeOpened(t) ==
    /\ At(t, "take")
    /\ client' = [client EXCEPT ![t] = current]
    /\ open' = open \cup {current}
    /\ Goto(t, "send")
    /\ UNCHANGED <<current, call, outcome, scoped>>

\* The second read: what is returned may be another client, or None, by now.
TakeClient(t) ==
    /\ At(t, "take")
    /\ client' = [client EXCEPT ![t] = current]
    /\ Goto(t, "send")
    /\ UNCHANGED <<current, open, call, outcome, scoped>>

\* httpx refuses a client that is closed with RuntimeError, and None has no
\* post: neither is an httpx.HTTPError.  The finally clause runs all the same,
\* and calling close on None raises the same AttributeError again.
SendUnusable(t) ==
    /\ At(t, "send")
    /\ client[t] \notin open
    /\ Return(t, IF client[t] = None THEN "AttributeError" ELSE "RuntimeError")
    /\ UNCHANGED <<current, open, scoped>>

Send(t) ==
    /\ At(t, "send")
    /\ client[t] \in open
    /\ Goto(t, "wait")
    /\ UNCHANGED <<current, open, client, call, outcome, scoped>>

\* What _post and the method make of an answer.
Reads(m, r) ==
    CASE r.status = "5xx" -> "NetworkError"
      [] r.body = "undecodable" -> "UnicodeDecodeError"
      [] r.status = "4xx" -> IF r.body = "not an object" THEN "AttributeError" ELSE "NetworkError"
      [] r.status = "2xx" ->
            CASE r.body = "complete" -> "ok"
              [] r.body = "huge"     -> IF m = "verify_passport" THEN "ok" ELSE "OverflowError"
              [] OTHER               -> "NetworkError"

\* An answer, or an httpx.HTTPError: no connection, a broken stream, or at the
\* latest the timeout.
Receive(t) ==
    /\ At(t, "wait")
    /\ \E r \in {"NetworkError"} \cup {Reads(call[t], a) : a \in Answers} :
          outcome' = [outcome EXCEPT ![t] = r]
    /\ Goto(t, "finally")
    /\ UNCHANGED <<current, open, client, call, scoped>>

\* Mutant: the client is closed whoever made it.
CloseAlways(t) ==
    /\ At(t, "finally")
    /\ open' = open \ {client[t]}
    /\ Return(t, outcome[t])
    /\ UNCHANGED <<current, scoped>>

\* Mutant: no finally clause; an error leaves the client open.
CloseOnAnswer(t) ==
    /\ At(t, "finally")
    /\ open' = IF current = None /\ outcome[t] # "NetworkError" THEN open \ {client[t]} ELSE open
    /\ Return(t, outcome[t])
    /\ UNCHANGED <<current, scoped>>

\* Mutant: a request that failed is sent again, without a limit.
RetryForever(t) ==
    /\ At(t, "finally")
    /\ \/ /\ outcome[t] = "NetworkError"
          /\ Goto(t, "send")
          /\ UNCHANGED <<open, client, call, outcome>>
       \/ /\ outcome[t] # "NetworkError"
          /\ open' = IF current = None THEN open \ {client[t]} ELSE open
          /\ Return(t, outcome[t])
    /\ UNCHANGED <<current, scoped>>

\* The third read of self._client: None now means that the client in use was
\* made for this request.  The rest of the call touches nothing shared.
Finally(t) ==
    /\ At(t, "finally")
    /\ open' = IF current = None THEN open \ {client[t]} ELSE open
    /\ Return(t, outcome[t])
    /\ UNCHANGED <<current, scoped>>

-----------------------------------------------------------------------------
Start(t) ==
    \/ Enter(t)
    \/ BeginClose(t)
    \/ \E m \in Methods : Begin(t, m)
    \/ RefusePassport(t)

Continue(t) ==
    \/ CloseCheck(t)
    \/ CloseClient(t)
    \/ CloseClear(t)
    \/ PickClient(t)
    \/ TakeClient(t)
    \/ SendUnusable(t)
    \/ Send(t)
    \/ Receive(t)
    \/ Finally(t)

Next == \E t \in Threads : Start(t) \/ Continue(t)

Spec == Init /\ [][Next]_vars

\* Threads are scheduled, and every request ends: _timeout bounds the wait.
FairSpec == Spec /\ \A t \in Threads : WF_vars(Continue(t))

-----------------------------------------------------------------------------
(***************************************************************************)
(* As long as enter and close have been alone on the object, threads may   *)
(* share it for requests: no request is sent on, or waits on, a client     *)
(* that is None or that another thread has closed.                         *)
(***************************************************************************)
RequestsHaveOpenClient ==
    scoped => \A t \in Threads : pc[t] \in {"send", "wait", "finally"} => client[t] \in open

(***************************************************************************)
(* And no client is lost: each open one is the shared one, or the one of a *)
(* single request that is still to close it.  When all calls are over and  *)
(* the object is closed, nothing is left open, whatever the answers were.  *)
(***************************************************************************)
NoClientLost ==
    scoped => \A c \in open :
        \/ c = current
        \/ \E t \in Threads : client[t] = c /\ \A u \in Threads \ {t} : client[u] # c

(***************************************************************************)
(* Then a call that ends in another error than NetworkError got an answer  *)
(* that made it do so: nothing of this kind comes from other callers'      *)
(* requests, from a second close, or from a request after the close.       *)
(***************************************************************************)
SharingNeverRaises ==
    [][\A t \in Threads :
         scoped' /\ outcome'[t] # outcome[t] /\ ~ At(t, "wait")
            => outcome'[t] \in {"new", "ok", "NetworkError"}]_outcome

\* The pool's view: the shared client is gone once close has closed it.
Shared == IF \E t \in Threads : At(t, "clear") THEN None ELSE current

Pool == INSTANCE ClientPool WITH shared <- Shared, alive <- open, lease <- client

(***************************************************************************)
(* As long as enter and close have been alone, the object is a ClientPool: *)
(* the three reads of self._client that a request makes, with the steps of *)
(* other requests between them, come to one loan of one client, and no     *)
(* request changes what the next one finds.                                *)
(***************************************************************************)
IsPool == Pool!Init /\ [][scoped' => Pool!Next]_(Pool!pvars)

(***************************************************************************)
(* Every call returns, however the threads interleave and whether or not   *)
(* the server answers.                                                     *)
(***************************************************************************)
CallsReturn == \A t \in Threads : ~ At(t, "idle") ~> At(t, "idle")
=============================================================================
