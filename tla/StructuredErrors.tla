-------------------------- MODULE StructuredErrors --------------------------
(***************************************************************************)
(* The structured errors of the bundle generator and of the substrate      *)
(* verifiers: compliance-bundle/errors.py, of which                        *)
(* substrate-pack/vendored_errors/errors.py is a copy.                     *)
(*                                                                         *)
(* Library code makes errors and raises them; they pass through frames on  *)
(* their way to a handler, which copies them (pickle, copy), reads them    *)
(* (to_dict), and may try to change them.                                  *)
(*                                                                         *)
(* Data kept abstract: a text is a sequence of kinds of characters.  The   *)
(* instance attributes that matter are code, detail and _frozen; one that  *)
(* was deleted is Unset.                                                   *)
(***************************************************************************)
EXTENDS Integers, Sequences

CONSTANTS
    Objects,        \* the error objects a program may have
    Codes,          \* members of ErrorCode
    NotCode,        \* what a call site may pass in their place
    Raws,           \* the details that call sites and others write
    TypeNames,      \* names of exception types
    Messages,       \* messages of exceptions
    MAX_DETAIL_LEN,
    TRUNC_MARKER,
    Unset

Characters == {"letter", "space", "control", "of a message"}

Classes == {"IdentityError", "SubstrateError"}

ASSUME TextsAssumption ==
    /\ Raws \subseteq Seq({"letter", "space", "control"})
    /\ TypeNames \subseteq Seq({"letter"})
    /\ Messages \subseteq Seq(Characters)
    /\ TRUNC_MARKER \in Seq({"letter", "space"})
    /\ MAX_DETAIL_LEN \in Nat
    /\ Len(TRUNC_MARKER) <= MAX_DETAIL_LEN

\* An attribute that was deleted is Unset.
Errors ==
    [class : Classes, code : Codes \cup {Unset}, detail : Seq(Characters) \cup {Unset},
     frozen : {TRUE, Unset}]

ASSUME NamesAssumption ==
    /\ NotCode \notin Codes
    /\ Unset \notin Codes \cup Errors

VARIABLES
    err,        \* the attributes of each object, or Unset
    opened,     \* history: objects from which somebody deleted an attribute
    source,     \* history: what each object was made from
    flight      \* the error that is on its way to a handler, and as what

errVars == <<err, opened, source, flight>>

-----------------------------------------------------------------------------
(* _sanitize_detail *)

Cleaned(raw) == [i \in DOMAIN raw |-> IF raw[i] = "control" THEN "space" ELSE raw[i]]

\* Mutant: the cut does not leave room for the marker.
CutAtCap(text) ==
    IF Len(text) > MAX_DETAIL_LEN
    THEN SubSeq(text, 1, MAX_DETAIL_LEN) \o TRUNC_MARKER
    ELSE text

Cut(text) ==
    IF Len(text) > MAX_DETAIL_LEN
    THEN SubSeq(text, 1, MAX_DETAIL_LEN - Len(TRUNC_MARKER)) \o TRUNC_MARKER
    ELSE text

Sanitized(raw) == Cut(Cleaned(raw))

-----------------------------------------------------------------------------
(* The objects. *)

\* __init__ goes round the guard of __setattr__, and sets _frozen last.
New(class, code, raw) ==
    [class |-> class, code |-> code, detail |-> IF raw = Unset THEN <<>> ELSE Sanitized(raw),
     frozen |-> TRUE]

NoFlight == [object |-> Unset, as |-> "nothing"]

ErrInit ==
    /\ err = [o \in Objects |-> Unset]
    /\ opened = {}
    /\ source = [o \in Objects |-> Unset]
    /\ flight = NoFlight

Free(o) == err[o] = Unset

\* Mutant: the code is taken as it comes.
AnyCode(code) == TRUE

IsCode(code) == code \in Codes

\* IdentityError(code, detail): a code that is none raises TypeError instead.
Raise(o, class, code, raw) ==
    /\ Free(o)
    /\ flight = NoFlight
    /\ IF IsCode(code)
       THEN /\ err' = [err EXCEPT ![o] = New(class, code, raw)]
            /\ flight' = [object |-> o, as |-> class]
       ELSE /\ flight' = [object |-> Unset, as |-> "TypeError"]
            /\ UNCHANGED err
    /\ UNCHANGED <<opened, source>>

\* Mutant: the exception's message makes the detail.
MessageOf(name, message) == message

DetailOf(name, message) == name

\* from_exception
FromException(o, class, name, message) ==
    /\ Free(o)
    /\ flight = NoFlight
    /\ \E code \in Codes : err' = [err EXCEPT ![o] = New(class, code, DetailOf(name, message))]
    /\ flight' = [object |-> o, as |-> class]
    /\ UNCHANGED <<opened, source>>

\* Mutant: __reduce__ names the base class.
BaseReduce(e) == New("IdentityError", e.code, e.detail)

\* What __reduce__ has pickle and copy call.
Reduce(e) == New(e.class, e.code, e.detail)

Data(e) == [class |-> e.class, code |-> e.code, detail |-> e.detail]

\* An error that has lost its code or its detail cannot be reduced.
Copy(o, p) ==
    /\ ~ Free(o) /\ Free(p)
    /\ Unset \notin {err[o].code, err[o].detail}
    /\ err' = [err EXCEPT ![p] = Reduce(err[o])]
    /\ source' = [source EXCEPT ![p] = Data(err[o])]
    /\ UNCHANGED <<opened, flight>>

Attributes == {"code", "detail", "frozen"}

\* Mutant: there is no __setattr__.
AnyTime(o) == TRUE

\* The guard of __setattr__: getattr(self, "_frozen", False).
Settable(o) == err[o].frozen # TRUE

\* e.detail = text; AttributeError, and nothing changes, if it is frozen.
SetDetail(o, text) ==
    /\ ~ Free(o)
    /\ Settable(o)
    /\ err' = [err EXCEPT ![o].detail = text]
    /\ UNCHANGED <<opened, source, flight>>

\* del e.name: nothing guards it.
Delete(o, name) ==
    /\ ~ Free(o)
    /\ err[o][name] # Unset
    /\ err' = [err EXCEPT ![o] = [@ EXCEPT ![name] = Unset]]
    /\ opened' = opened \cup {o}
    /\ UNCHANGED <<source, flight>>

\* The error leaves a frame: a function; a with statement over a
\* @contextmanager, whose __exit__ sets __traceback__ on the exception; a frame
\* that calls add_note, which sets __notes__.
LeavesFrame(sets) ==
    /\ flight.object # Unset
    /\ flight' = IF sets /\ ~ Settable(flight.object)
                 THEN [flight EXCEPT !.as = "AttributeError"] ELSE flight
    /\ UNCHANGED <<err, opened, source>>

Handle ==
    /\ flight # NoFlight
    /\ flight' = NoFlight
    /\ UNCHANGED <<err, opened, source>>

\* The program drops an object.
Forget(o) ==
    /\ ~ Free(o)
    /\ flight.object # o
    /\ err' = [err EXCEPT ![o] = Unset]
    /\ opened' = opened \ {o}
    /\ source' = [source EXCEPT ![o] = Unset]
    /\ UNCHANGED flight

ErrNext ==
    \/ \E o \in Objects, class \in Classes, code \in Codes \cup {NotCode}, raw \in Raws \cup {Unset} :
          Raise(o, class, code, raw)
    \/ \E o \in Objects, class \in Classes, name \in TypeNames, message \in Messages :
          FromException(o, class, name, message)
    \/ \E o, p \in Objects : Copy(o, p)
    \/ \E o \in Objects, text \in Raws : SetDetail(o, text)
    \/ \E o \in Objects, name \in Attributes : Delete(o, name)
    \/ \E sets \in BOOLEAN : LeavesFrame(sets)
    \/ Handle
    \/ \E o \in Objects : Forget(o)

ErrSpec == ErrInit /\ [][ErrNext]_errVars
-----------------------------------------------------------------------------
(***************************************************************************)
(* Every variable has its type: an object that has its code has one of     *)
(* ErrorCode.                                                              *)
(***************************************************************************)
ErrTypeOK ==
    /\ err \in [Objects -> Errors \cup {Unset}]
    /\ opened \subseteq Objects
    /\ source \in [Objects -> [class : Classes, code : Codes, detail : Seq(Characters)] \cup {Unset}]
    /\ flight \in [object : Objects \cup {Unset},
                  as : Classes \cup {"nothing", "TypeError", "AttributeError"}]

Safe(text) ==
    /\ Len(text) <= MAX_DETAIL_LEN
    /\ \A i \in DOMAIN text : text[i] \in {"letter", "space"}

(***************************************************************************)
(* "The detail string MUST NOT leak exception messages", no control        *)
(* characters, MAX_DETAIL_LEN at most: whatever was passed to the          *)
(* constructor or to from_exception, and although a copy goes through the  *)
(* constructor again, possibly with a detail somebody has set.  Only an    *)
(* object from which an attribute was deleted is on its own.               *)
(***************************************************************************)
DetailsAreSafe == \A o \in Objects \ opened : err[o] # Unset => Safe(err[o].detail)

(***************************************************************************)
(* A copy of an error is of its class and has its code, and its detail,    *)
(* cut or not, if that was safe: the second cleaning and cut of the same   *)
(* text change nothing (__reduce__).                                       *)
(***************************************************************************)
CopiesAgree ==
    \A p \in Objects \ opened : source[p] # Unset =>
        /\ err[p].class = source[p].class
        /\ err[p].code = source[p].code
        /\ Safe(source[p].detail) => err[p].detail = source[p].detail

(***************************************************************************)
(* "Attributes (.code, .detail) are frozen post-init": they stay what they *)
(* were as long as the object lives and nobody deletes an attribute of it. *)
(***************************************************************************)
FrozenUnlessOpened ==
    [][\A o \in Objects :
         err[o] # Unset /\ err'[o] # Unset /\ err'[o] # err[o] => o \in opened']_errVars

-----------------------------------------------------------------------------
(***************************************************************************)
(* "Integrators can catch SubstrateError specifically OR catch             *)
(* IdentityError to cover both": an error that was raised gets to the      *)
(* handler as what it is.                                                  *)
(***************************************************************************)
ErrorsArrive == flight.object # Unset => flight.as = err[flight.object].class
=============================================================================
