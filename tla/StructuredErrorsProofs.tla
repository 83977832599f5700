----------------------- MODULE StructuredErrorsProofs -----------------------
(***************************************************************************)
(* Proofs about StructuredErrors, for any texts, codes and objects, any    *)
(* cap and any marker that fits under it.                                  *)
(***************************************************************************)
EXTENDS StructuredErrors, TLAPS

Writable == {"letter", "space", "control"}

Clean == {"letter", "space"}

-----------------------------------------------------------------------------
(* _sanitize_detail *)

LEMMA CleanedIsClean ==
    ASSUME NEW raw \in Seq(Writable)
    PROVE  Cleaned(raw) \in Seq(Clean)
<1>1. \A i \in 1 .. Len(raw) : raw[i] \in Writable
  OBVIOUS
<1>2. Cleaned(raw) \in [1 .. Len(raw) -> Clean]
  BY <1>1 DEF Cleaned, Writable, Clean
<1> QED
  BY <1>2

LEMMA CutIsSafe ==
    ASSUME NEW text \in Seq(Clean)
    PROVE  Cut(text) \in Seq(Clean) /\ Len(Cut(text)) <= MAX_DETAIL_LEN
<1> DEFINE keep == MAX_DETAIL_LEN - Len(TRUNC_MARKER)
<1>1. TRUNC_MARKER \in Seq(Clean) /\ Len(TRUNC_MARKER) \in Nat
  BY TextsAssumption DEF Clean
<1>2. keep \in Nat /\ keep <= MAX_DETAIL_LEN
  BY <1>1, TextsAssumption
<1>3. CASE Len(text) > MAX_DETAIL_LEN
  <2>1. keep <= Len(text)
    BY <1>2, <1>3, TextsAssumption
  <2>2. SubSeq(text, 1, keep) \in Seq(Clean) /\ Len(SubSeq(text, 1, keep)) = keep
    BY <1>2, <2>1
  <2>3. Len(SubSeq(text, 1, keep) \o TRUNC_MARKER) = MAX_DETAIL_LEN
    BY <1>1, <1>2, <2>2, TextsAssumption
  <2> QED
    BY <1>1, <1>3, <2>2, <2>3, TextsAssumption DEF Cut
<1>4. CASE ~ (Len(text) > MAX_DETAIL_LEN)
  BY <1>4, TextsAssumption DEF Cut
<1> QED
  BY <1>3, <1>4

(* A text that is cleaned and short already passes through unchanged. *)
LEMMA SafeIsFixed ==
    ASSUME NEW text \in Seq(Writable), Safe(text)
    PROVE  Sanitized(text) = text
<1>1. Cleaned(text) = text
  <2>1. \A i \in DOMAIN text : text[i] # "control"
    BY DEF Safe
  <2> QED
    BY <2>1 DEF Cleaned
<1> QED
  BY <1>1, TextsAssumption DEF Sanitized, Cut, Safe

LEMMA SanitizedIsSafe ==
    ASSUME NEW raw \in Seq(Writable)
    PROVE  Sanitized(raw) \in Seq(Clean) /\ Safe(Sanitized(raw))
<1>1. Sanitized(raw) \in Seq(Clean) /\ Len(Sanitized(raw)) <= MAX_DETAIL_LEN
  BY CleanedIsClean, CutIsSafe DEF Sanitized
<1> QED
  BY <1>1 DEF Safe, Clean

-----------------------------------------------------------------------------
(* The objects. *)

\* What an object is as long as it has all its attributes.
Intact(e) ==
    /\ e.code \in Codes
    /\ e.detail \in Seq(Writable) /\ Safe(e.detail)
    /\ e.frozen = TRUE

\* Attributes are written by the constructor, by __setattr__ and by `del' alone.
Written ==
    [class : Classes, code : Codes \cup {Unset}, detail : Seq(Writable) \cup {Unset},
     frozen : {TRUE, Unset}]

ErrInv ==
    /\ ErrTypeOK
    /\ \A o \in Objects : err[o] # Unset =>
          err[o] \in Written /\ (o \notin opened => Intact(err[o]))
    /\ \A o \in Objects : err[o] = Unset => source[o] = Unset
    /\ CopiesAgree

LEMMA WritableTexts == Seq(Clean) \subseteq Seq(Writable) /\ Seq(Writable) \subseteq Seq(Characters)
<1>1. ASSUME NEW text \in Seq(Clean) PROVE text \in Seq(Writable)
  BY DEF Clean, Writable
<1>2. ASSUME NEW text \in Seq(Writable) PROVE text \in Seq(Characters)
  <2>1. Writable \subseteq Characters
    BY DEF Characters, Writable
  <2> QED
    BY <2>1
<1> QED
  BY <1>1, <1>2

LEMMA NewIsIntact ==
    ASSUME NEW class \in Classes, NEW code \in Codes, NEW raw \in Seq(Writable) \cup {Unset}
    PROVE  /\ New(class, code, raw) \in Written
           /\ Intact(New(class, code, raw))
           /\ New(class, code, raw).class = class
           /\ New(class, code, raw).code = code
           /\ raw # Unset => New(class, code, raw).detail = Sanitized(raw)
<1> DEFINE detail == IF raw = Unset THEN <<>> ELSE Sanitized(raw)
<1>1. detail \in Seq(Writable) /\ Safe(detail)
  <2>1. CASE raw = Unset
    BY <2>1, TextsAssumption DEF Safe
  <2>2. CASE raw # Unset
    BY <2>2, SanitizedIsSafe, WritableTexts
  <2> QED
    BY <2>1, <2>2
<1>2. New(class, code, raw) = [class |-> class, code |-> code, detail |-> detail, frozen |-> TRUE]
  BY DEF New
<1> HIDE DEF detail
<1>3. raw # Unset => detail = Sanitized(raw)
  BY DEF detail
<1> QED
  BY <1>1, <1>2, <1>3 DEF Written, Intact

LEMMA WrittenIsError == Written \subseteq Errors
<1> SUFFICES ASSUME NEW e \in Written PROVE e \in Errors
  OBVIOUS
<1> QED
  BY WritableTexts DEF Written, Errors

LEMMA NoErrorIsNone == Unset \notin Written
  BY WrittenIsError, NamesAssumption

-----------------------------------------------------------------------------
(* The steps.  Each changes one object at most. *)

\* An object comes to be that is a copy of nothing.
LEMMA Made ==
    ASSUME ErrInv, NEW o \in Objects, Free(o), NEW class \in Classes, NEW code \in Codes,
           NEW raw \in Seq(Writable) \cup {Unset}, NEW f,
           err' = [err EXCEPT ![o] = New(class, code, raw)],
           flight' = [object |-> o, as |-> class], UNCHANGED <<opened, source>>
    PROVE  ErrInv'
<1> DEFINE new == New(class, code, raw)
<1>1. new \in Written /\ Intact(new) /\ new \in Errors
  BY NewIsIntact, WrittenIsError
<1> HIDE DEF new
<1>2. err' = [err EXCEPT ![o] = new]
  BY DEF new
<1>3. source[o] = Unset
  BY DEF ErrInv, Free
<1>4. ErrTypeOK'
  BY <1>1, <1>2 DEF ErrInv, ErrTypeOK
<1>5. (\A q \in Objects : err[q] # Unset => err[q] \in Written /\ (q \notin opened => Intact(err[q])))'
  BY <1>1, <1>2 DEF ErrInv, ErrTypeOK
<1>6. (\A q \in Objects : err[q] = Unset => source[q] = Unset)'
  BY <1>2, <1>3 DEF ErrInv, ErrTypeOK
<1>7. CopiesAgree'
  BY <1>2, <1>3 DEF ErrInv, ErrTypeOK, CopiesAgree
<1> QED
  BY <1>4, <1>5, <1>6, <1>7 DEF ErrInv

LEMMA RaiseStep ==
    ASSUME ErrInv, NEW o \in Objects, NEW class \in Classes, NEW code \in Codes \cup {NotCode},
           NEW raw \in Raws \cup {Unset}, Raise(o, class, code, raw)
    PROVE  ErrInv'
<1>1. CASE IsCode(code)
  <2>1. raw \in Seq(Writable) \cup {Unset}
    BY TextsAssumption DEF Writable
  <2> QED
    BY <1>1, <2>1, Made DEF Raise, IsCode
<1>2. CASE ~ IsCode(code)
  BY <1>2 DEF Raise, ErrInv, ErrTypeOK, CopiesAgree
<1> QED
  BY <1>1, <1>2

LEMMA FromExceptionStep ==
    ASSUME ErrInv, NEW o \in Objects, NEW class \in Classes, NEW name \in TypeNames,
           NEW message \in Messages, FromException(o, class, name, message)
    PROVE  ErrInv'
<1>1. PICK code \in Codes : err' = [err EXCEPT ![o] = New(class, code, name)]
  BY DEF FromException, DetailOf
<1>2. name \in Seq(Writable)
  BY TextsAssumption DEF Writable
<1> QED
  BY <1>1, <1>2, Made DEF FromException

(* A copy goes through the constructor again. *)
LEMMA CopyStep ==
    ASSUME ErrInv, NEW o \in Objects, NEW p \in Objects, Copy(o, p)
    PROVE  ErrInv'
<1> DEFINE old == err[o]
           new == Reduce(old)
<1>1. old \in Written /\ old.code \in Codes /\ old.class \in Classes /\ old.detail \in Seq(Writable)
  BY DEF ErrInv, Copy, Free, Written
<1>2. /\ new \in Written /\ Intact(new) /\ new \in Errors
      /\ new.class = old.class /\ new.code = old.code
  BY <1>1, NewIsIntact, WrittenIsError DEF Reduce
<1>3. Safe(old.detail) => new.detail = old.detail
  <2>1. old.detail # Unset
    BY DEF Copy
  <2> QED
    BY <1>1, <2>1, NewIsIntact, SafeIsFixed DEF Reduce
<1>4. Data(old) \in [class : Classes, code : Codes, detail : Seq(Characters)]
  BY <1>1, WritableTexts DEF Data
<1>5. Data(old).class = old.class /\ Data(old).code = old.code /\ Data(old).detail = old.detail
  BY DEF Data
<1>6. err' = [err EXCEPT ![p] = new] /\ source' = [source EXCEPT ![p] = Data(old)]
  BY DEF Copy
<1>7. UNCHANGED <<opened, flight>>
  BY DEF Copy
<1>8. new # Unset
  BY <1>2, NoErrorIsNone DEF Written
<1> HIDE DEF old, new
<1>9. ErrTypeOK'
  BY <1>2, <1>4, <1>6, <1>7 DEF ErrInv, ErrTypeOK
<1>10. (\A q \in Objects : err[q] # Unset => err[q] \in Written /\ (q \notin opened => Intact(err[q])))'
  BY <1>2, <1>6, <1>7 DEF ErrInv, ErrTypeOK
<1>11. (\A q \in Objects : err[q] = Unset => source[q] = Unset)'
  BY <1>6, <1>8 DEF ErrInv, ErrTypeOK
<1>12. CopiesAgree'
  BY <1>2, <1>3, <1>5, <1>6, <1>7 DEF ErrInv, ErrTypeOK, CopiesAgree
<1> QED
  BY <1>9, <1>10, <1>11, <1>12 DEF ErrInv

(* An attribute is written or deleted: the object has been opened. *)
LEMMA OpenedChanges ==
    ASSUME ErrInv, NEW o \in Objects, NEW e \in Written,
           ~ Free(o), o \in opened',
           err' = [err EXCEPT ![o] = e], opened' = opened \cup {o},
           UNCHANGED <<source, flight>>
    PROVE  ErrInv'
<1>1. e \in Errors /\ e # Unset
  BY WrittenIsError, NoErrorIsNone
<1>2. ErrTypeOK'
  BY <1>1 DEF ErrInv, ErrTypeOK
<1>3. (\A q \in Objects : err[q] # Unset => err[q] \in Written /\ (q \notin opened => Intact(err[q])))'
  BY DEF ErrInv, ErrTypeOK
<1>4. (\A q \in Objects : err[q] = Unset => source[q] = Unset)'
  BY <1>1 DEF ErrInv, ErrTypeOK
<1>5. CopiesAgree'
  BY DEF ErrInv, ErrTypeOK, CopiesAgree
<1> QED
  BY <1>2, <1>3, <1>4, <1>5 DEF ErrInv

LEMMA SetDetailStep ==
    ASSUME ErrInv, NEW o \in Objects, NEW text \in Raws, SetDetail(o, text)
    PROVE  ErrInv' /\ o \in opened'
<1>1. o \in opened
  BY DEF SetDetail, Settable, ErrInv, Intact, Free
<1>2. err[o] \in Written /\ text \in Seq(Writable)
  BY TextsAssumption DEF SetDetail, ErrInv, Free, Writable
<1>3. [err[o] EXCEPT !.detail = text] \in Written
  BY <1>2 DEF Written
<1>4. err' = [err EXCEPT ![o] = [err[o] EXCEPT !.detail = text]]
  BY DEF SetDetail
<1>5. opened' = opened \cup {o} /\ o \in opened' /\ UNCHANGED <<source, flight>> /\ ~ Free(o)
  BY <1>1 DEF SetDetail
<1> QED
  BY <1>3, <1>4, <1>5, OpenedChanges

LEMMA DeleteStep ==
    ASSUME ErrInv, NEW o \in Objects, NEW name \in Attributes, Delete(o, name)
    PROVE  ErrInv' /\ o \in opened'
<1>1. err[o] \in Written
  BY DEF Delete, ErrInv, Free
<1>2. [err[o] EXCEPT ![name] = Unset] \in Written
  BY <1>1 DEF Written, Attributes
<1>3. err' = [err EXCEPT ![o] = [err[o] EXCEPT ![name] = Unset]]
  BY DEF Delete
<1>4. opened' = opened \cup {o} /\ o \in opened' /\ UNCHANGED <<source, flight>> /\ ~ Free(o)
  BY DEF Delete
<1> QED
  BY <1>2, <1>3, <1>4, OpenedChanges

LEMMA FlightStep ==
    ASSUME ErrInv, (\E sets \in BOOLEAN : LeavesFrame(sets)) \/ Handle
    PROVE  ErrInv'
<1>1. flight' \in {flight, [flight EXCEPT !.as = "AttributeError"], NoFlight}
  BY DEF LeavesFrame, Handle
<1>2. flight' \in [object : Objects \cup {Unset},
                  as : Classes \cup {"nothing", "TypeError", "AttributeError"}]
  BY <1>1 DEF ErrInv, ErrTypeOK, NoFlight
<1>3. UNCHANGED <<err, opened, source>>
  BY DEF LeavesFrame, Handle
<1> QED
  BY <1>2, <1>3 DEF ErrInv, ErrTypeOK, CopiesAgree

LEMMA ForgetStep ==
    ASSUME ErrInv, NEW o \in Objects, Forget(o)
    PROVE  ErrInv'
<1>1. ErrTypeOK'
  BY DEF Forget, ErrInv, ErrTypeOK
<1>2. (\A q \in Objects : err[q] # Unset => err[q] \in Written /\ (q \notin opened => Intact(err[q])))'
  BY DEF Forget, ErrInv, ErrTypeOK
<1>3. (\A q \in Objects : err[q] = Unset => source[q] = Unset)'
  BY DEF Forget, ErrInv, ErrTypeOK
<1>4. CopiesAgree'
  BY DEF Forget, ErrInv, ErrTypeOK, CopiesAgree
<1> QED
  BY <1>1, <1>2, <1>3, <1>4 DEF ErrInv

-----------------------------------------------------------------------------
(* The theorems. *)

LEMMA ErrInitially == ErrInit => ErrInv
  BY DEF ErrInit, NoFlight, ErrInv, ErrTypeOK, CopiesAgree

LEMMA ErrStep ==
    ASSUME ErrInv, [ErrNext]_errVars
    PROVE  ErrInv'
<1>1. CASE ErrNext
  <2>1. ASSUME NEW o \in Objects, NEW class \in Classes, NEW code \in Codes \cup {NotCode},
               NEW raw \in Raws \cup {Unset}, Raise(o, class, code, raw)
        PROVE  ErrInv'
    BY <2>1, RaiseStep
  <2>2. ASSUME NEW o \in Objects, NEW class \in Classes, NEW name \in TypeNames,
               NEW message \in Messages, FromException(o, class, name, message)
        PROVE  ErrInv'
    BY <2>2, FromExceptionStep
  <2>3. ASSUME NEW o \in Objects, NEW p \in Objects, Copy(o, p)
        PROVE  ErrInv'
    BY <2>3, CopyStep
  <2>4. ASSUME NEW o \in Objects, NEW text \in Raws, SetDetail(o, text)
        PROVE  ErrInv'
    BY <2>4, SetDetailStep
  <2>5. ASSUME NEW o \in Objects, NEW name \in Attributes, Delete(o, name)
        PROVE  ErrInv'
    BY <2>5, DeleteStep
  <2>6. CASE (\E sets \in BOOLEAN : LeavesFrame(sets)) \/ Handle
    BY <2>6, FlightStep
  <2>7. ASSUME NEW o \in Objects, Forget(o)
        PROVE  ErrInv'
    BY <2>7, ForgetStep
  <2> QED
    BY <1>1, <2>1, <2>2, <2>3, <2>4, <2>5, <2>6, <2>7 DEF ErrNext
<1>2. CASE UNCHANGED errVars
  BY <1>2 DEF errVars, ErrInv, ErrTypeOK, CopiesAgree
<1> QED
  BY <1>1, <1>2

THEOREM ErrInvariant == ErrSpec => []ErrInv
<1>1. ErrInv /\ [ErrNext]_errVars => ErrInv'
  BY ErrStep
<1> QED
  BY <1>1, ErrInitially, PTL DEF ErrSpec

(***************************************************************************)
(* Every object has attributes of the types errors.py gives them.          *)
(***************************************************************************)
THEOREM ErrorsAreTyped == ErrSpec => []ErrTypeOK
<1>1. ErrInv => ErrTypeOK
  BY DEF ErrInv
<1> QED
  BY <1>1, ErrInvariant, PTL

(***************************************************************************)
(* No detail is too long, has control characters, or holds a message, for  *)
(* any text, any cap, and any number of copies of copies.                  *)
(***************************************************************************)
THEOREM NoDetailLeaks == ErrSpec => []DetailsAreSafe
<1>1. ErrInv => DetailsAreSafe
  BY DEF ErrInv, DetailsAreSafe, Intact
<1> QED
  BY <1>1, ErrInvariant, PTL

(***************************************************************************)
(* __reduce__ gives back the error, although the constructor cleans and    *)
(* cuts the detail a second time.                                          *)
(***************************************************************************)
THEOREM CopiesAreEqual == ErrSpec => []CopiesAgree
<1>1. ErrInv => CopiesAgree
  BY DEF ErrInv
<1> QED
  BY <1>1, ErrInvariant, PTL

(***************************************************************************)
(* Only an object from which an attribute was deleted ever changes.        *)
(***************************************************************************)
THEOREM FreezeHolds == ErrSpec => FrozenUnlessOpened
<1>1. ErrInv /\ [ErrNext]_errVars =>
         [\A o \in Objects :
            err[o] # Unset /\ err'[o] # Unset /\ err'[o] # err[o] => o \in opened']_errVars
  <2> SUFFICES ASSUME ErrInv, ErrNext, NEW q \in Objects,
                      err[q] # Unset, err'[q] # Unset, err'[q] # err[q]
               PROVE  q \in opened'
    OBVIOUS
  <2>1. ASSUME NEW o \in Objects, NEW class \in Classes, NEW code \in Codes \cup {NotCode},
               NEW raw \in Raws \cup {Unset}, Raise(o, class, code, raw)
        PROVE  FALSE
    BY <2>1 DEF Raise, Free, ErrInv, ErrTypeOK
  <2>2. ASSUME NEW o \in Objects, NEW class \in Classes, NEW name \in TypeNames,
               NEW message \in Messages, FromException(o, class, name, message)
        PROVE  FALSE
    BY <2>2 DEF FromException, Free, ErrInv, ErrTypeOK
  <2>3. ASSUME NEW o \in Objects, NEW p \in Objects, Copy(o, p)
        PROVE  FALSE
    BY <2>3 DEF Copy, Free, ErrInv, ErrTypeOK
  <2>4. ASSUME NEW o \in Objects, NEW text \in Raws, SetDetail(o, text)
        PROVE  q \in opened'
    <3>1. o \in opened'
      BY <2>4, SetDetailStep
    <3> QED
      BY <2>4, <3>1 DEF SetDetail, ErrInv, ErrTypeOK
  <2>5. ASSUME NEW o \in Objects, NEW name \in Attributes, Delete(o, name)
        PROVE  q \in opened'
    <3>1. o \in opened'
      BY <2>5, DeleteStep
    <3> QED
      BY <2>5, <3>1 DEF Delete, ErrInv, ErrTypeOK
  <2>6. CASE (\E sets \in BOOLEAN : LeavesFrame(sets)) \/ Handle
    BY <2>6 DEF LeavesFrame, Handle
  <2>7. ASSUME NEW o \in Objects, Forget(o)
        PROVE  FALSE
    BY <2>7 DEF Forget, ErrInv, ErrTypeOK
  <2> QED
    BY <2>1, <2>2, <2>3, <2>4, <2>5, <2>6, <2>7 DEF ErrNext
<1> QED
  BY <1>1, ErrInvariant, PTL DEF ErrSpec, FrozenUnlessOpened
=============================================================================
