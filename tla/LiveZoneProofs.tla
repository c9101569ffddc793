--------------------------- MODULE LiveZoneProofs ---------------------------
(***************************************************************************)
(* Proofs about the live zone, for every set of blocks and conversations,  *)
(* any number of requests at once, crashes and failures: what is sent is   *)
(* on record first, a pin fixes the text of a content for the life of the  *)
(* process, and a session whose requests do not overlap keeps its bytes.   *)
(***************************************************************************)
EXTENDS LiveZone, SequenceTheorems, FiniteSetTheorems, TLAPS

-----------------------------------------------------------------------------
(* Types.                                                                  *)

Handling == {"storing", "compressing", "recording", "remembering", "noting"}

\* A request at a block has one, one that has its state has one, and one whose text is decided
\* has it.
Local == \A r \in Requests :
    /\ Len(out[r]) <= Len(conv[r])
    /\ at[r] \in Handling => Len(out[r]) < Len(conv[r])
    /\ at[r] \in {"recording", "remembering", "noting"} => text[r] \in Text
    /\ at[r] \in Handling \cup {"next"} => state[r] \in Requests
    /\ at[r] \in {"new", "loading", "loaded", "gone"} => out[r] = <<>>

LInv == TypeOK /\ Local

\* The parts of a text.
LEMMA TextType ==
  ASSUME NEW c \in Contents, NEW n \in Nat, NEW s \in {"view", "whole", "notice"},
         NEW m \in {"none", "marker", "hint"}
  PROVE  [of |-> c, token |-> n, shows |-> s, mark |-> m] \in Text
BY DEF Text

\* A request at a block carries it.
LEMMA BlockType ==
  ASSUME LInv, NEW r \in Requests, Len(out[r]) < Len(conv[r])
  PROVE  /\ Len(out[r]) \in Nat /\ Len(conv[r]) \in Nat /\ Len(out[r]) + 1 \in 1 .. Len(conv[r])
         /\ Block(r) \in Blocks /\ Content(r) \in Contents
  <1>1. conv[r] \in Seq(Blocks) /\ out[r] \in Seq(Readable)
    BY DEF LInv, TypeOK
  <1>2. Len(out[r]) \in Nat /\ Len(conv[r]) \in Nat
    BY <1>1, LenProperties
  <1>3. Len(out[r]) + 1 \in 1 .. Len(conv[r])
    BY <1>2
  <1>4. Block(r) \in Blocks
    BY <1>1, <1>3, ElementOfSeq DEF Block
  <1>5. ContentOf \in [Blocks -> Contents]
    BY LiveZoneAssumption
  <1> QED BY <1>2, <1>3, <1>4, <1>5 DEF Content

\* The texts a block in hand may have.
LEMMA Candidates ==
  ASSUME LInv, NEW r \in Requests, at[r] \in Handling
  PROVE  /\ Block(r) \in Blocks /\ Content(r) \in Contents
         /\ Candidate(r) \in Text /\ Notice(Content(r)) \in Text /\ Pinned(r) \in Text
         /\ text[r] \in Text => Final(r) \in Text
         /\ Hints(r) \in Nat
  <1>1. Block(r) \in Blocks /\ Content(r) \in Contents
    BY BlockType DEF LInv, Local
  <1>2. token[r] \in Nat /\ hinted[r] \in Nat /\ pins[Content(r)] \in Text \cup {None}
    BY <1>1 DEF LInv, TypeOK, Known
  <1>3. Candidate(r) \in Text
    BY <1>1, <1>2, TextType DEF Candidate
  <1>4. Notice(Content(r)) \in Text
    BY <1>1, TextType DEF Notice
  <1>5. Pinned(r) \in Text
    BY <1>2, <1>3 DEF Pinned
  <1>6. ASSUME text[r] \in Text PROVE Final(r) \in Text
    <2>1. [of |-> Content(r), token |-> token[r], shows |-> "whole", mark |-> "none"] \in Text
      BY <1>1, <1>2, TextType
    <2>2. \A m \in {"hint", "marker"} : [text[r] EXCEPT !.mark = m] \in Text
      BY <1>6 DEF Text
    <2> QED BY <1>6, <2>1, <2>2 DEF Final
  <1>7. Hints(r) \in Nat
    BY <1>2 DEF Hints
  <1> QED BY <1>1, <1>3, <1>4, <1>5, <1>6, <1>7

\* A session starts in its types.
LEMMA InitLInv == Init => LInv
  <1> SUFFICES ASSUME Init PROVE LInv
    OBVIOUS
  <1>1. Nothing \in [Blocks -> Known] /\ <<>> \in Seq(Blocks) /\ <<>> \in Seq(Readable) /\ Len(<<>>) = 0
    BY EmptySeq DEF Nothing, Known
  <1>2. Nothing \in [Blocks -> Readable \cup {None}]
    BY DEF Nothing
  <1>3. TypeOK
    BY <1>1, <1>2 DEF Init, TypeOK, Known
  <1>4. Local
    BY <1>1 DEF Init, Local, Handling
  <1> QED BY <1>3, <1>4 DEF LInv

\* A request that leaves keeps the types of the others.
LEMMA LeaveLInv ==
  ASSUME LInv, NEW S \in SUBSET Requests, Leave(S)
  PROVE  /\ at' \in [Requests -> {"new", "loading", "loaded", "next", "storing", "compressing",
                                  "recording", "remembering", "noting", "gone"}]
         /\ conv' \in [Requests -> Seq(Blocks)] /\ out' \in [Requests -> Seq(Readable)]
         /\ state' \in [Requests -> Requests \cup {None}]
         /\ token' \in [Requests -> Nat] /\ text' \in [Requests -> Known] /\ hinted' \in [Requests -> Nat]
         /\ Local'
  <1>1. <<>> \in Seq(Blocks) /\ <<>> \in Seq(Readable) /\ Len(<<>>) = 0
    BY EmptySeq
  <1>2. Local'
    BY <1>1 DEF Leave, LInv, Local, Handling
  <1> QED BY <1>1, <1>2 DEF Leave, LInv, TypeOK, Known

\* What the store gives for a remembered text.
LEMMA ReadsType ==
  ASSUME LInv, NEW r \in Requests, HasNext(r), NEW s \in Requests, known[s][Block(r)] # None,
         NEW t \in (IF texts[s][Block(r)] # None THEN {texts[s][Block(r)]} ELSE Reads(known[s][Block(r)]))
  PROVE  /\ Block(r) \in Blocks /\ t \in Readable
         /\ \/ t = Torn
            \/ texts[s][Block(r)] # None /\ t = texts[s][Block(r)]
            \/ t = known[s][Block(r)]
  <1>1. Block(r) \in Blocks
    BY BlockType DEF HasNext
  <1>2. known[s][Block(r)] \in Text /\ texts[s][Block(r)] \in Readable \cup {None}
    BY <1>1 DEF LInv, TypeOK, Known
  <1> QED BY <1>1, <1>2 DEF Reads, Readable

\* Every step keeps the types.
LEMMA NextLInv == ASSUME LInv, [Next]_vars PROVE LInv'
  <1> DEFINE Places == {"new", "loading", "loaded", "next", "storing", "compressing",
                        "recording", "remembering", "noting", "gone"}
  <1>0. /\ row \in [Blocks -> SUBSET Text] /\ last \in [Blocks -> Known]
        /\ evidence \subseteq [of : Contents, text : Text, life : Nat] /\ torn \subseteq Text
        /\ current \in Requests \cup {None} /\ pins \in [Contents -> Known] /\ nextEntity \in Nat
        /\ known \in [Requests -> [Blocks -> Known]]
        /\ texts \in [Requests -> [Blocks -> Readable \cup {None}]]
        /\ at \in [Requests -> Places]
        /\ conv \in [Requests -> Seq(Blocks)] /\ out \in [Requests -> Seq(Readable)]
        /\ state \in [Requests -> Requests \cup {None}]
        /\ token \in [Requests -> Nat] /\ text \in [Requests -> Known] /\ hinted \in [Requests -> Nat]
        /\ sent \in [Blocks -> SUBSET [text : Readable, life : Nat]]
        /\ overlapped \in BOOLEAN /\ spoilt \subseteq Text /\ life \in Nat /\ failures \in Nat
    BY DEF LInv, TypeOK
  <1>1. Local
    BY DEF LInv
  <1>2. Busy \in SUBSET Requests
    BY DEF Busy
  <1>3. Nothing \in [Blocks -> Known] /\ Nothing \in [Blocks -> Readable \cup {None}]
    BY DEF Nothing, Known
  \* A request that goes on at its block keeps its place in its transcript.
  <1>4. ASSUME NEW r \in Requests, at[r] \in Handling,
               NEW to \in {"compressing", "recording", "remembering", "noting"},
               at' = [at EXCEPT ![r] = to], UNCHANGED <<conv, state, out>>,
               \A q \in Requests \ {r} : text'[q] = text[q],
               to # "compressing" => text'[r] \in Text
        PROVE  Local'
    BY <1>0, <1>1, <1>4 DEF Local, Handling
  \* A request that is done with a block.
  <1>5. ASSUME NEW r \in Requests, NEW t \in Readable, Len(out[r]) < Len(conv[r]), state[r] \in Requests,
               out' = [out EXCEPT ![r] = Append(@, t)], UNCHANGED <<conv, state>>,
               at' = [at EXCEPT ![r] = "next"], \A q \in Requests \ {r} : text'[q] = text[q]
        PROVE  Local' /\ out' \in [Requests -> Seq(Readable)]
    <2>1. /\ Append(out[r], t) \in Seq(Readable) /\ Len(Append(out[r], t)) = Len(out[r]) + 1
      BY <1>0, <1>5, AppendProperties
    <2>2. Len(out[r]) + 1 <= Len(conv[r])
      BY <1>5, BlockType
    <2>3. out'[r] = Append(out[r], t) /\ at'[r] = "next"
      BY <1>0, <1>5
    <2>4. Len(out'[r]) <= Len(conv'[r])
      BY <1>5, <2>1, <2>2, <2>3
    <2>5. ASSUME NEW q \in Requests PROVE
            /\ Len(out'[q]) <= Len(conv'[q])
            /\ at'[q] \in Handling => Len(out'[q]) < Len(conv'[q])
            /\ at'[q] \in {"recording", "remembering", "noting"} => text'[q] \in Text
            /\ at'[q] \in Handling \cup {"next"} => state'[q] \in Requests
            /\ at'[q] \in {"new", "loading", "loaded", "gone"} => out'[q] = <<>>
      <3>1. CASE q = r
        BY <1>5, <2>3, <2>4, <3>1 DEF Handling
      <3>2. CASE q # r
        BY <1>0, <1>1, <1>5, <3>2 DEF Local
      <3> QED BY <3>1, <3>2
    <2> QED BY <1>0, <1>5, <2>1, <2>5 DEF Local
  <1>6. ASSUME NEW r \in Requests, Arrive(r) PROVE LInv'
    <2>1. PICK c \in Conversations : conv' = [conv EXCEPT ![r] = c]
      BY <1>6 DEF Arrive
    <2>2. c \in Seq(Blocks)
      BY LiveZoneAssumption
    <2>3. out[r] = <<>> /\ Len(<<>>) = 0 /\ Len(c) \in Nat
      BY <1>1, <1>6, <2>2, LenProperties, EmptySeq DEF Arrive, Local
    <2>4. /\ at' = [at EXCEPT ![r] = IF current = None THEN "loading" ELSE "next"]
          /\ state' = [state EXCEPT ![r] = current] /\ overlapped' \in BOOLEAN
          /\ UNCHANGED <<disk, memory, out, token, text, hinted, sent, spoilt, life, failures>>
      BY <1>6 DEF Arrive
    <2>5. TypeOK'
      BY <1>0, <2>1, <2>2, <2>4 DEF TypeOK, disk, memory
    <2>6. ASSUME NEW q \in Requests PROVE
            /\ Len(out'[q]) <= Len(conv'[q])
            /\ at'[q] \in Handling => Len(out'[q]) < Len(conv'[q])
            /\ at'[q] \in {"recording", "remembering", "noting"} => text'[q] \in Text
            /\ at'[q] \in Handling \cup {"next"} => state'[q] \in Requests
            /\ at'[q] \in {"new", "loading", "loaded", "gone"} => out'[q] = <<>>
      <3>1. CASE q = r
        <4>1. conv'[q] = c /\ out'[q] = <<>>
          BY <1>0, <2>1, <2>3, <2>4, <3>1
        <4>2. at'[q] \in {"loading", "next"} /\ (at'[q] = "next" => state'[q] \in Requests)
          BY <1>0, <2>4, <3>1
        <4> QED BY <2>3, <4>1, <4>2 DEF Handling
      <3>2. CASE q # r
        BY <1>0, <1>1, <2>1, <2>4, <3>2 DEF Local
      <3> QED BY <3>1, <3>2
    <2> QED BY <2>5, <2>6 DEF LInv, Local
  <1>7. ASSUME NEW r \in Requests, ReadLedger(r) \/ Adopt(r) PROVE LInv'
    <2>1. TypeOK'
      <3>1. CASE ReadLedger(r)
        <4>1. at' \in [Requests -> Places] /\ known' \in [Requests -> [Blocks -> Known]]
          BY <1>0, <3>1 DEF ReadLedger
        <4> QED BY <1>0, <3>1, <4>1 DEF ReadLedger, TypeOK, disk, seen
      <3>2. CASE Adopt(r)
        <4>1. /\ at' \in [Requests -> Places] /\ state' \in [Requests -> Requests \cup {None}]
              /\ current' \in Requests
          BY <1>0, <3>2 DEF Adopt
        <4> QED BY <1>0, <3>2, <4>1 DEF Adopt, TypeOK, disk, seen
      <3> QED BY <1>7, <3>1, <3>2
    <2>2. Local'
      BY <1>0, <1>1, <1>7 DEF ReadLedger, Adopt, Local, Handling
    <2> QED BY <2>1, <2>2 DEF LInv
  <1>8. ASSUME NEW r \in Requests, Lookup(r) PROVE LInv'
    <2>1. HasNext(r) /\ state[r] \in Requests /\ at' = [at EXCEPT ![r] = "next"] /\ Block(r) \in Blocks
          /\ Len(out[r]) < Len(conv[r])
      BY <1>0, <1>1, <1>8, BlockType DEF Lookup, HasNext, Local
    <2>2. PICK t \in (IF texts[state[r]][Block(r)] # None THEN {texts[state[r]][Block(r)]}
                     ELSE Reads(known[state[r]][Block(r)])) :
            /\ texts' = [texts EXCEPT ![state[r]][Block(r)] = t]
            /\ out' = [out EXCEPT ![r] = Append(@, t)]
      BY <1>8 DEF Lookup
    <2>3. t \in Readable
      BY <1>8, <2>1, <2>2, ReadsType DEF Lookup
    <2>4. /\ UNCHANGED <<disk, current, known, pins, nextEntity, at, conv, state, token, text, hinted, seen>>
      BY <1>8 DEF Lookup
    <2>5. Local' /\ out' \in [Requests -> Seq(Readable)]
      BY <1>5, <2>1, <2>2, <2>3, <2>4
    <2>6. texts' \in [Requests -> [Blocks -> Readable \cup {None}]]
      BY <1>0, <2>1, <2>2, <2>3
    <2>7. TypeOK'
      BY <1>0, <2>4, <2>5, <2>6 DEF TypeOK, disk, seen
    <2> QED BY <2>5, <2>7 DEF LInv
  <1>20. ASSUME NEW r \in Requests, LookupFails(r) PROVE LInv'
    <2>1. /\ HasNext(r) /\ state[r] \in Requests /\ Block(r) \in Blocks /\ Len(out[r]) < Len(conv[r])
      BY <1>0, <1>1, <1>20, BlockType DEF LookupFails, HasNext, Local
    <2>2. /\ known' = [known EXCEPT ![state[r]][Block(r)] = None]
          /\ spoilt' = spoilt \cup {known[state[r]][Block(r)]} /\ known[state[r]][Block(r)] # None
          /\ at' = [at EXCEPT ![r] = "storing"] /\ failures' = failures + 1
          /\ UNCHANGED <<disk, current, texts, pins, nextEntity, conv, state, out, token, text, hinted,
                         sent, overlapped, life>>
      BY <1>20 DEF LookupFails
    <2>3. known' \in [Requests -> [Blocks -> Known]] /\ spoilt' \subseteq Text
      BY <1>0, <2>1, <2>2 DEF Known
    <2>4. TypeOK'
      BY <1>0, <2>2, <2>3 DEF TypeOK, disk
    <2>5. Local'
      BY <1>0, <1>1, <2>1, <2>2 DEF HasNext, Local, Handling
    <2> QED BY <2>4, <2>5 DEF LInv
  <1>9. ASSUME NEW r \in Requests, StoreRaw(r) PROVE LInv'
    <2>1. TypeOK'
      BY <1>0, <1>9 DEF StoreRaw, TypeOK, disk, memory, seen
    <2>2. Local'
      BY <1>0, <1>1, <1>9 DEF StoreRaw, HasNext, Local, Handling
    <2> QED BY <2>1, <2>2 DEF LInv
  <1>10. ASSUME NEW r \in Requests, Transform(r) PROVE LInv'
    <2>0. /\ torn' \subseteq Text /\ token' \in [Requests -> Nat] /\ nextEntity' \in Nat
          /\ at' \in [Requests -> Places]
      BY <1>0, <1>10 DEF Transform
    <2>1. TypeOK'
      BY <1>0, <1>10, <2>0 DEF Transform, TypeOK, seen
    <2>2. Local'
      BY <1>4, <1>10 DEF Transform, Handling
    <2> QED BY <2>1, <2>2 DEF LInv
  <1>11. ASSUME NEW r \in Requests, Decide(r) PROVE LInv'
    <2>1. at[r] \in Handling
      BY <1>11 DEF Decide, Handling
    <2>2. Content(r) \in Contents /\ Notice(Content(r)) \in Text /\ Pinned(r) \in Text
      BY <2>1, Candidates
    <2>3. /\ pins' \in [Contents -> Known] /\ text' \in [Requests -> Known] /\ text'[r] \in Text
          /\ \A q \in Requests \ {r} : text'[q] = text[q]
      <3>1. CASE Content(r) \in Unsafe
        BY <1>0, <1>11, <2>2, <3>1 DEF Decide, Known
      <3>2. CASE Content(r) \notin Unsafe
        BY <1>0, <1>11, <2>2, <3>2 DEF Decide, Known
      <3> QED BY <3>1, <3>2
    <2>4. at' = [at EXCEPT ![r] = "recording"]
          /\ UNCHANGED <<disk, current, known, texts, nextEntity, conv, state, out, token, hinted, seen>>
      BY <1>11 DEF Decide
    <2>5. TypeOK'
      BY <1>0, <2>3, <2>4 DEF TypeOK, disk, seen
    <2>6. Local'
      BY <1>4, <2>1, <2>3, <2>4
    <2> QED BY <2>5, <2>6 DEF LInv
  <1>12. ASSUME NEW r \in Requests, RecordDelivery(r) PROVE LInv'
    <2>1. at[r] \in Handling /\ text[r] \in Text /\ state[r] \in Requests /\ Len(out[r]) < Len(conv[r])
      BY <1>1, <1>12 DEF RecordDelivery, Handling, Local
    <2>2. Content(r) \in Contents /\ Final(r) \in Text /\ Hints(r) \in Nat
      BY <2>1, Candidates
    <2>3. evidence' \subseteq [of : Contents, text : Text, life : Nat]
      BY <1>0, <1>12, <2>1, <2>2 DEF RecordDelivery
    <2>4. UNCHANGED <<row, last, torn, memory, conv, state, token, seen>>
      BY <1>12 DEF RecordDelivery
    <2>5. CASE Block(r) \in Scans
      <3>1. /\ out' = [out EXCEPT ![r] = Append(@, text[r])] /\ at' = [at EXCEPT ![r] = "next"]
            /\ text' = [text EXCEPT ![r] = None] /\ hinted' = hinted
        BY <1>12, <2>5 DEF RecordDelivery
      <3>2. Local' /\ out' \in [Requests -> Seq(Readable)]
        BY <1>0, <1>5, <2>1, <2>4, <3>1 DEF Readable
      <3>3. TypeOK'
        BY <1>0, <2>3, <2>4, <3>1, <3>2 DEF TypeOK, memory, seen, Known
      <3> QED BY <3>2, <3>3 DEF LInv
    <2>6. CASE Block(r) \notin Scans
      <3>1. /\ text' = [text EXCEPT ![r] = Final(r)] /\ hinted' = [hinted EXCEPT ![r] = Hints(r)]
            /\ at' = [at EXCEPT ![r] = "remembering"] /\ out' = out
        BY <1>12, <2>6 DEF RecordDelivery
      <3>2. Local'
        BY <1>0, <1>4, <2>1, <2>2, <2>4, <3>1
      <3>3. TypeOK'
        BY <1>0, <2>2, <2>3, <2>4, <3>1 DEF TypeOK, memory, seen, Known
      <3> QED BY <3>2, <3>3 DEF LInv
    <2> QED BY <2>5, <2>6
  <1>13. ASSUME NEW r \in Requests, StoreCompact(r) PROVE LInv'
    <2>1. TypeOK'
      BY <1>0, <1>13 DEF StoreCompact, TypeOK, memory, seen
    <2>2. text'[r] \in Text
      BY <1>1, <1>13 DEF StoreCompact, Local
    <2>3. Local'
      BY <1>4, <1>13, <2>2 DEF StoreCompact, Handling
    <2> QED BY <2>1, <2>3 DEF LInv
  <1>14. ASSUME NEW r \in Requests, Remember(r) PROVE LInv'
    <2>1. at[r] \in Handling /\ text[r] \in Text /\ state[r] \in Requests /\ Len(out[r]) < Len(conv[r])
      BY <1>1, <1>14 DEF Remember, Handling, Local
    <2>2. Block(r) \in Blocks
      BY <2>1, Candidates
    <2>3. /\ row' = [row EXCEPT ![Block(r)] = @ \cup {text[r]}]
          /\ last' = [last EXCEPT ![Block(r)] = text[r]]
          /\ known' = [known EXCEPT ![state[r]][Block(r)] = text[r]]
          /\ texts' = [texts EXCEPT ![state[r]][Block(r)] = text[r]]
          /\ out' = [out EXCEPT ![r] = Append(@, text[r])]
          /\ at' = [at EXCEPT ![r] = "next"] /\ text' = [text EXCEPT ![r] = None]
          /\ UNCHANGED <<evidence, torn, current, pins, nextEntity, conv, state, token, hinted, seen>>
      BY <1>14 DEF Remember
    <2>4. Local' /\ out' \in [Requests -> Seq(Readable)]
      BY <1>0, <1>5, <2>1, <2>3 DEF Readable
    <2>5. /\ row' \in [Blocks -> SUBSET Text] /\ last' \in [Blocks -> Known]
          /\ known' \in [Requests -> [Blocks -> Known]]
          /\ texts' \in [Requests -> [Blocks -> Readable \cup {None}]]
          /\ text' \in [Requests -> Known]
      BY <1>0, <2>1, <2>2, <2>3 DEF Known, Readable
    <2>6. TypeOK'
      BY <1>0, <2>3, <2>4, <2>5 DEF TypeOK, seen
    <2> QED BY <2>4, <2>6 DEF LInv
  <1>15. ASSUME NEW r \in Requests, Forward(r) PROVE LInv'
    <2>1. Leave({r}) /\ UNCHANGED <<disk, memory, overlapped, spoilt, life, failures>>
      BY <1>15 DEF Forward
    <2>2. \A i \in 1 .. Len(out[r]) : [text |-> out[r][i], life |-> life] \in [text : Readable, life : Nat]
      BY <1>0, ElementOfSeq
    <2>3. sent' \in [Blocks -> SUBSET [text : Readable, life : Nat]]
      BY <1>0, <1>15, <2>2 DEF Forward
    <2>4. TypeOK' /\ Local'
      BY <1>0, <2>1, <2>3, LeaveLInv DEF TypeOK, disk, memory
    <2> QED BY <2>4 DEF LInv
  \* What is half written is a text.
  <1>16. \A r \in Requests : Writing(r) \subseteq Text
    <2> SUFFICES ASSUME NEW r \in Requests PROVE Writing(r) \subseteq Text
      OBVIOUS
    <2>1. at[r] = "storing" => Raw(Content(r)) \in Text
      BY BlockType, TextType, <1>1 DEF Local, Handling, Raw
    <2>2. at[r] = "remembering" => text[r] \in Text
      BY <1>1 DEF Local
    <2> QED BY <2>1, <2>2 DEF Writing
  <1>17. ASSUME NEW r \in Requests, Fail(r) PROVE LInv'
    <2>1. /\ Leave({r}) /\ failures' \in Nat /\ torn' \subseteq Text /\ spoilt' \subseteq Text
          /\ UNCHANGED <<row, last, evidence, memory, sent, overlapped, life>>
      BY <1>0, <1>16, <1>17 DEF Fail
    <2>2. TypeOK' /\ Local'
      BY <1>0, <2>1, LeaveLInv DEF TypeOK, memory
    <2> QED BY <2>2 DEF LInv
  <1>18. CASE Crash
    <2>1. /\ Leave(Busy) /\ life' \in Nat /\ torn' \subseteq Text /\ spoilt' \subseteq Text
          /\ current' = None /\ pins' = [c \in Contents |-> None] /\ nextEntity' = 1
          /\ known' = [r \in Requests |-> Nothing] /\ texts' = [r \in Requests |-> Nothing]
          /\ UNCHANGED <<row, last, evidence, sent, overlapped, failures>>
      <3>1. torn' \subseteq Text
        <4>1. PICK w \in SUBSET UNION {Writing(r) : r \in Busy} : torn' = torn \cup w
          BY <1>18 DEF Crash
        <4> QED BY <1>0, <1>2, <1>16, <4>1
      <3> QED BY <1>0, <1>18, <3>1 DEF Crash
    <2>2. TypeOK' /\ Local'
      BY <1>0, <1>2, <1>3, <2>1, LeaveLInv DEF TypeOK, Known
    <2> QED BY <2>2 DEF LInv
  <1>19. CASE UNCHANGED vars
    BY <1>19 DEF LInv, TypeOK, Local, vars, disk, memory, request, seen
  <1> QED BY <1>6, <1>7, <1>8, <1>20, <1>9, <1>10, <1>11, <1>12, <1>13, <1>14, <1>15, <1>17, <1>18, <1>19
          DEF Next, Handle

\* The gateway's rows, memory and requests never leave their types, through failures, crashes
\* and requests at once; in particular no text is missing where one is recorded or sent.
THEOREM LiveZoneTypeCorrect == Spec => []TypeOK
  <1>1. LInv /\ [Next]_vars => LInv'
    BY NextLInv
  <1> QED BY <1>1, InitLInv, PTL DEF Spec, LInv

\* ... and the places of the requests in their transcripts.
THEOREM LiveZoneInvariant == Spec => []LInv
  <1>1. LInv /\ [Next]_vars => LInv'
    BY NextLInv
  <1> QED BY <1>1, InitLInv, PTL DEF Spec

\* Only a block that is no scan is remembered.
Remembered == \A r \in Requests : at[r] \in {"remembering", "noting"} => Block(r) \notin Scans

\* Every step keeps it.
LEMMA RememberedStep == ASSUME LInv, Remembered, [Next]_vars PROVE Remembered'
  <1>0. /\ at \in [Requests -> {"new", "loading", "loaded", "next", "storing", "compressing",
                                 "recording", "remembering", "noting", "gone"}]
        /\ conv \in [Requests -> Seq(Blocks)] /\ out \in [Requests -> Seq(Readable)]
    BY DEF LInv, TypeOK
  <1> SUFFICES ASSUME NEW q \in Requests, at'[q] \in {"remembering", "noting"} PROVE Block(q)' \notin Scans
    BY DEF Remembered
  <1>1. ASSUME NEW r \in Requests, Arrive(r) PROVE Block(q)' \notin Scans
    BY <1>0, <1>1 DEF Arrive, Remembered, Block
  <1>2. ASSUME NEW r \in Requests,
               \/ ReadLedger(r) \/ Adopt(r) \/ LookupFails(r) \/ StoreRaw(r)
               \/ Transform(r) \/ Decide(r) \/ StoreCompact(r)
        PROVE  Block(q)' \notin Scans
    BY <1>0, <1>2 DEF ReadLedger, Adopt, LookupFails, StoreRaw, Transform, Decide, StoreCompact, Remembered, Block
  <1>3. ASSUME NEW r \in Requests, Lookup(r) \/ Remember(r) PROVE Block(q)' \notin Scans
    <2>1. q # r /\ at'[q] = at[q] /\ out'[q] = out[q] /\ conv' = conv
      BY <1>0, <1>3 DEF Lookup, Remember, HasNext
    <2> QED BY <2>1 DEF Remembered, Block
  <1>4. ASSUME NEW r \in Requests, RecordDelivery(r) PROVE Block(q)' \notin Scans
    <2>1. CASE q # r
      <3>1. at'[q] = at[q] /\ out'[q] = out[q] /\ conv' = conv
        BY <1>0, <1>4, <2>1 DEF RecordDelivery
      <3> QED BY <3>1 DEF Remembered, Block
    <2>2. CASE q = r
      <3>1. Block(r) \notin Scans /\ out' = out /\ conv' = conv
        BY <1>0, <1>4, <2>2 DEF RecordDelivery
      <3> QED BY <2>2, <3>1 DEF Block
    <2> QED BY <2>1, <2>2
  <1>5. ASSUME NEW S \in SUBSET Requests, Leave(S) PROVE Block(q)' \notin Scans
    <2>1. at'[q] = at[q] /\ out'[q] = out[q] /\ conv'[q] = conv[q]
      BY <1>5 DEF Leave
    <2> QED BY <2>1 DEF Remembered, Block
  <1>6. ASSUME NEW r \in Requests, Forward(r) \/ Fail(r) PROVE Block(q)' \notin Scans
    BY <1>5, <1>6 DEF Forward, Fail
  <1>7. CASE Crash
    BY <1>5, <1>7 DEF Crash, Busy
  <1>8. CASE UNCHANGED vars
    BY <1>8 DEF Remembered, Block, vars, request
  <1> QED BY <1>1, <1>2, <1>3, <1>4, <1>6, <1>7, <1>8 DEF Next, Handle

\* In every state.
LEMMA AlwaysRemembered == Spec => []Remembered
  <1>1. Init => Remembered
    BY DEF Init, Remembered
  <1>2. LInv /\ Remembered /\ [Next]_vars => Remembered'
    BY RememberedStep
  <1> QED BY <1>1, <1>2, LiveZoneInvariant, PTL DEF Spec

-----------------------------------------------------------------------------
(* What is sent is on record.                                              *)

\* Appending to the handled texts of a request.
LEMMA Appended ==
  ASSUME LInv, NEW r \in Requests, NEW t, t \in Readable, Len(out[r]) < Len(conv[r]),
         out' = [out EXCEPT ![r] = Append(@, t)]
  PROVE  /\ \A q \in Requests \ {r} : out'[q] = out[q]
         /\ Len(out[r]) \in Nat /\ Len(out'[r]) = Len(out[r]) + 1
         /\ \A i \in 1 .. Len(out[r]) : out'[r][i] = out[r][i]
         /\ out'[r][Len(out[r]) + 1] = t /\ conv[r][Len(out[r]) + 1] = Block(r)
         /\ \A i \in 1 .. Len(out'[r]) : i \in 1 .. Len(out[r]) \/ i = Len(out[r]) + 1
  <1>1. out \in [Requests -> Seq(Readable)]
    BY DEF LInv, TypeOK
  <1>2. out[r] \in Seq(Readable) /\ Len(out[r]) \in Nat
    BY <1>1, LenProperties
  <1>3. out'[r] = Append(out[r], t) /\ \A q \in Requests \ {r} : out'[q] = out[q]
    BY <1>1
  <1>4. /\ Len(out'[r]) = Len(out[r]) + 1 /\ out'[r][Len(out[r]) + 1] = t
        /\ \A i \in 1 .. Len(out[r]) : out'[r][i] = out[r][i]
    BY <1>2, <1>3, AppendProperties
  <1> QED BY <1>2, <1>3, <1>4 DEF Block

\* Texts that a later request may be given, or that were given, come from rows of the ledger,
\* and a row is behind an evidence row.
HandledOnRecord == \A r \in Requests : \A i \in 1 .. Len(out[r]) :
    conv[r][i] \notin Scans /\ out[r][i] # Torn => out[r][i] \in row[conv[r][i]]
OnRecord ==
    /\ \A b \in Blocks : row[b] # {} => \E e \in evidence : e.of = ContentOf[b]
    /\ \A b \in Blocks : last[b] # None => last[b] \in row[b]
    /\ \A s \in Requests, b \in Blocks : known[s][b] # None => known[s][b] \in row[b]
    /\ \A s \in Requests, b \in Blocks : texts[s][b] \notin {None, Torn} => texts[s][b] \in row[b]
    /\ \A r \in Requests : at[r] \in {"remembering", "noting"} => \E e \in evidence : e.of = Content(r)
    /\ HandledOnRecord
    /\ \A b \in Blocks \ Scans : \A s \in sent[b] : s.text # Torn => s.text \in row[b]

\* A block handled with a text that is torn, or in its row.
LEMMA HandledAppended ==
  ASSUME LInv, NEW r \in Requests, NEW t, t \in Readable, Len(out[r]) < Len(conv[r]),
         out' = [out EXCEPT ![r] = Append(@, t)], conv' = conv,
         \A q \in Requests : \A i \in 1 .. Len(out[q]) :
           conv[q][i] \notin Scans /\ out[q][i] # Torn => out[q][i] \in row'[conv[q][i]],
         Block(r) \notin Scans /\ t # Torn => t \in row'[Block(r)]
  PROVE  HandledOnRecord'
  <1> SUFFICES ASSUME NEW q \in Requests, NEW i \in 1 .. Len(out'[q])
               PROVE  conv[q][i] \notin Scans /\ out'[q][i] # Torn => out'[q][i] \in row'[conv[q][i]]
    BY DEF HandledOnRecord
  <1>1. CASE q # r
    <2>1. out'[q] = out[q]
      BY <1>1, Appended
    <2> QED BY <2>1
  <1>2. CASE q = r /\ i \in 1 .. Len(out[r])
    <2>1. out'[r][i] = out[r][i]
      BY <1>2, Appended
    <2> QED BY <1>2, <2>1
  <1>3. CASE q = r /\ i = Len(out[r]) + 1
    <2>1. out'[q][i] = t /\ conv[q][i] = Block(r)
      BY <1>3, Appended
    <2> QED BY <2>1
  <1>4. q = r => i \in 1 .. Len(out[r]) \/ i = Len(out[r]) + 1
    BY Appended
  <1> QED BY <1>1, <1>2, <1>3, <1>4

\* Every step keeps it: remember appends the row before the text is handled.
LEMMA OnRecordStep == ASSUME LInv, OnRecord, [Next]_vars PROVE OnRecord'
  <1> USE NoneAssumption
  <1>0. /\ row \in [Blocks -> SUBSET Text] /\ last \in [Blocks -> Known]
        /\ known \in [Requests -> [Blocks -> Known]]
        /\ texts \in [Requests -> [Blocks -> Readable \cup {None}]]
        /\ conv \in [Requests -> Seq(Blocks)] /\ out \in [Requests -> Seq(Readable)]
        /\ sent \in [Blocks -> SUBSET [text : Readable, life : Nat]]
        /\ at \in [Requests -> {"new", "loading", "loaded", "next", "storing", "compressing",
                                 "recording", "remembering", "noting", "gone"}]
        /\ Local
    BY DEF LInv, TypeOK
  <1>1. ASSUME NEW r \in Requests, Arrive(r) PROVE OnRecord'
    <2>1. out[r] = <<>> /\ Len(<<>>) = 0
      BY <1>0, <1>1, EmptySeq DEF Arrive, Local
    <2>2. HandledOnRecord'
      BY <1>0, <1>1, <2>1 DEF Arrive, OnRecord, HandledOnRecord, disk
    <2>3. \A q \in Requests : at'[q] \in {"remembering", "noting"} =>
            at[q] = at'[q] /\ Content(q)' = Content(q)
      BY <1>0, <1>1 DEF Arrive, Content, Block
    <2>4. UNCHANGED <<row, last, evidence, known, texts, sent>>
      BY <1>1 DEF Arrive, disk, memory
    <2>5. \A q \in Requests : at'[q] \in {"remembering", "noting"} => \E e \in evidence' : e.of = Content(q)'
      BY <2>3, <2>4 DEF OnRecord
    <2> QED BY <2>2, <2>4, <2>5 DEF OnRecord
  <1>2. ASSUME NEW r \in Requests,
               ReadLedger(r) \/ Adopt(r) \/ StoreRaw(r) \/ Transform(r) \/ Decide(r) \/ StoreCompact(r)
        PROVE  OnRecord'
    <2>1. /\ UNCHANGED <<row, last, evidence, texts, conv, out, sent>>
          /\ known' = known \/ known' = [known EXCEPT ![r] = last]
      BY <1>2 DEF ReadLedger, Adopt, StoreRaw, Transform, Decide, StoreCompact, disk, memory, seen
    <2>2. HandledOnRecord'
      BY <2>1 DEF OnRecord, HandledOnRecord
    <2>3. \A q \in Requests : at'[q] \in {"remembering", "noting"} =>
            at[q] \in {"remembering", "noting"} /\ Content(q)' = Content(q)
      BY <1>0, <1>2 DEF ReadLedger, Adopt, StoreRaw, Transform, Decide, StoreCompact, Content, Block
    <2>4. \A s \in Requests, b \in Blocks : known'[s][b] # None => known'[s][b] \in row[b]
      <3>1. CASE known' = known
        BY <3>1 DEF OnRecord
      <3>2. CASE known' = [known EXCEPT ![r] = last]
        BY <1>0, <3>2 DEF OnRecord
      <3> QED BY <2>1, <3>1, <3>2
    <2>5. \A q \in Requests : at'[q] \in {"remembering", "noting"} => \E e \in evidence' : e.of = Content(q)'
      BY <2>1, <2>3 DEF OnRecord
    <2> QED BY <2>1, <2>2, <2>4, <2>5 DEF OnRecord
  <1>3. ASSUME NEW r \in Requests, Lookup(r) PROVE OnRecord'
    <2>1. HasNext(r) /\ state[r] \in Requests /\ Block(r) \in Blocks /\ Len(out[r]) < Len(conv[r])
          /\ at[r] = "next" /\ known[state[r]][Block(r)] # None
      BY <1>0, <1>3, BlockType DEF Lookup, HasNext, Local
    <2>2. PICK t \in (IF texts[state[r]][Block(r)] # None THEN {texts[state[r]][Block(r)]}
                     ELSE Reads(known[state[r]][Block(r)])) :
            /\ texts' = [texts EXCEPT ![state[r]][Block(r)] = t]
            /\ out' = [out EXCEPT ![r] = Append(@, t)]
      BY <1>3 DEF Lookup
    <2>3. t \in Readable /\ (t # Torn => t \in row[Block(r)])
      <3>1. \/ t = Torn
            \/ texts[state[r]][Block(r)] # None /\ t = texts[state[r]][Block(r)]
            \/ t = known[state[r]][Block(r)]
        BY <2>1, <2>2, ReadsType
      <3> QED BY <2>1, <2>2, <3>1, ReadsType DEF OnRecord
    <2>4. UNCHANGED <<disk, current, known, at, conv, state, text, seen>>
      BY <1>3 DEF Lookup
    <2>5. HandledOnRecord'
      <3>1. row' = row /\ conv' = conv
        BY <2>4 DEF disk
      <3>2. \A q \in Requests : \A i \in 1 .. Len(out[q]) :
              conv[q][i] \notin Scans /\ out[q][i] # Torn => out[q][i] \in row'[conv[q][i]]
        BY <3>1 DEF OnRecord, HandledOnRecord
      <3> QED BY <2>1, <2>2, <2>3, <3>1, <3>2, HandledAppended
    <2>6. \A s \in Requests, b \in Blocks : texts'[s][b] \notin {None, Torn} => texts'[s][b] \in row[b]
      <3> SUFFICES ASSUME NEW s \in Requests, NEW b \in Blocks PROVE
                     texts'[s][b] \notin {None, Torn} => texts'[s][b] \in row[b]
        OBVIOUS
      <3>1. CASE s = state[r] /\ b = Block(r)
        BY <1>0, <2>1, <2>2, <2>3, <3>1
      <3>2. CASE ~(s = state[r] /\ b = Block(r))
        BY <1>0, <2>1, <2>2, <3>2 DEF OnRecord
      <3> QED BY <3>1, <3>2
    <2>7. \A q \in Requests : at[q] \in {"remembering", "noting"} => Content(q)' = Content(q)
      BY <1>0, <2>1, <2>2, <2>4 DEF Content, Block
    <2> QED BY <2>4, <2>5, <2>6, <2>7 DEF OnRecord, disk, seen
  <1>11. ASSUME NEW r \in Requests, LookupFails(r) PROVE OnRecord'
    <2>1. /\ at' = [at EXCEPT ![r] = "storing"] /\ UNCHANGED <<row, last, evidence, texts, conv, out, sent>>
          /\ state[r] \in Requests /\ Block(r) \in Blocks
          /\ known' = [known EXCEPT ![state[r]][Block(r)] = None]
      BY <1>0, <1>11, BlockType DEF LookupFails, HasNext, Local, disk
    <2>2. HandledOnRecord'
      BY <2>1 DEF OnRecord, HandledOnRecord
    <2>3. \A q \in Requests : at'[q] \in {"remembering", "noting"} =>
            at[q] = at'[q] /\ Content(q)' = Content(q)
      BY <1>0, <2>1 DEF Content, Block
    <2>4. \A s \in Requests, b \in Blocks : known'[s][b] \in {known[s][b], None}
      BY <1>0, <2>1
    <2>5. \A s \in Requests, b \in Blocks : known'[s][b] # None => known'[s][b] \in row'[b]
      BY <2>1, <2>4 DEF OnRecord
    <2>6. \A q \in Requests : at'[q] \in {"remembering", "noting"} => \E e \in evidence' : e.of = Content(q)'
      BY <2>1, <2>3 DEF OnRecord
    <2> QED BY <2>1, <2>2, <2>5, <2>6 DEF OnRecord
  <1>4. ASSUME NEW r \in Requests, RecordDelivery(r) PROVE OnRecord'
    <2>1. at[r] \in Handling /\ text[r] \in Text /\ Len(out[r]) < Len(conv[r]) /\ at[r] = "recording"
      BY <1>0, <1>4 DEF RecordDelivery, Handling, Local
    <2>2. /\ \E e \in evidence' : e.of = Content(r)
          /\ evidence \subseteq evidence'
          /\ UNCHANGED <<row, last, torn, memory, conv, state, token, seen>>
      <3>1. evidence' = evidence \cup {[of |-> Content(r), text |-> text[r], life |-> life]}
        BY <1>4 DEF RecordDelivery
      <3>2. [of |-> Content(r), text |-> text[r], life |-> life] \in evidence'
        BY <3>1
      <3>3. \E e \in evidence' : e.of = Content(r)
        BY <3>2
      <3> QED BY <1>4, <3>1, <3>3 DEF RecordDelivery
    <2>3. HandledOnRecord'
      <3>1. CASE out' = out
        BY <2>2, <3>1 DEF OnRecord, HandledOnRecord
      <3>2. CASE Block(r) \in Scans /\ out' = [out EXCEPT ![r] = Append(@, text[r])]
        <4>1. text[r] \in Readable
          BY <2>1 DEF Readable
        <4>2. \A q \in Requests : \A i \in 1 .. Len(out[q]) :
                conv[q][i] \notin Scans /\ out[q][i] # Torn => out[q][i] \in row'[conv[q][i]]
          BY <2>2 DEF OnRecord, HandledOnRecord
        <4> QED BY <2>1, <2>2, <3>2, <4>1, <4>2, HandledAppended
      <3> QED BY <1>4, <3>1, <3>2 DEF RecordDelivery
    <2>4. ASSUME NEW q \in Requests, at'[q] \in {"remembering", "noting"}
          PROVE  \E e \in evidence' : e.of = Content(q)'
      <3>1. CASE q = r
        <4>1. out' = out
          BY <1>0, <1>4, <2>4, <3>1 DEF RecordDelivery
        <4>2. Content(r)' = Content(r)
          BY <2>2, <4>1 DEF Content, Block
        <4> QED BY <2>2, <3>1, <4>2
      <3>2. CASE q # r
        <4>1. at[q] = at'[q] /\ out'[q] = out[q]
          BY <1>0, <1>4, <3>2 DEF RecordDelivery
        <4>2. Content(q)' = Content(q)
          BY <2>2, <4>1 DEF Content, Block
        <4> QED BY <2>2, <2>4, <4>1, <4>2 DEF OnRecord
      <3> QED BY <3>1, <3>2
    <2> QED BY <2>2, <2>3, <2>4 DEF OnRecord, memory, seen
  <1>5. ASSUME NEW r \in Requests, Remember(r) PROVE OnRecord'
    <2>1. at[r] \in Handling /\ text[r] \in Text /\ state[r] \in Requests /\ Len(out[r]) < Len(conv[r])
          /\ at[r] = "noting"
      BY <1>0, <1>5 DEF Remember, Handling, Local
    <2>2. Block(r) \in Blocks
      BY <2>1, Candidates
    <2>3. /\ row' = [row EXCEPT ![Block(r)] = @ \cup {text[r]}]
          /\ last' = [last EXCEPT ![Block(r)] = text[r]]
          /\ known' = [known EXCEPT ![state[r]][Block(r)] = text[r]]
          /\ texts' = [texts EXCEPT ![state[r]][Block(r)] = text[r]]
          /\ out' = [out EXCEPT ![r] = Append(@, text[r])]
          /\ at' = [at EXCEPT ![r] = "next"] /\ conv' = conv /\ evidence' = evidence /\ sent' = sent
      BY <1>5 DEF Remember, seen
    <2>4. text[r] \in row'[Block(r)] /\ \A b \in Blocks : row[b] \subseteq row'[b]
      BY <1>0, <2>2, <2>3
    <2>5. \A b \in Blocks : row'[b] # {} => \E e \in evidence : e.of = ContentOf[b]
      <3>1. \E e \in evidence : e.of = ContentOf[Block(r)]
        BY <2>1 DEF OnRecord, Content
      <3> QED BY <1>0, <2>2, <2>3, <3>1 DEF OnRecord
    <2>6. /\ \A b \in Blocks : last'[b] # None => last'[b] \in row'[b]
          /\ \A s \in Requests, b \in Blocks : known'[s][b] # None => known'[s][b] \in row'[b]
          /\ \A s \in Requests, b \in Blocks : texts'[s][b] \notin {None, Torn} => texts'[s][b] \in row'[b]
      <3>1. ASSUME NEW b \in Blocks PROVE last'[b] # None => last'[b] \in row'[b]
        BY <1>0, <2>2, <2>3, <2>4 DEF OnRecord
      <3>2. ASSUME NEW s \in Requests, NEW b \in Blocks
            PROVE  /\ known'[s][b] # None => known'[s][b] \in row'[b]
                   /\ texts'[s][b] \notin {None, Torn} => texts'[s][b] \in row'[b]
        <4>1. CASE s = state[r] /\ b = Block(r)
          BY <1>0, <2>1, <2>2, <2>3, <2>4, <4>1
        <4>2. CASE ~(s = state[r] /\ b = Block(r))
          BY <1>0, <2>1, <2>2, <2>3, <2>4, <4>2 DEF OnRecord
        <4> QED BY <4>1, <4>2
      <3> QED BY <3>1, <3>2
    <2>7. HandledOnRecord'
      <3>1. text[r] \in Readable
        BY <2>1 DEF Readable
      <3>2. \A q \in Requests : \A i \in 1 .. Len(out[q]) : conv[q][i] \in Blocks
        <4>1. \A q \in Requests : Len(out[q]) \in Nat /\ Len(conv[q]) \in Nat /\ Len(out[q]) <= Len(conv[q])
          BY <1>0, LenProperties DEF Local
        <4>2. \A q \in Requests : \A i \in 1 .. Len(out[q]) : i \in 1 .. Len(conv[q])
          BY <4>1
        <4> QED BY <1>0, <4>2, ElementOfSeq
      <3>3. \A q \in Requests : \A i \in 1 .. Len(out[q]) :
              conv[q][i] \notin Scans /\ out[q][i] # Torn => out[q][i] \in row'[conv[q][i]]
        BY <2>4, <3>2 DEF OnRecord, HandledOnRecord
      <3> QED BY <2>1, <2>3, <2>4, <3>1, <3>3, HandledAppended
    <2>8. ASSUME NEW q \in Requests, at'[q] \in {"remembering", "noting"}
          PROVE  \E e \in evidence : e.of = Content(q)'
      <3>1. q # r /\ at'[q] = at[q] /\ out'[q] = out[q]
        BY <1>0, <2>3, <2>8
      <3>2. Content(q)' = Content(q)
        BY <2>3, <3>1 DEF Content, Block
      <3> QED BY <2>8, <3>1, <3>2 DEF OnRecord
    <2>9. \A b \in Blocks \ Scans : \A s \in sent[b] : s.text # Torn => s.text \in row'[b]
      BY <2>4 DEF OnRecord
    <2> QED BY <2>3, <2>5, <2>6, <2>7, <2>8, <2>9 DEF OnRecord
  <1>6. ASSUME NEW S \in SUBSET Requests, Leave(S), UNCHANGED row
        PROVE  /\ HandledOnRecord'
               /\ \A q \in Requests : at'[q] \in {"remembering", "noting"} =>
                    at[q] = at'[q] /\ Content(q)' = Content(q)
    <2>1. Len(<<>>) = 0 /\ 1 .. 0 = {}
      BY EmptySeq
    <2>2. HandledOnRecord'
      BY <1>6, <2>1 DEF Leave, OnRecord, HandledOnRecord
    <2> QED BY <1>6, <2>2 DEF Leave, Content, Block
  <1>7. ASSUME NEW r \in Requests, Forward(r) PROVE OnRecord'
    <2>1. Leave({r}) /\ UNCHANGED <<disk, memory, overlapped, spoilt, life, failures>>
      BY <1>7 DEF Forward
    <2>2. ASSUME NEW b \in Blocks \ Scans, NEW s \in sent'[b], s.text # Torn PROVE s.text \in row[b]
      <3>1. CASE s \in sent[b]
        BY <2>2, <3>1 DEF OnRecord
      <3>2. CASE s \notin sent[b]
        <4>1. PICK i \in 1 .. Len(out[r]) : conv[r][i] = b /\ s = [text |-> out[r][i], life |-> life]
          BY <1>7, <2>2, <3>2 DEF Forward
        <4> QED BY <2>2, <4>1 DEF OnRecord, HandledOnRecord
      <3> QED BY <3>1, <3>2
    <2> QED BY <1>6, <2>1, <2>2 DEF OnRecord, disk, memory
  <1>8. ASSUME NEW r \in Requests, Fail(r) PROVE OnRecord'
    <2>1. Leave({r}) /\ UNCHANGED <<row, last, evidence, memory, sent, overlapped, life>>
      BY <1>8 DEF Fail
    <2> QED BY <1>6, <2>1 DEF OnRecord, memory
  <1>9. CASE Crash
    <2>1. /\ Leave(Busy) /\ known' = [r \in Requests |-> Nothing] /\ texts' = [r \in Requests |-> Nothing]
          /\ UNCHANGED <<row, last, evidence, sent>> /\ Busy \in SUBSET Requests
      BY <1>9 DEF Crash, Busy
    <2>2. \A s \in Requests, b \in Blocks : known'[s][b] = None /\ texts'[s][b] = None
      BY <2>1 DEF Nothing
    <2> QED BY <1>6, <2>1, <2>2 DEF OnRecord
  <1>10. CASE UNCHANGED vars
    BY <1>10 DEF OnRecord, HandledOnRecord, Content, Block, vars, disk, memory, request, seen
  <1> QED BY <1>1, <1>2, <1>3, <1>11, <1>4, <1>5, <1>7, <1>8, <1>9, <1>10 DEF Next, Handle

\* In every state.
LEMMA AlwaysOnRecord == Spec => []OnRecord
  <1>1. Init => OnRecord
    BY EmptySeq DEF Init, OnRecord, HandledOnRecord, Nothing
  <1>2. LInv /\ OnRecord /\ [Next]_vars => OnRecord'
    BY OnRecordStep
  <1> QED BY <1>1, <1>2, LiveZoneInvariant, PTL DEF Spec

\* No text of a block leaves the gateway before its row and the evidence of its content are on
\* disk, whatever overlaps, fails or crashes.
THEOREM LiveZoneSentOnRecord == Spec => []SentOnRecord
  <1>3. LInv /\ OnRecord => SentOnRecord
    <2> SUFFICES ASSUME LInv, OnRecord, NEW b \in Blocks \ Scans, NEW t \in Delivered(b) \ {Torn}
                 PROVE  t \in row[b] /\ \E e \in evidence : e.of = ContentOf[b]
      BY DEF SentOnRecord
    <2>1. t \in row[b]
      BY DEF Delivered, OnRecord
    <2> QED BY <2>1 DEF OnRecord
  <1> QED BY <1>3, AlwaysOnRecord, LiveZoneInvariant, PTL

-----------------------------------------------------------------------------
(* A pin fixes the text of a content for the life of the process.          *)

\* The text that every delivery of a content must have once one was decided.
Fixed(p, c, t) == IF c \in Unsafe THEN t = Notice(c) ELSE t \in Text /\ p[c] = t

\* Whatever this process recorded, decided, handled or sent is the fixed text.
HandledFixed == \A r \in Requests : \A i \in 1 .. Len(out[r]) :
    conv[r][i] \in Scans => Fixed(pins, ContentOf[conv[r][i]], out[r][i])
Pinning ==
    /\ \A e \in evidence : e.life <= life /\ (e.life = life => Fixed(pins, e.of, e.text))
    /\ \A r \in Requests : at[r] = "recording" => Fixed(pins, Content(r), text[r])
    /\ HandledFixed
    /\ \A b \in Scans : \A s \in sent[b] : s.life <= life /\ (s.life = life => Fixed(pins, ContentOf[b], s.text))
    /\ PinsHold /\ ScanSteady

\* A pin that is set stays, and so does the fixed text.
LEMMA FixedStays ==
  ASSUME NEW p, NEW n, NEW c, NEW t, Fixed(p, c, t), p[c] # None => n[c] = p[c]
  PROVE  Fixed(n, c, t)
BY NoneAssumption DEF Fixed, Notice

\* Steps that keep the pins, the evidence and what was sent.
LEMMA PinningKept ==
  ASSUME LInv, Pinning, UNCHANGED <<pins, evidence, sent, life>>,
         \A r \in Requests : at'[r] = "recording" =>
            at[r] = "recording" /\ Content(r)' = Content(r) /\ text'[r] = text[r],
         HandledFixed'
  PROVE  Pinning'
BY DEF Pinning, PinsHold, ScanSteady

\* A block handled with a text that is fixed when the block is a scan.
LEMMA FixedAppended ==
  ASSUME LInv, HandledFixed, NEW r \in Requests, NEW t, t \in Readable, Len(out[r]) < Len(conv[r]),
         out' = [out EXCEPT ![r] = Append(@, t)], conv' = conv, pins' = pins,
         Block(r) \in Scans => Fixed(pins, Content(r), t)
  PROVE  HandledFixed'
  <1> SUFFICES ASSUME NEW q \in Requests, NEW i \in 1 .. Len(out'[q]), conv[q][i] \in Scans
               PROVE  Fixed(pins, ContentOf[conv[q][i]], out'[q][i])
    BY DEF HandledFixed
  <1>1. CASE q # r
    <2>1. out'[q] = out[q]
      BY <1>1, Appended
    <2> QED BY <2>1 DEF HandledFixed
  <1>2. CASE q = r /\ i \in 1 .. Len(out[r])
    <2>1. out'[r][i] = out[r][i]
      BY <1>2, Appended
    <2> QED BY <1>2, <2>1 DEF HandledFixed
  <1>3. CASE q = r /\ i = Len(out[r]) + 1
    <2>1. out'[q][i] = t /\ conv[q][i] = Block(r)
      BY <1>3, Appended
    <2> QED BY <2>1 DEF Content
  <1>4. q = r => i \in 1 .. Len(out[r]) \/ i = Len(out[r]) + 1
    BY Appended
  <1> QED BY <1>1, <1>2, <1>3, <1>4

\* Every step keeps it: a decision reads the pin and sets it in one go.
LEMMA PinningStep == ASSUME LInv, Remembered, Pinning, [Next]_vars PROVE Pinning'
  <1> USE NoneAssumption
  <1>0. /\ evidence \subseteq [of : Contents, text : Text, life : Nat] /\ pins \in [Contents -> Known]
        /\ sent \in [Blocks -> SUBSET [text : Readable, life : Nat]] /\ life \in Nat
        /\ text \in [Requests -> Known] /\ conv \in [Requests -> Seq(Blocks)] /\ Scans \subseteq Blocks
        /\ at \in [Requests -> {"new", "loading", "loaded", "next", "storing", "compressing",
                                 "recording", "remembering", "noting", "gone"}]
        /\ ContentOf \in [Blocks -> Contents]
        /\ Local
    BY LiveZoneAssumption DEF LInv, TypeOK
  <1>1. ASSUME NEW r \in Requests, Arrive(r) PROVE Pinning'
    <2>1. out[r] = <<>> /\ Len(<<>>) = 0 /\ 1 .. 0 = {}
      BY <1>0, <1>1, EmptySeq DEF Arrive, Local
    <2>2. UNCHANGED <<pins, evidence, sent, life, out, text>>
      BY <1>1 DEF Arrive, disk, memory
    <2>3. \A q \in Requests \ {r} : conv'[q] = conv[q]
      BY <1>0, <1>1 DEF Arrive
    <2>4. HandledFixed'
      BY <2>1, <2>2, <2>3 DEF Pinning, HandledFixed
    <2>5. \A q \in Requests : at'[q] = "recording" =>
            at[q] = "recording" /\ Content(q)' = Content(q) /\ text'[q] = text[q]
      BY <1>0, <1>1, <2>2, <2>3 DEF Arrive, Content, Block
    <2> QED BY <2>2, <2>4, <2>5, PinningKept
  <1>2. ASSUME NEW r \in Requests,
               \/ ReadLedger(r) \/ Adopt(r) \/ LookupFails(r) \/ StoreRaw(r)
               \/ Transform(r) \/ StoreCompact(r)
        PROVE  Pinning'
    <2>1. UNCHANGED <<pins, evidence, sent, life, out, text, conv>>
      BY <1>2 DEF ReadLedger, Adopt, LookupFails, StoreRaw, Transform, StoreCompact, disk, memory, seen
    <2>2. HandledFixed'
      BY <2>1 DEF Pinning, HandledFixed
    <2>3. \A q \in Requests : at'[q] = "recording" =>
            at[q] = "recording" /\ Content(q)' = Content(q) /\ text'[q] = text[q]
      BY <1>0, <1>2, <2>1 DEF ReadLedger, Adopt, LookupFails, StoreRaw, Transform, StoreCompact, Content, Block
    <2> QED BY <2>1, <2>2, <2>3, PinningKept
  <1>3. ASSUME NEW r \in Requests, Lookup(r) PROVE Pinning'
    <2>1. HasNext(r) /\ state[r] \in Requests /\ Block(r) \in Blocks /\ Len(out[r]) < Len(conv[r])
          /\ at[r] = "next" /\ known[state[r]][Block(r)] # None /\ Block(r) \notin Scans
      BY <1>0, <1>3, BlockType DEF Lookup, HasNext, Local
    <2>2. PICK t \in (IF texts[state[r]][Block(r)] # None THEN {texts[state[r]][Block(r)]}
                     ELSE Reads(known[state[r]][Block(r)])) :
            out' = [out EXCEPT ![r] = Append(@, t)]
      BY <1>3 DEF Lookup
    <2>3. t \in Readable
      BY <2>1, <2>2, ReadsType
    <2>4. UNCHANGED <<pins, evidence, sent, life, text, conv, at>>
      BY <1>3 DEF Lookup, disk, seen
    <2>5. HandledFixed'
      BY <2>1, <2>2, <2>3, <2>4, FixedAppended DEF Pinning
    <2>6. \A q \in Requests : at'[q] = "recording" =>
            at[q] = "recording" /\ Content(q)' = Content(q) /\ text'[q] = text[q]
      BY <1>0, <2>1, <2>2, <2>4, Appended, <2>3 DEF Content, Block
    <2> QED BY <2>4, <2>5, <2>6, PinningKept
  <1>4. ASSUME NEW r \in Requests, Decide(r) PROVE Pinning'
    <2>1. at[r] \in Handling /\ Content(r) \in Contents /\ Pinned(r) \in Text
      BY <1>4, Candidates DEF Decide, Handling
    <2>2. UNCHANGED <<evidence, sent, life, conv, out>> /\ at' = [at EXCEPT ![r] = "recording"]
      BY <1>4 DEF Decide, disk, seen
    <2>3. /\ \A c \in Contents : pins[c] # None => pins'[c] = pins[c]
          /\ Fixed(pins', Content(r), text'[r]) /\ \A q \in Requests \ {r} : text'[q] = text[q]
      <3>1. CASE Content(r) \in Unsafe
        <4>1. pins' = pins /\ text' = [text EXCEPT ![r] = Notice(Content(r))]
          BY <1>4, <3>1 DEF Decide
        <4>2. text'[r] = Notice(Content(r)) /\ Content(r)' = Content(r)
          BY <1>0, <2>2, <4>1 DEF Content, Block
        <4> QED BY <1>0, <3>1, <4>1, <4>2 DEF Fixed, Notice
      <3>2. CASE Content(r) \notin Unsafe
        <4>1. pins' = [pins EXCEPT ![Content(r)] = Pinned(r)] /\ text' = [text EXCEPT ![r] = Pinned(r)]
          BY <1>4, <3>2 DEF Decide
        <4>2. text'[r] = Pinned(r) /\ pins'[Content(r)] = Pinned(r) /\ Content(r)' = Content(r)
          BY <1>0, <2>1, <2>2, <4>1 DEF Content, Block
        <4>3. Fixed(pins', Content(r), text'[r])
          BY <2>1, <3>2, <4>2 DEF Fixed
        <4>4. \A c \in Contents : pins[c] # None => pins'[c] = pins[c]
          BY <1>0, <2>1, <4>1 DEF Pinned
        <4> QED BY <1>0, <4>1, <4>3, <4>4
      <3> QED BY <3>1, <3>2
    <2>4. \A c \in Contents : \A t : Fixed(pins, c, t) => Fixed(pins', c, t)
      BY <2>3, FixedStays
    <2>5. \A q \in Requests : Content(q)' = Content(q)
      BY <2>2 DEF Content, Block
    <2>6. \A q \in Requests : at'[q] = "recording" => Fixed(pins', Content(q)', text'[q])
      <3> SUFFICES ASSUME NEW q \in Requests, at'[q] = "recording" PROVE Fixed(pins', Content(q)', text'[q])
        OBVIOUS
      <3>1. CASE q = r
        BY <2>3, <2>5, <3>1
      <3>2. CASE q # r
        <4>1. at[q] = "recording" /\ text'[q] = text[q]
          BY <1>0, <2>2, <2>3, <3>2
        <4>2. Content(q) \in Contents
          BY <4>1, Candidates DEF Handling
        <4>3. Fixed(pins, Content(q), text[q])
          BY <4>1 DEF Pinning
        <4> QED BY <2>3, <2>5, <4>1, <4>2, <4>3 DEF Fixed, Notice
      <3> QED BY <3>1, <3>2
    <2>7. HandledFixed'
      <3> SUFFICES ASSUME NEW q \in Requests, NEW i \in 1 .. Len(out[q]), conv[q][i] \in Scans
                   PROVE  Fixed(pins', ContentOf[conv[q][i]], out[q][i])
        BY <2>2 DEF HandledFixed
      <3>1. ContentOf[conv[q][i]] \in Contents
        BY <1>0
      <3>2. Fixed(pins, ContentOf[conv[q][i]], out[q][i])
        BY DEF Pinning, HandledFixed
      <3> QED BY <2>2, <2>4, <3>1, <3>2 DEF Fixed, Notice
    <2>8. \A e \in evidence : e.life <= life /\ (e.life = life => Fixed(pins', e.of, e.text))
      BY <1>0, <2>4 DEF Pinning
    <2>9. \A b \in Scans : \A s \in sent[b] :
            s.life <= life /\ (s.life = life => Fixed(pins', ContentOf[b], s.text))
      <3> SUFFICES ASSUME NEW b \in Scans, NEW s \in sent[b]
                   PROVE  s.life <= life /\ (s.life = life => Fixed(pins', ContentOf[b], s.text))
        OBVIOUS
      <3>1. ContentOf[b] \in Contents
        BY <1>0
      <3> QED BY <2>4, <3>1 DEF Pinning
    <2>10. PinsHold' /\ ScanSteady'
      BY <2>2 DEF Pinning, PinsHold, ScanSteady
    <2> QED BY <2>2, <2>6, <2>7, <2>8, <2>9, <2>10 DEF Pinning
  <1>5. ASSUME NEW r \in Requests, RecordDelivery(r) PROVE Pinning'
    <2>1. at[r] \in Handling /\ text[r] \in Text /\ Len(out[r]) < Len(conv[r]) /\ at[r] = "recording"
          /\ Fixed(pins, Content(r), text[r])
      BY <1>0, <1>5 DEF RecordDelivery, Handling, Local, Pinning
    <2>2. /\ evidence' = evidence \cup {[of |-> Content(r), text |-> text[r], life |-> life]}
          /\ UNCHANGED <<pins, sent, life, conv>>
      BY <1>5 DEF RecordDelivery, memory, seen
    <2>4. \A e \in evidence' : e.life <= life /\ (e.life = life => Fixed(pins, e.of, e.text))
      <3> SUFFICES ASSUME NEW e \in evidence' PROVE e.life <= life /\ (e.life = life => Fixed(pins, e.of, e.text))
        OBVIOUS
      <3>1. CASE e \in evidence
        BY <3>1 DEF Pinning
      <3>2. CASE e = [of |-> Content(r), text |-> text[r], life |-> life]
        <4>1. e.of = Content(r) /\ e.text = text[r] /\ e.life = life
          BY <3>2
        <4> QED BY <1>0, <2>1, <4>1
      <3> QED BY <2>2, <3>1, <3>2
    <2>5. PinsHold'
      <3> SUFFICES ASSUME NEW d \in evidence', NEW e \in evidence', d.of = e.of, d.life = e.life
                   PROVE  d.text = e.text
        BY DEF PinsHold
      <3>1. CASE d.life = life
        BY <2>4, <3>1 DEF Fixed
      <3>2. CASE d.life # life
        BY <2>2, <3>2 DEF Pinning, PinsHold
      <3> QED BY <3>1, <3>2
    <2>6. HandledFixed'
      <3>1. CASE out' = out
        BY <2>2, <3>1 DEF Pinning, HandledFixed
      <3>2. CASE out' = [out EXCEPT ![r] = Append(@, text[r])]
        <4>1. text[r] \in Readable
          BY <2>1 DEF Readable
        <4> QED BY <2>1, <2>2, <3>2, <4>1, FixedAppended DEF Pinning
      <3> QED BY <1>5, <3>1, <3>2 DEF RecordDelivery
    <2>7. \A q \in Requests : at'[q] = "recording" =>
            q # r /\ at[q] = "recording" /\ Content(q)' = Content(q) /\ text'[q] = text[q]
      <3> SUFFICES ASSUME NEW q \in Requests, at'[q] = "recording"
                   PROVE  q # r /\ at[q] = "recording" /\ Content(q)' = Content(q) /\ text'[q] = text[q]
        OBVIOUS
      <3>1. q # r
        BY <1>0, <1>5 DEF RecordDelivery
      <3>2. at'[q] = at[q] /\ text'[q] = text[q] /\ out'[q] = out[q]
        <4>1. out \in [Requests -> Seq(Readable)]
          BY DEF LInv, TypeOK
        <4>2. CASE Block(r) \in Scans
          BY <1>0, <1>5, <3>1, <4>1, <4>2 DEF RecordDelivery
        <4>3. CASE Block(r) \notin Scans
          BY <1>0, <1>5, <3>1, <4>3 DEF RecordDelivery
        <4> QED BY <4>2, <4>3
      <3> QED BY <2>2, <3>1, <3>2 DEF Content, Block
    <2>8. ScanSteady'
      BY <2>2 DEF Pinning, ScanSteady
    <2>9. \A q \in Requests : at'[q] = "recording" => Fixed(pins', Content(q)', text'[q])
      BY <2>2, <2>7 DEF Pinning
    <2>10. \A b \in Scans : \A s \in sent'[b] : s.life <= life' /\ (s.life = life' => Fixed(pins, ContentOf[b], s.text))
      BY <2>2 DEF Pinning
    <2> QED BY <2>2, <2>4, <2>5, <2>6, <2>8, <2>9, <2>10 DEF Pinning
  <1>6. ASSUME NEW r \in Requests, Remember(r) PROVE Pinning'
    <2>1. at[r] \in Handling /\ text[r] \in Text /\ Len(out[r]) < Len(conv[r]) /\ at[r] = "noting"
      BY <1>0, <1>6 DEF Remember, Handling, Local
    <2>2. /\ out' = [out EXCEPT ![r] = Append(@, text[r])] /\ at' = [at EXCEPT ![r] = "next"]
          /\ text' = [text EXCEPT ![r] = None]
          /\ UNCHANGED <<pins, evidence, sent, life, conv>>
      BY <1>6 DEF Remember, seen
    <2>3. Block(r) \notin Scans /\ text[r] \in Readable
      BY <2>1 DEF Remembered, Readable
    <2>4. HandledFixed'
      BY <2>1, <2>2, <2>3, FixedAppended DEF Pinning
    <2>5. \A q \in Requests : at'[q] = "recording" =>
            at[q] = "recording" /\ Content(q)' = Content(q) /\ text'[q] = text[q]
      <3> SUFFICES ASSUME NEW q \in Requests, at'[q] = "recording"
                   PROVE  at[q] = "recording" /\ Content(q)' = Content(q) /\ text'[q] = text[q]
        OBVIOUS
      <3>1. q # r /\ at'[q] = at[q] /\ text'[q] = text[q]
        BY <1>0, <2>2
      <3>2. out'[q] = out[q]
        BY <2>1, <2>2, <2>3, <3>1, Appended
      <3> QED BY <2>2, <3>1, <3>2 DEF Content, Block
    <2> QED BY <2>2, <2>4, <2>5, PinningKept
  <1>7. ASSUME NEW S \in SUBSET Requests, Leave(S)
        PROVE  /\ \A q \in Requests : at'[q] = "recording" =>
                    at[q] = "recording" /\ Content(q)' = Content(q) /\ text'[q] = text[q]
               /\ \A q \in Requests : out'[q] = <<>> \/ (out'[q] = out[q] /\ conv'[q] = conv[q])
    BY <1>7 DEF Leave, Content, Block
  <1>8. Len(<<>>) = 0 /\ 1 .. 0 = {}
    BY EmptySeq
  <1>9. ASSUME NEW r \in Requests, Fail(r) PROVE Pinning'
    <2>1. Leave({r}) /\ UNCHANGED <<pins, evidence, sent, life>>
      BY <1>9 DEF Fail, memory
    <2>2. HandledFixed'
      BY <1>7, <1>8, <2>1 DEF Pinning, HandledFixed
    <2> QED BY <1>7, <2>1, <2>2, PinningKept
  <1>10. ASSUME NEW r \in Requests, Forward(r) PROVE Pinning'
    <2>1. Leave({r}) /\ UNCHANGED <<pins, evidence, life>>
      BY <1>10 DEF Forward, disk, memory
    <2>2. HandledFixed'
      BY <1>7, <1>8, <2>1 DEF Pinning, HandledFixed
    <2>4. ASSUME NEW b \in Scans, NEW s \in sent'[b]
          PROVE  s.life <= life /\ (s.life = life => Fixed(pins, ContentOf[b], s.text)) /\ (s.life # life => s \in sent[b])
      <3>1. CASE s \in sent[b]
        BY <2>4, <3>1 DEF Pinning
      <3>2. CASE s \notin sent[b]
        <4>1. PICK i \in 1 .. Len(out[r]) : conv[r][i] = b /\ s = [text |-> out[r][i], life |-> life]
          BY <1>0, <1>10, <2>4, <3>2 DEF Forward
        <4>2. Fixed(pins, ContentOf[b], out[r][i])
          BY <4>1 DEF Pinning, HandledFixed
        <4>3. s.life = life /\ s.text = out[r][i]
          BY <4>1
        <4> QED BY <1>0, <4>2, <4>3
      <3> QED BY <3>1, <3>2
    <2>5. ScanSteady'
      <3> SUFFICES ASSUME NEW b \in Scans, NEW s \in sent'[b], NEW t \in sent'[b], s.life = t.life
                   PROVE  s.text = t.text
        BY DEF ScanSteady
      <3>1. CASE s.life = life
        BY <2>4, <3>1 DEF Fixed
      <3>2. CASE s.life # life
        BY <2>4, <3>2 DEF Pinning, ScanSteady
      <3> QED BY <3>1, <3>2
    <2>6. \A q \in Requests : at'[q] = "recording" => Fixed(pins', Content(q)', text'[q])
      BY <1>7, <2>1 DEF Pinning
    <2>7. PinsHold'
      BY <2>1 DEF Pinning, PinsHold
    <2>8. \A e \in evidence' : e.life <= life' /\ (e.life = life' => Fixed(pins, e.of, e.text))
      BY <2>1 DEF Pinning
    <2>9. \A b \in Scans : \A s \in sent'[b] : s.life <= life' /\ (s.life = life' => Fixed(pins, ContentOf[b], s.text))
      BY <2>1, <2>4
    <2> QED BY <2>1, <2>2, <2>5, <2>6, <2>7, <2>8, <2>9 DEF Pinning
  <1>11. CASE Crash
    <2>1. Leave(Busy) /\ UNCHANGED <<evidence, sent>> /\ life' = life + 1 /\ Busy \in SUBSET Requests
      BY <1>11 DEF Crash, Busy
    <2>2. \A q \in Requests : at'[q] \in {"new", "gone"}
      BY <1>0, <2>1 DEF Leave, Busy
    <2>3. \A q \in Requests : out'[q] = <<>>
      BY <1>0, <2>1 DEF Leave, Busy, Local
    <2>4. HandledFixed'
      BY <1>8, <2>3 DEF HandledFixed
    <2>5. \A e \in evidence : e.life \in Nat /\ e.life <= life
      BY <1>0 DEF Pinning
    <2>6. \A b \in Scans : \A s \in sent[b] : s.life \in Nat /\ s.life <= life
      BY <1>0 DEF Pinning
    <2>7. \A e \in evidence' : e.life <= life' /\ e.life # life'
      BY <1>0, <2>1, <2>5
    <2>8. \A b \in Scans : \A s \in sent'[b] : s.life <= life' /\ s.life # life'
      BY <1>0, <2>1, <2>6
    <2>9. PinsHold' /\ ScanSteady'
      BY <2>1 DEF Pinning, PinsHold, ScanSteady
    <2> QED BY <2>2, <2>4, <2>7, <2>8, <2>9 DEF Pinning
  <1>12. CASE UNCHANGED vars
    BY <1>12 DEF Pinning, HandledFixed, PinsHold, ScanSteady, Fixed, Notice, Content, Block,
                 vars, disk, memory, request, seen
  <1> QED BY <1>1, <1>2, <1>3, <1>4, <1>5, <1>6, <1>9, <1>10, <1>11, <1>12 DEF Next, Handle

\* In every state.
LEMMA AlwaysPinning == Spec => []Pinning
  <1>1. Init => Pinning
    <2> SUFFICES ASSUME Init PROVE Pinning
      OBVIOUS
    <2>1. /\ evidence = {} /\ \A b \in Blocks : sent[b] = {}
          /\ \A r \in Requests : at[r] = "new" /\ out[r] = <<>>
      BY DEF Init
    <2>2. Len(<<>>) = 0 /\ 1 .. 0 = {} /\ Scans \subseteq Blocks
      BY EmptySeq, LiveZoneAssumption
    <2>3. HandledFixed
      BY <2>1, <2>2 DEF HandledFixed
    <2> QED BY <2>1, <2>2, <2>3 DEF Pinning, PinsHold, ScanSteady
  <1>2. LInv /\ Remembered /\ Pinning /\ [Next]_vars => Pinning'
    BY PinningStep
  <1> QED BY <1>1, <1>2, LiveZoneInvariant, AlwaysRemembered, PTL DEF Spec

\* However many requests deliver one content at once, the process records one text for it.
THEOREM LiveZonePinsHold == Spec => []PinsHold
  <1>1. Pinning => PinsHold
    BY DEF Pinning
  <1> QED BY <1>1, AlwaysPinning, PTL

\* A scan, delivered anew with every request, keeps its bytes as long as the process lives.
THEOREM LiveZoneScanSteady == Spec => []ScanSteady
  <1>1. Pinning => ScanSteady
    BY DEF Pinning
  <1> QED BY <1>1, AlwaysPinning, PTL
-----------------------------------------------------------------------------
(* A session whose requests do not overlap keeps its bytes.                *)

\* No object of the block was left half written, and none could not be read.
Sound(b) == row[b] \cap spoilt = {}

\* One request at a time: the state in the map is the ledger's, a block in hand has no row, and
\* no block has two, for the blocks that are sound.
Ordered ==
    /\ \A p, q \in Busy : p = q
    /\ current # None => \A b \in Blocks : Sound(b) => known[current][b] = last[b]
    /\ \A r \in Requests : at[r] \in {"loading", "loaded"} => current = None
    /\ \A r \in Requests : at[r] = "loaded" => known[r] = last
    /\ \A r \in Requests : at[r] \in Handling \cup {"next"} => current # None /\ state[r] = current
    /\ \A b \in Blocks : Sound(b) => \A t \in row[b] : t = last[b]
    /\ \A r \in Requests :
         at[r] \in Handling /\ Block(r) \notin Scans /\ Sound(Block(r)) => last[Block(r)] = None

\* What the requests were given so far is half written only for blocks that are not sound.
GivenIntact ==
    \A r \in Requests : \A i \in 1 .. Len(out[r]) :
        conv[r][i] \notin Scans /\ out[r][i] = Torn => ~Sound(conv[r][i])

\* Half written bytes are those of a block that is not sound.
Intact ==
    /\ torn \subseteq spoilt
    /\ \A s \in Requests, b \in Blocks : texts[s][b] = Torn => ~Sound(b)
    /\ GivenIntact
    /\ \A b \in Blocks \ Scans : \A s \in sent[b] : s.text = Torn => ~Sound(b)
Alone == ~overlapped => Ordered /\ Intact

\* A block that is not sound stays so.
LEMMA SpoiltStays ==
  ASSUME LInv, [Next]_vars
  PROVE  /\ spoilt \subseteq spoilt' /\ \A b \in Blocks : row[b] \subseteq row'[b]
         /\ \A b \in Blocks : Sound(b)' => Sound(b)
  <1>1. spoilt \subseteq spoilt'
    BY DEF Next, Handle, Arrive, ReadLedger, Adopt, Lookup, LookupFails, StoreRaw, Transform, Decide,
           RecordDelivery, StoreCompact, Remember, Forward, Fail, Crash, seen, vars
  <1>2. \A b \in Blocks : row[b] \subseteq row'[b]
    <2>1. CASE row' = row
      BY <2>1
    <2>2. ASSUME NEW r \in Requests, row' = [row EXCEPT ![Block(r)] = @ \cup {text[r]}]
          PROVE  \A b \in Blocks : row[b] \subseteq row'[b]
      BY <2>2 DEF LInv, TypeOK
    <2> QED BY <2>1, <2>2 DEF Next, Handle, Arrive, ReadLedger, Adopt, Lookup, LookupFails, StoreRaw,
                 Transform, Decide, RecordDelivery, StoreCompact, Remember, Forward, Fail, Crash, disk, vars
  <1> QED BY <1>1, <1>2 DEF Sound

\* A step of the one request: it is the only one at a block, before and after.
LEMMA OnlyOne ==
  ASSUME LInv, Ordered, NEW r \in Requests, at[r] \notin {"new", "gone"},
         \A q \in Requests \ {r} : at'[q] = at[q], NEW q \in Requests,
         at'[q] \notin {"new", "gone"} \/ at[q] \notin {"new", "gone"}
  PROVE  q = r
BY DEF Ordered, Busy

\* The parts that say where the one request is.
LEMMA OneBusy ==
  ASSUME LInv, Ordered, NEW r \in Requests, at[r] \notin {"new", "gone"},
         \A q \in Requests \ {r} : at'[q] = at[q]
  PROVE  \A p, q \in Busy' : p = q
BY OnlyOne DEF Busy

\* A step that leaves the rows alone and keeps the request at its block, or takes it there.
LEMMA OrderedKept ==
  ASSUME LInv, Ordered, [Next]_vars, NEW r \in Requests, at[r] \in Handling \cup {"next"},
         \A q \in Requests \ {r} : at'[q] = at[q], at'[r] \in Handling \cup {"next"},
         UNCHANGED <<current, last, row, state>>,
         \A b \in Blocks : Sound(b)' => known'[current][b] = known[current][b],
         at'[r] \in Handling => Block(r)' \in Blocks,
         \A b \in Blocks : at'[r] \in Handling /\ Block(r)' = b /\ b \notin Scans /\ Sound(b) /\ Sound(b)'
                             => last[b] = None
  PROVE  Ordered'
  <1>1. at[r] \notin {"new", "gone"} /\ Handling \cap {"new", "gone", "loading", "loaded"} = {}
    BY DEF Handling
  <1>2. \A p, q \in Busy' : p = q
    BY <1>1, OneBusy
  <1>3. \A q \in Requests : at'[q] \in Handling \cup {"next", "loading", "loaded"} => q = r
    BY <1>1, OnlyOne DEF Handling
  <1>4. current # None /\ state[r] = current
    BY DEF Ordered
  <1>5. \A q \in Requests : at'[q] \notin {"loading", "loaded"}
    BY <1>1, <1>3
  <1>6. \A q \in Requests : at'[q] \in Handling \cup {"next"} => current' # None /\ state'[q] = current'
    BY <1>3, <1>4
  <1>7. \A b \in Blocks : Sound(b)' => Sound(b)
    BY SpoiltStays
  <1>8. ASSUME NEW q \in Requests, at'[q] \in Handling, Block(q)' \notin Scans, Sound(Block(q))'
        PROVE  last'[Block(q)'] = None
    <2>1. q = r /\ Block(r)' \in Blocks
      BY <1>3, <1>8
    <2>2. PICK b \in Blocks : Block(r)' = b
      BY <2>1
    <2>3. Sound(b)'
      BY <1>8, <2>1, <2>2 DEF Sound
    <2>4. Sound(b) /\ b \notin Scans
      BY <1>7, <1>8, <2>1, <2>2, <2>3
    <2> QED BY <1>8, <2>1, <2>2, <2>3, <2>4
  <1>9. /\ current' # None => \A b \in Blocks : Sound(b)' => known'[current'][b] = last'[b]
        /\ \A b \in Blocks : Sound(b)' => \A t \in row'[b] : t = last'[b]
    BY <1>7 DEF Ordered
  <1> QED BY <1>2, <1>5, <1>6, <1>8, <1>9 DEF Ordered

\* Every step keeps it, until a second request comes in beside the first.
LEMMA OrderedStep ==
  ASSUME LInv, Remembered, OnRecord, Alone, [Next]_vars, ~overlapped'
  PROVE  Ordered'
  <1> USE NoneAssumption
  <1>0. /\ row \in [Blocks -> SUBSET Text] /\ last \in [Blocks -> Known]
        /\ known \in [Requests -> [Blocks -> Known]] /\ state \in [Requests -> Requests \cup {None}]
        /\ at \in [Requests -> {"new", "loading", "loaded", "next", "storing", "compressing",
                                 "recording", "remembering", "noting", "gone"}]
        /\ current \in Requests \cup {None} /\ text \in [Requests -> Known] /\ overlapped \in BOOLEAN
        /\ out \in [Requests -> Seq(Readable)] /\ Local
    BY DEF LInv, TypeOK
  <1>14. \A b \in Blocks : Sound(b)' => Sound(b)
    BY SpoiltStays
  <1>1. ASSUME NEW r \in Requests, Arrive(r) PROVE Ordered'
    <2>1. Busy = {} /\ ~overlapped
      BY <1>1 DEF Arrive
    <2>2. Ordered /\ at[r] = "new"
      BY <1>1, <2>1 DEF Alone, Arrive
    <2>3. /\ at' = [at EXCEPT ![r] = IF current = None THEN "loading" ELSE "next"]
          /\ state' = [state EXCEPT ![r] = current]
          /\ UNCHANGED <<row, last, current, known, spoilt>>
      BY <1>1 DEF Arrive, disk, memory
    <2>4. \A q \in Requests \ {r} : at'[q] \in {"new", "gone"}
      BY <1>0, <2>1, <2>3 DEF Busy
    <2>5. at'[r] = (IF current = None THEN "loading" ELSE "next") /\ state'[r] = current
      BY <1>0, <2>3
    <2>6. \A p, q \in Busy' : p = q
      BY <2>4 DEF Busy
    <2>7. \A q \in Requests : at'[q] \notin {"new", "gone"} => q = r
      BY <2>4
    <2>8. \A q \in Requests : at'[q] \in {"loading", "loaded"} => current' = None
      BY <2>3, <2>5, <2>7
    <2>9. \A q \in Requests : at'[q] \notin Handling /\ at'[q] # "loaded"
      BY <2>4, <2>5, <2>7 DEF Handling
    <2>10. \A q \in Requests : at'[q] = "next" => current' # None /\ state'[q] = current'
      BY <2>3, <2>5, <2>7
    <2> QED BY <2>2, <2>3, <2>6, <2>8, <2>9, <2>10 DEF Ordered, Sound
  <1>2. ASSUME NEW r \in Requests, Handle(r) \/ Fail(r) PROVE ~overlapped /\ Ordered
    BY <1>2 DEF Handle, Fail, ReadLedger, Adopt, Lookup, LookupFails, StoreRaw, Transform, Decide,
                RecordDelivery, StoreCompact, Remember, Forward, seen, Alone
  <1>3. ASSUME NEW r \in Requests, ReadLedger(r) PROVE Ordered'
    <2>0. Ordered
      BY <1>2, <1>3 DEF Handle
    <2>1. /\ at[r] = "loading" /\ at' = [at EXCEPT ![r] = "loaded"] /\ known' = [known EXCEPT ![r] = last]
          /\ UNCHANGED <<row, last, current, state, spoilt>>
      BY <1>3 DEF ReadLedger, disk, seen
    <2>2. at'[r] = "loaded" /\ known'[r] = last /\ \A q \in Requests \ {r} : at'[q] = at[q]
      BY <1>0, <2>1
    <2>3. \A p, q \in Busy' : p = q
      BY <2>0, <2>1, <2>2, OneBusy
    <2>4. \A q \in Requests : at'[q] \notin {"new", "gone"} => q = r
      BY <2>0, <2>1, <2>2, OnlyOne
    <2>5. current = None
      BY <2>0, <2>1 DEF Ordered
    <2>6. \A q \in Requests : at'[q] \notin Handling \cup {"next"}
      BY <2>2, <2>4 DEF Handling
    <2>7. \A q \in Requests : at'[q] = "loaded" => known'[q] = last'
      BY <2>1, <2>2, <2>4
    <2> QED BY <2>0, <2>1, <2>3, <2>5, <2>6, <2>7 DEF Ordered, Sound
  <1>4. ASSUME NEW r \in Requests, Adopt(r) PROVE Ordered'
    <2>0. Ordered
      BY <1>2, <1>4 DEF Handle
    <2>1. /\ at[r] = "loaded" /\ at' = [at EXCEPT ![r] = "next"] /\ current' = r
          /\ state' = [state EXCEPT ![r] = r] /\ UNCHANGED <<row, last, known, spoilt>>
      BY <1>4 DEF Adopt, disk, seen
    <2>2. at'[r] = "next" /\ state'[r] = r /\ \A q \in Requests \ {r} : at'[q] = at[q]
      BY <1>0, <2>1
    <2>3. \A p, q \in Busy' : p = q
      BY <2>0, <2>1, <2>2, OneBusy
    <2>4. \A q \in Requests : at'[q] \notin {"new", "gone"} => q = r
      BY <2>0, <2>1, <2>2, OnlyOne
    <2>5. known[r] = last
      BY <2>0, <2>1 DEF Ordered
    <2>6. \A q \in Requests : at'[q] \notin Handling \cup {"loading", "loaded"}
      BY <2>2, <2>4 DEF Handling
    <2>7. r # None
      BY <1>0, <2>0, <2>1 DEF Ordered
    <2>8. \A q \in Requests : at'[q] = "next" => state'[q] = r
      BY <2>2, <2>4
    <2> QED BY <2>0, <2>1, <2>3, <2>5, <2>6, <2>7, <2>8 DEF Ordered, Sound
  <1>5. ASSUME NEW r \in Requests, Lookup(r) PROVE Ordered'
    <2>1. Ordered
      BY <1>2, <1>5 DEF Handle
    <2>2. at[r] = "next" /\ at' = at /\ UNCHANGED <<current, known, last, row, state>>
      BY <1>5 DEF Lookup, HasNext, disk
    <2>3. at'[r] \notin Handling
      BY <2>2 DEF Handling
    <2> QED BY <2>1, <2>2, <2>3, OrderedKept
  <1>13. ASSUME NEW r \in Requests, LookupFails(r) PROVE Ordered'
    <2>1. Ordered
      BY <1>2, <1>13 DEF Handle
    <2>2. /\ at[r] = "next" /\ at' = [at EXCEPT ![r] = "storing"] /\ Len(out[r]) < Len(conv[r])
          /\ known[state[r]][Block(r)] # None
          /\ known' = [known EXCEPT ![state[r]][Block(r)] = None]
          /\ spoilt' = spoilt \cup {known[state[r]][Block(r)]}
          /\ UNCHANGED <<current, last, row, state, conv, out>>
      BY <1>13 DEF LookupFails, HasNext, disk
    <2>3. at'[r] = "storing" /\ \A q \in Requests \ {r} : at'[q] = at[q]
      BY <1>0, <2>2
    <2>4. Block(r)' = Block(r) /\ Block(r) \in Blocks /\ state[r] \in Requests
      BY <1>0, <2>2, BlockType DEF Block, Local
    <2>5. known[state[r]][Block(r)] \in row[Block(r)]
      BY <2>2, <2>4 DEF OnRecord
    <2>7. \A b \in Blocks \ {Block(r)} : known'[current][b] = known[current][b]
      BY <1>0, <2>2, <2>4
    <2>8. \A b \in Blocks : Sound(b)' => b # Block(r)
      BY <2>2, <2>4, <2>5 DEF Sound
    <2> QED BY <2>1, <2>2, <2>3, <2>4, <2>7, <2>8, OrderedKept DEF Handling
  <1>6. ASSUME NEW r \in Requests, StoreRaw(r) PROVE Ordered'
    <2>1. Ordered
      BY <1>2, <1>6 DEF Handle
    <2>2. at[r] = "next" /\ at' = [at EXCEPT ![r] = "storing"] /\ Len(out[r]) < Len(conv[r])
          /\ UNCHANGED <<current, known, last, row, state, conv, out>>
      BY <1>6 DEF StoreRaw, HasNext, disk, memory
    <2>3. at'[r] = "storing" /\ \A q \in Requests \ {r} : at'[q] = at[q]
      BY <1>0, <2>2
    <2>4. Block(r)' = Block(r) /\ Block(r) \in Blocks
      BY <2>2, BlockType DEF Block
    <2>5. Sound(Block(r)) => known[state[r]][Block(r)] = last[Block(r)]
      BY <2>1, <2>2, <2>4 DEF Ordered
    <2>6. Block(r) \notin Scans /\ Sound(Block(r)) => last[Block(r)] = None
      BY <1>6, <2>5 DEF StoreRaw
    <2> QED BY <2>1, <2>2, <2>3, <2>4, <2>6, OrderedKept DEF Handling
  <1>7. ASSUME NEW r \in Requests, Transform(r) \/ Decide(r) \/ StoreCompact(r) PROVE Ordered'
    <2>1. Ordered
      BY <1>2, <1>7 DEF Handle
    <2>2. /\ at[r] \in Handling /\ UNCHANGED <<current, known, last, row, state, conv, out>>
          /\ at'[r] \in Handling /\ \A q \in Requests \ {r} : at'[q] = at[q]
      BY <1>0, <1>7 DEF Transform, Decide, StoreCompact, disk, memory, Handling
    <2>3. /\ Block(r)' = Block(r) /\ Block(r) \in Blocks
          /\ Block(r) \notin Scans /\ Sound(Block(r)) => last[Block(r)] = None
      BY <2>1, <2>2, Candidates DEF Block, Ordered
    <2> QED BY <2>1, <2>2, <2>3, OrderedKept
  <1>8. ASSUME NEW r \in Requests, RecordDelivery(r) PROVE Ordered'
    <2>1. Ordered
      BY <1>2, <1>8 DEF Handle
    <2>2. at[r] \in Handling /\ UNCHANGED <<current, known, last, row, state, conv>>
      BY <1>8 DEF RecordDelivery, memory, Handling
    <2>3. CASE Block(r) \in Scans
      <3>1. at'[r] = "next" /\ \A q \in Requests \ {r} : at'[q] = at[q]
        BY <1>0, <1>8, <2>3 DEF RecordDelivery
      <3>2. at'[r] \notin Handling
        BY <3>1 DEF Handling
      <3> QED BY <2>1, <2>2, <3>1, <3>2, OrderedKept
    <2>4. CASE Block(r) \notin Scans
      <3>1. at'[r] = "remembering" /\ out' = out /\ \A q \in Requests \ {r} : at'[q] = at[q]
        BY <1>0, <1>8, <2>4 DEF RecordDelivery
      <3>2. Block(r)' = Block(r) /\ Block(r) \in Blocks /\ (Sound(Block(r)) => last[Block(r)] = None)
        BY <2>1, <2>2, <2>4, <3>1, Candidates DEF Block, Ordered
      <3> QED BY <2>1, <2>2, <3>1, <3>2, OrderedKept DEF Handling
    <2> QED BY <2>3, <2>4
  <1>9. ASSUME NEW r \in Requests, Remember(r) PROVE Ordered'
    <2>1. Ordered
      BY <1>2, <1>9 DEF Handle
    <2>2. at[r] = "noting" /\ at[r] \in Handling /\ text[r] \in Text /\ Block(r) \in Blocks
          /\ state[r] = current /\ current \in Requests /\ current # None
      BY <1>0, <1>9, <2>1, Candidates DEF Remember, Handling, Local, Ordered
    <2>3. Block(r) \notin Scans /\ (Sound(Block(r)) => last[Block(r)] = None)
      BY <2>1, <2>2 DEF Remembered, Ordered
    <2>4. Sound(Block(r)) => row[Block(r)] = {}
      BY <1>0, <2>1, <2>2, <2>3 DEF Ordered
    <2>5. /\ row' = [row EXCEPT ![Block(r)] = @ \cup {text[r]}]
          /\ last' = [last EXCEPT ![Block(r)] = text[r]]
          /\ known' = [known EXCEPT ![current][Block(r)] = text[r]]
          /\ at' = [at EXCEPT ![r] = "next"] /\ UNCHANGED <<current, state>>
      BY <1>9, <2>2 DEF Remember
    <2>6. at'[r] = "next" /\ \A q \in Requests \ {r} : at'[q] = at[q]
      BY <1>0, <2>5
    <2>7. \A p, q \in Busy' : p = q
      BY <2>1, <2>2, <2>6, OneBusy
    <2>8. \A q \in Requests : at'[q] \notin {"new", "gone"} => q = r
      BY <2>1, <2>2, <2>6, OnlyOne
    <2>9. \A b \in Blocks : Sound(b)' => known'[current][b] = last'[b]
      <3> SUFFICES ASSUME NEW b \in Blocks, Sound(b)' PROVE known'[current][b] = last'[b]
        OBVIOUS
      <3>1. CASE b = Block(r)
        BY <1>0, <2>2, <2>5, <3>1
      <3>2. CASE b # Block(r)
        <4>1. known[current][b] = last[b]
          BY <1>14, <2>1, <2>2 DEF Ordered
        <4> QED BY <1>0, <2>2, <2>5, <3>2, <4>1
      <3> QED BY <3>1, <3>2
    <2>10. \A b \in Blocks : Sound(b)' => \A t \in row'[b] : t = last'[b]
      <3> SUFFICES ASSUME NEW b \in Blocks, Sound(b)', NEW t \in row'[b] PROVE t = last'[b]
        OBVIOUS
      <3>1. CASE b = Block(r)
        BY <1>0, <1>14, <2>2, <2>4, <2>5, <3>1
      <3>2. CASE b # Block(r)
        BY <1>0, <1>14, <2>1, <2>2, <2>5, <3>2 DEF Ordered
      <3> QED BY <3>1, <3>2
    <2>11. \A q \in Requests : at'[q] \notin Handling \cup {"loading", "loaded"}
      BY <2>6, <2>8 DEF Handling
    <2>12. \A q \in Requests : at'[q] = "next" => state'[q] = current'
      BY <2>2, <2>5, <2>6, <2>8
    <2> QED BY <2>2, <2>5, <2>7, <2>9, <2>10, <2>11, <2>12 DEF Ordered
  <1>10. ASSUME NEW r \in Requests, Forward(r) \/ Fail(r) PROVE Ordered'
    <2>1. Ordered
      BY <1>2, <1>10 DEF Handle
    <2>2. Leave({r}) /\ UNCHANGED <<row, last, current, known>> /\ at[r] \notin {"new", "gone"}
      BY <1>10 DEF Forward, Fail, disk, memory, Busy
    <2>3. at'[r] = "gone" /\ \A q \in Requests \ {r} : at'[q] = at[q]
      BY <2>2 DEF Leave
    <2>4. \A q \in Requests : at'[q] \in {"new", "gone"}
      BY <2>1, <2>2, <2>3, OnlyOne
    <2>5. Busy' = {}
      BY <2>4 DEF Busy
    <2> QED BY <1>14, <2>1, <2>2, <2>4, <2>5 DEF Ordered, Handling
  <1>11. CASE Crash
    <2>1. Leave(Busy) /\ UNCHANGED <<row, last, overlapped>> /\ current' = None
      BY <1>11 DEF Crash
    <2>2. \A q \in Requests : at'[q] \in {"new", "gone"}
      BY <1>0, <2>1 DEF Leave, Busy
    <2>3. Busy' = {} /\ Ordered
      BY <2>1, <2>2 DEF Busy, Alone
    <2> QED BY <1>14, <2>1, <2>2, <2>3 DEF Ordered, Handling
  <1>12. CASE UNCHANGED vars
    BY <1>12 DEF Alone, Ordered, Sound, Busy, Block, vars, disk, memory, request, seen
  <1> QED BY <1>1, <1>3, <1>4, <1>5, <1>13, <1>6, <1>7, <1>8, <1>9, <1>10, <1>11, <1>12 DEF Next, Handle

\* Where a block was handled, the transcript has one.
LEMMA HandledBlocks ==
  ASSUME LInv
  PROVE  \A q \in Requests : \A i \in 1 .. Len(out[q]) : conv[q][i] \in Blocks
  <1>1. /\ conv \in [Requests -> Seq(Blocks)] /\ out \in [Requests -> Seq(Readable)]
        /\ \A q \in Requests : Len(out[q]) <= Len(conv[q])
    BY DEF LInv, TypeOK, Local
  <1>2. \A q \in Requests : Len(out[q]) \in Nat /\ Len(conv[q]) \in Nat
    BY <1>1, LenProperties
  <1>3. \A q \in Requests : \A i \in 1 .. Len(out[q]) : i \in 1 .. Len(conv[q])
    BY <1>1, <1>2
  <1> QED BY <1>1, <1>3, ElementOfSeq

\* A request keeps what it was given, or leaves with it.
LEMMA GivenKept ==
  ASSUME LInv, Intact, \A b \in Blocks : Sound(b)' => Sound(b),
         \A q \in Requests : out'[q] = <<>> \/ (out'[q] = out[q] /\ conv'[q] = conv[q])
  PROVE  GivenIntact'
  <1> SUFFICES ASSUME NEW q \in Requests, NEW i \in 1 .. Len(out'[q]),
                      conv'[q][i] \notin Scans, out'[q][i] = Torn
               PROVE  ~(row'[conv'[q][i]] \cap spoilt' = {})
    BY DEF GivenIntact, Sound
  <1>1. Len(<<>>) = 0 /\ 1 .. 0 = {}
    BY EmptySeq
  <1>2. out'[q] = out[q] /\ conv'[q] = conv[q]
    BY <1>1
  <1>3. PICK b \in Blocks : conv[q][i] = b
    BY <1>2, HandledBlocks
  <1>4. ~Sound(b)
    BY <1>2, <1>3 DEF Intact, GivenIntact
  <1>5. ~Sound(b)'
    BY <1>4
  <1> QED BY <1>2, <1>3, <1>5 DEF Sound

\* A text that a request is given is half written only for a block that is not sound.
LEMMA GivenAppended ==
  ASSUME LInv, Intact, \A b \in Blocks : Sound(b)' => Sound(b),
         NEW r \in Requests, NEW t, t \in Readable, Len(out[r]) < Len(conv[r]), Block(r) \in Blocks,
         out' = [out EXCEPT ![r] = Append(@, t)], conv' = conv,
         Block(r) \notin Scans /\ t = Torn => ~Sound(Block(r))
  PROVE  GivenIntact'
  <1> SUFFICES ASSUME NEW q \in Requests, NEW i \in 1 .. Len(out'[q]),
                      conv[q][i] \notin Scans, out'[q][i] = Torn
               PROVE  ~(row'[conv[q][i]] \cap spoilt' = {})
    BY DEF GivenIntact, Sound
  <1>1. CASE i \in 1 .. Len(out[q]) /\ out'[q][i] = out[q][i]
    <2>1. PICK b \in Blocks : conv[q][i] = b
      BY <1>1, HandledBlocks
    <2>2. ~Sound(b)
      BY <1>1, <2>1 DEF Intact, GivenIntact
    <2>3. ~Sound(b)'
      BY <2>2
    <2> QED BY <2>1, <2>3 DEF Sound
  <1>2. CASE q = r /\ i = Len(out[r]) + 1
    <2>1. out'[r][i] = t /\ conv[r][i] = Block(r)
      BY <1>2, Appended
    <2>2. PICK b \in Blocks : Block(r) = b
      OBVIOUS
    <2>3. ~Sound(b)
      BY <1>2, <2>1, <2>2
    <2>4. ~Sound(b)'
      BY <2>3
    <2> QED BY <1>2, <2>1, <2>2, <2>4 DEF Sound
  <1>3. CASE q # r
    <2>1. out'[q] = out[q]
      BY <1>3, Appended
    <2> QED BY <1>1, <2>1
  <1>4. CASE q = r /\ i \in 1 .. Len(out[r])
    <2>1. out'[r][i] = out[r][i]
      BY <1>4, Appended
    <2> QED BY <1>1, <1>4, <2>1
  <1>5. q = r => i \in 1 .. Len(out[r]) \/ i = Len(out[r]) + 1
    BY Appended
  <1> QED BY <1>2, <1>3, <1>4, <1>5

\* What a lookup answers.
LEMMA LookupIntact ==
  ASSUME LInv, OnRecord, Ordered, Intact, NEW r \in Requests, Lookup(r)
  PROVE  /\ state[r] \in Requests /\ Block(r) \in Blocks /\ Len(out[r]) < Len(conv[r])
         /\ \E t \in Readable : /\ texts' = [texts EXCEPT ![state[r]][Block(r)] = t]
                                /\ out' = [out EXCEPT ![r] = Append(@, t)]
                                /\ t = Torn => ~Sound(Block(r))
  <1>1. /\ HasNext(r) /\ at[r] = "next" /\ state[r] \in Requests /\ Block(r) \in Blocks
        /\ Len(out[r]) < Len(conv[r]) /\ known[state[r]][Block(r)] # None
    BY BlockType DEF Lookup, HasNext, LInv, Local
  <1>2. PICK t \in (IF texts[state[r]][Block(r)] # None THEN {texts[state[r]][Block(r)]}
                   ELSE Reads(known[state[r]][Block(r)])) :
          /\ texts' = [texts EXCEPT ![state[r]][Block(r)] = t]
          /\ out' = [out EXCEPT ![r] = Append(@, t)]
    BY DEF Lookup
  <1>3. t \in Readable
    BY <1>1, <1>2, ReadsType
  <1>4. ASSUME t = Torn PROVE ~Sound(Block(r))
    <2>1. CASE texts[state[r]][Block(r)] # None
      BY <1>1, <1>2, <1>4, <2>1 DEF Intact
    <2>2. CASE texts[state[r]][Block(r)] = None
      <3>1. known[state[r]][Block(r)] \in row[Block(r)] /\ row[Block(r)] \subseteq Text
        BY <1>1 DEF OnRecord, LInv, TypeOK
      <3>2. \A q \in Busy : q = r
        BY <1>1 DEF Ordered, Busy
      <3>3. Writing(r) = {}
        BY <1>1 DEF Writing
      <3>4. known[state[r]][Block(r)] \in torn
        BY <1>2, <1>4, <2>2, <3>1, <3>2, <3>3, NoneAssumption DEF Reads
      <3> QED BY <3>1, <3>4 DEF Intact, Sound
    <2> QED BY <2>1, <2>2
  <1> QED BY <1>1, <1>2, <1>3, <1>4

\* Every step keeps it.
LEMMA IntactStep ==
  ASSUME LInv, LInv', OnRecord, Alone, [Next]_vars, ~overlapped'
  PROVE  Intact'
  <1> USE NoneAssumption
  <1>0. /\ texts \in [Requests -> [Blocks -> Readable \cup {None}]]
        /\ conv \in [Requests -> Seq(Blocks)] /\ out \in [Requests -> Seq(Readable)]
        /\ text \in [Requests -> Known] /\ Local
    BY DEF LInv, TypeOK
  <1>1. Ordered /\ Intact
    <2>1. ~overlapped
      BY DEF Next, Handle, Arrive, ReadLedger, Adopt, Lookup, LookupFails, StoreRaw, Transform, Decide,
             RecordDelivery, StoreCompact, Remember, Forward, Fail, Crash, seen, vars
    <2> QED BY <2>1 DEF Alone
  <1>2. spoilt \subseteq spoilt' /\ \A b \in Blocks : Sound(b)' => Sound(b)
    BY SpoiltStays
  <1>3. torn' \subseteq spoilt'
    <2>1. torn' \subseteq torn \/ spoilt' = spoilt \cup torn'
      BY DEF Next, Handle, Arrive, ReadLedger, Adopt, Lookup, LookupFails, StoreRaw, Transform, Decide,
             RecordDelivery, StoreCompact, Remember, Forward, Fail, Crash, disk, vars
    <2> QED BY <1>1, <1>2, <2>1 DEF Intact
  <1> DEFINE Kept == \A s \in Requests, b \in Blocks : texts'[s][b] = Torn => ~Sound(b)'
             Told == \A b \in Blocks \ Scans : \A s \in sent'[b] : s.text = Torn => ~Sound(b)'
             Given == GivenIntact'
  <1>6. ASSUME UNCHANGED texts PROVE Kept
    BY <1>1, <1>2, <1>6 DEF Intact
  <1>7. ASSUME UNCHANGED <<out, conv>> PROVE Given
    BY <1>1, <1>2, <1>7, GivenKept
  <1>8. ASSUME UNCHANGED sent PROVE Told
    BY <1>1, <1>2, <1>8 DEF Intact
  <1>9. ASSUME NEW r \in Requests, NEW t \in Readable, Len(out[r]) < Len(conv[r]), conv' = conv,
               Block(r) \in Blocks, out' = [out EXCEPT ![r] = Append(@, t)],
               Block(r) \notin Scans /\ t = Torn => ~Sound(Block(r))
        PROVE  Given
    BY <1>1, <1>2, <1>9, GivenAppended
  <1>10. ASSUME NEW S \in SUBSET Requests, Leave(S) PROVE Given
    <2>1. \A q \in Requests : out'[q] = <<>> \/ (out'[q] = out[q] /\ conv'[q] = conv[q])
      BY <1>10 DEF Leave
    <2> QED BY <1>1, <1>2, <2>1, GivenKept
  <1>11. ASSUME NEW r \in Requests,
                \/ ReadLedger(r) \/ Adopt(r) \/ LookupFails(r) \/ StoreRaw(r)
                \/ Transform(r) \/ Decide(r) \/ StoreCompact(r)
         PROVE  Kept /\ Given /\ Told
    <2>1. UNCHANGED <<texts, out, conv, sent>>
      BY <1>11 DEF ReadLedger, Adopt, LookupFails, StoreRaw, Transform, Decide, StoreCompact, memory, seen
    <2> QED BY <1>6, <1>7, <1>8, <2>1
  <1>12. ASSUME NEW r \in Requests, Arrive(r) PROVE Kept /\ Given /\ Told
    <2>1. UNCHANGED <<texts, out, sent>> /\ \A q \in Requests \ {r} : conv'[q] = conv[q]
      BY <1>0, <1>12 DEF Arrive, memory
    <2>2. out[r] = <<>>
      BY <1>0, <1>12 DEF Arrive, Local
    <2>3. Given
      BY <1>1, <1>2, <2>1, <2>2, GivenKept
    <2> QED BY <1>6, <1>8, <2>1, <2>3
  <1>13. ASSUME NEW r \in Requests, Lookup(r) PROVE Kept /\ Given /\ Told
    <2>1. PICK t \in Readable : /\ texts' = [texts EXCEPT ![state[r]][Block(r)] = t]
                                /\ out' = [out EXCEPT ![r] = Append(@, t)]
                                /\ t = Torn => ~Sound(Block(r))
      BY <1>1, <1>13, LookupIntact
    <2>2. state[r] \in Requests /\ Block(r) \in Blocks /\ Len(out[r]) < Len(conv[r])
      BY <1>1, <1>13, LookupIntact
    <2>3. UNCHANGED <<conv, sent>>
      BY <1>13 DEF Lookup, seen
    <2>4. Given
      BY <1>9, <2>1, <2>2, <2>3
    <2>5. ASSUME NEW s \in Requests, NEW b \in Blocks, texts'[s][b] = Torn PROVE ~Sound(b)'
      <3>1. CASE s = state[r] /\ b = Block(r)
        BY <1>0, <1>2, <2>1, <2>2, <2>5, <3>1
      <3>2. CASE ~(s = state[r] /\ b = Block(r))
        <4>1. texts[s][b] = Torn
          BY <1>0, <2>1, <2>2, <2>5, <3>2
        <4> QED BY <1>1, <1>2, <4>1 DEF Intact
      <3> QED BY <3>1, <3>2
    <2> QED BY <1>8, <2>3, <2>4, <2>5
  <1>14. ASSUME NEW r \in Requests, RecordDelivery(r) PROVE Kept /\ Given /\ Told
    <2>1. at[r] \in Handling /\ Len(out[r]) < Len(conv[r]) /\ UNCHANGED <<texts, conv, sent>>
      BY <1>0, <1>14 DEF RecordDelivery, Local, Handling, memory, seen
    <2>4. text[r] \in Readable /\ text[r] # Torn /\ Block(r) \in Blocks
      BY <1>0, <1>14, <2>1, Candidates DEF RecordDelivery, Local, Readable
    <2>2. CASE Block(r) \in Scans
      <3>1. out' = [out EXCEPT ![r] = Append(@, text[r])]
        BY <1>14, <2>2 DEF RecordDelivery
      <3> QED BY <1>6, <1>8, <1>9, <2>1, <2>2, <2>4, <3>1
    <2>3. CASE Block(r) \notin Scans
      <3>1. out' = out
        BY <1>14, <2>3 DEF RecordDelivery
      <3> QED BY <1>6, <1>7, <1>8, <2>1, <3>1
    <2> QED BY <2>2, <2>3
  <1>15. ASSUME NEW r \in Requests, Remember(r) PROVE Kept /\ Given /\ Told
    <2>1. text[r] \in Text /\ state[r] \in Requests /\ Len(out[r]) < Len(conv[r]) /\ at[r] \in Handling
      BY <1>0, <1>15 DEF Remember, Local, Handling
    <2>2. Block(r) \in Blocks /\ text[r] \in Readable /\ text[r] # Torn
      BY <2>1, Candidates DEF Readable
    <2>3. /\ texts' = [texts EXCEPT ![state[r]][Block(r)] = text[r]]
          /\ out' = [out EXCEPT ![r] = Append(@, text[r])] /\ UNCHANGED <<conv, sent>>
      BY <1>15 DEF Remember, seen
    <2>4. Given
      BY <1>9, <2>1, <2>2, <2>3
    <2>5. ASSUME NEW s \in Requests, NEW b \in Blocks, texts'[s][b] = Torn PROVE texts[s][b] = Torn
      BY <1>0, <2>1, <2>2, <2>3, <2>5
    <2>6. Kept
      BY <1>1, <1>2, <2>5 DEF Intact
    <2> QED BY <1>8, <2>3, <2>4, <2>6
  <1>16. ASSUME NEW r \in Requests, Forward(r) PROVE Kept /\ Given /\ Told
    <2>1. Leave({r}) /\ UNCHANGED texts
      BY <1>16 DEF Forward, memory
    <2>2. ASSUME NEW b \in Blocks \ Scans, NEW s \in sent'[b], s.text = Torn PROVE ~Sound(b)'
      <3>1. CASE s \in sent[b]
        BY <1>1, <1>2, <2>2, <3>1 DEF Intact
      <3>2. CASE s \notin sent[b]
        <4>1. PICK i \in 1 .. Len(out[r]) : conv[r][i] = b /\ s = [text |-> out[r][i], life |-> life]
          BY <1>16, <2>2, <3>2 DEF Forward
        <4>2. out[r][i] = Torn
          BY <2>2, <4>1
        <4> QED BY <1>1, <1>2, <2>2, <4>1, <4>2 DEF Intact, GivenIntact
      <3> QED BY <3>1, <3>2
    <2> QED BY <1>6, <1>10, <2>1, <2>2
  <1>17. ASSUME NEW r \in Requests, Fail(r) PROVE Kept /\ Given /\ Told
    BY <1>6, <1>8, <1>10, <1>17 DEF Fail, memory
  <1>18. ASSUME Crash PROVE Kept /\ Given /\ Told
    <2>1. /\ Leave(Busy) /\ Busy \in SUBSET Requests /\ sent' = sent
          /\ \A s \in Requests, b \in Blocks : texts'[s][b] = None
      BY <1>18 DEF Crash, Busy, Nothing
    <2>2. Kept
      BY <2>1, NoneAssumption
    <2> QED BY <1>8, <1>10, <2>1, <2>2
  <1>19. ASSUME UNCHANGED vars PROVE Kept /\ Given /\ Told
    BY <1>6, <1>7, <1>8, <1>19 DEF vars, memory, request, seen
  <1> HIDE DEF Kept, Given, Told
  <1>20. Kept /\ Given /\ Told
    BY <1>11, <1>12, <1>13, <1>14, <1>15, <1>16, <1>17, <1>18, <1>19 DEF Next, Handle
  <1> QED BY <1>3, <1>20 DEF Intact, Kept, Given, Told

\* A session whose requests do not overlap sends every block with one text, unless an object of
\* the block was left half written or could not be read: what is sent is a row, and a block gets
\* no second row.
THEOREM LiveZoneSameBytesAlone == Spec => []SameBytesAlone
  <1>1. Init => Alone
    <2> SUFFICES ASSUME Init PROVE Ordered /\ Intact
      BY DEF Alone
    <2>1. \A r \in Requests : at[r] = "new" /\ out[r] = <<>>
      BY DEF Init
    <2>2. Busy = {}
      BY <2>1 DEF Busy
    <2>3. Ordered
      BY <2>1, <2>2 DEF Init, Ordered, Handling
    <2>4. Len(<<>>) = 0 /\ 1 .. 0 = {}
      BY EmptySeq
    <2>5. GivenIntact
      BY <2>1, <2>4 DEF GivenIntact
    <2>6. /\ \A s \in Requests, b \in Blocks : texts[s][b] # Torn
          /\ \A b \in Blocks : sent[b] = {}
      BY NoneAssumption DEF Init, Nothing
    <2>7. torn = {}
      BY DEF Init
    <2> QED BY <2>3, <2>5, <2>6, <2>7 DEF Intact
  <1>2. LInv /\ LInv' /\ Remembered /\ OnRecord /\ Alone /\ [Next]_vars => Alone'
    BY OrderedStep, IntactStep DEF Alone
  <1>3. LInv /\ OnRecord /\ Alone => SameBytesAlone
    <2> SUFFICES ASSUME LInv, OnRecord, Ordered, Intact, NEW b \in Blocks \ Scans, Sound(b)
                 PROVE  ~(Cardinality(Delivered(b)) > 1)
      BY DEF Alone, SameBytesAlone, Sound
    <2>1. Delivered(b) \subseteq {last[b]}
      BY DEF Delivered, OnRecord, Ordered, Intact
    <2>2. IsFiniteSet({last[b]}) /\ Cardinality({last[b]}) = 1
      BY FS_Singleton
    <2>3. Cardinality(Delivered(b)) <= 1 /\ Cardinality(Delivered(b)) \in Nat
      BY <2>1, <2>2, FS_Subset, FS_CardinalityType
    <2> QED BY <2>3
  <1> QED BY <1>1, <1>2, <1>3, LiveZoneInvariant, AlwaysRemembered, AlwaysOnRecord, PTL DEF Spec
=============================================================================
