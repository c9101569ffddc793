------------------------------ MODULE LiveZone ------------------------------
(***************************************************************************)
(* What the context gateway sends upstream for the tool results of one     *)
(* session: transformRequest, the context runtime's deliver, the ledger    *)
(* and the object store underneath (packages/context-gateway, context-     *)
(* runtime, context-store). The agent resends its whole transcript with    *)
(* every request; a block is one tool result, known by its tool_use_id and *)
(* the hash of its content.                                                *)
(*                                                                         *)
(* at walks a request from await to await. A content that holds a personal *)
(* name is given a pseudonym that no earlier delivery of the process used  *)
(* (mintUnlinkedPersonalToken), so that delivering it twice gives two      *)
(* different texts: only the ledger and the pins make bytes come again.    *)
(*                                                                         *)
(* A definition marked "Mutant" is a plausible bug of the one after it.     *)
(***************************************************************************)
EXTENDS Naturals, Sequences, FiniteSets

CONSTANTS
    Blocks, Contents,
    ContentOf,     \* [Blocks -> Contents]
    Scans,         \* blocks isScanRead leaves uncompressed: a Read of prose or of a log
    Named,         \* contents with a personal name
    Unsafe,        \* contents the exact-output scan withholds
    Shrinks, Pays, \* contents a compressor reduces; those where the marker is paid for
    Conversations, \* what the agent may send: sequences of blocks
    HintLimit,     \* retrieve hints per request; 0 when retrieval is disabled
    MaxRequests, AtOnce, MaxCrashes, MaxFailures,
    None, Torn     \* no text; the bytes of a half-written object

ASSUME LiveZoneAssumption ==
    /\ ContentOf \in [Blocks -> Contents] /\ Scans \subseteq Blocks
    /\ Conversations \subseteq Seq(Blocks)
    /\ HintLimit \in Nat /\ MaxRequests \in Nat /\ AtOnce \in Nat
    /\ MaxCrashes \in Nat /\ MaxFailures \in Nat

Requests == 1..MaxRequests

\* A text: the content it stands for, its pseudonym (0: none), what of the content it shows,
\* and the marker in front of it.
Text == [of : Contents, token : Nat, shows : {"view", "whole", "notice"},
         mark : {"none", "marker", "hint"}]

ASSUME NoneAssumption == None \notin Text \cup Requests /\ Torn \notin Text /\ None # Torn

VARIABLES
    row,      \* delivered-block rows of the ledger, per block: every text recorded
    last,     \* ... and the last one, which a load keeps
    evidence, \* delivery rows: content, the text the runtime delivered, the process
    torn,     \* objects a crash or a failed write left half written
    current,  \* the prefixes map: the request whose load filled it, or None
    known,    \* PrefixState.blocks, per request that loaded one
    texts,    \* PrefixState.texts
    pins,     \* ContextRuntime.delivered: content |-> text
    nextEntity, \* the pseudonym counter of the alias context
    at,       \* where each request is
    conv,     \* the blocks it carries
    state,    \* the PrefixState it uses
    out,      \* the texts of the blocks handled so far
    token,    \* the pseudonym of the delivery under way
    text,     \* its text: the candidate, then the final one
    hinted,   \* hints given in this request
    sent,     \* what the provider received, per block: texts with the process that sent them
    overlapped, \* two requests were handled at once
    spoilt,   \* history: objects that were left half written, or could not be read
    life, failures

disk   == <<row, last, evidence, torn>>
memory == <<current, known, texts, pins, nextEntity>>
request == <<at, conv, state, out, token, text, hinted>>
seen   == <<sent, overlapped, spoilt, life, failures>>
vars   == <<disk, memory, request, seen>>

Nothing == [b \in Blocks |-> None]

Init ==
    /\ row = [b \in Blocks |-> {}] /\ last = Nothing /\ evidence = {} /\ torn = {}
    /\ current = None /\ pins = [c \in Contents |-> None] /\ nextEntity = 1
    /\ known = [r \in Requests |-> Nothing] /\ texts = known
    /\ at = [r \in Requests |-> "new"] /\ conv = [r \in Requests |-> <<>>]
    /\ state = [r \in Requests |-> None] /\ out = conv
    /\ token = [r \in Requests |-> 0] /\ text = state /\ hinted = token
    /\ sent = row /\ overlapped = FALSE /\ spoilt = {} /\ life = 0 /\ failures = 0

(***************************************************************************)
(* The object store. put rewrites the object of its bytes in place, also   *)
(* when it is there: between the truncation and the write a reader, or a   *)
(* restart, finds it torn.                                                 *)
(***************************************************************************)
Busy == {r \in Requests : at[r] \notin {"new", "gone"}}

\* The requests of S are answered, failed or lost: their locals go with them.
Leave(S) ==
    /\ at' = [r \in Requests |-> IF r \in S THEN "gone" ELSE at[r]]
    /\ conv' = [r \in Requests |-> IF r \in S THEN <<>> ELSE conv[r]]
    /\ state' = [r \in Requests |-> IF r \in S THEN None ELSE state[r]]
    /\ out' = [r \in Requests |-> IF r \in S THEN <<>> ELSE out[r]]
    /\ token' = [r \in Requests |-> IF r \in S THEN 0 ELSE token[r]]
    /\ text' = [r \in Requests |-> IF r \in S THEN None ELSE text[r]]
    /\ hinted' = [r \in Requests |-> IF r \in S THEN 0 ELSE hinted[r]]

Block(r) == conv[r][Len(out[r]) + 1]
Content(r) == ContentOf[Block(r)]
Raw(c) == [of |-> c, token |-> 0, shows |-> "whole", mark |-> "none"]

Writing(r) ==
    CASE at[r] = "storing" -> {Raw(Content(r))}
      [] at[r] = "remembering" -> {text[r]}
      [] OTHER -> {}

\* What store.get may return for the object of t.
Reads(t) ==
    IF t \in torn THEN {Torn}
    ELSE {t} \cup (IF \E r \in Busy : t \in Writing(r) THEN {Torn} ELSE {})

(***************************************************************************)
(* A request. The next one comes in with any transcript of the agent; two  *)
(* are handled at once when the agent repeats a request it gave up on.     *)
(***************************************************************************)
Arrive(r) ==
    /\ at[r] = "new" /\ \A q \in 1..(r - 1) : at[q] # "new"
    /\ Cardinality(Busy) < AtOnce
    /\ \E c \in Conversations : conv' = [conv EXCEPT ![r] = c]
    /\ at' = [at EXCEPT ![r] = IF current = None THEN "loading" ELSE "next"]
    /\ state' = [state EXCEPT ![r] = current]
    /\ overlapped' = (overlapped \/ Busy # {})
    /\ UNCHANGED <<disk, memory, out, token, text, hinted, sent, spoilt, life, failures>>

\* Mutant: a new state starts empty.
StartEmpty(r) ==
    /\ at[r] = "loading"
    /\ at' = [at EXCEPT ![r] = "loaded"]
    /\ UNCHANGED <<disk, memory, conv, state, out, token, text, hinted, seen>>

\* prefixFor found no state: PrefixState.load reads the ledger, the last row of a block wins.
ReadLedger(r) ==
    /\ at[r] = "loading"
    /\ at' = [at EXCEPT ![r] = "loaded"]
    /\ known' = [known EXCEPT ![r] = last]
    /\ UNCHANGED <<disk, current, texts, pins, nextEntity, conv, state, out, token, text, hinted, seen>>

\* prefixes.set, whether or not another load has filled the map meanwhile.
Adopt(r) ==
    /\ at[r] = "loaded"
    /\ at' = [at EXCEPT ![r] = "next"]
    /\ current' = r /\ state' = [state EXCEPT ![r] = r]
    /\ UNCHANGED <<disk, known, texts, pins, nextEntity, conv, out, token, text, hinted, seen>>

HasNext(r) == at[r] = "next" /\ Len(out[r]) < Len(conv[r])

\* A block delivered before: the cached text, or the compact object of its row.
Lookup(r) ==
    /\ HasNext(r) /\ Block(r) \notin Scans
    /\ LET b == Block(r)
           s == state[r] IN
       /\ known[s][b] # None
       /\ \E t \in (IF texts[s][b] # None THEN {texts[s][b]} ELSE Reads(known[s][b])) :
             /\ texts' = [texts EXCEPT ![s][b] = t]
             /\ out' = [out EXCEPT ![r] = Append(@, t)]
    /\ UNCHANGED <<disk, current, known, pins, nextEntity, at, conv, state, token, text, hinted, seen>>

\* The compact object cannot be read: the state forgets the block, and deliver is given it as a
\* new one.
LookupFails(r) ==
    /\ HasNext(r) /\ Block(r) \notin Scans
    /\ failures < MaxFailures /\ failures' = failures + 1
    /\ LET b == Block(r)
           s == state[r] IN
       /\ known[s][b] # None /\ texts[s][b] = None
       /\ known' = [known EXCEPT ![s][b] = None]
       /\ spoilt' = spoilt \cup {known[s][b]}
    /\ at' = [at EXCEPT ![r] = "storing"]
    /\ UNCHANGED <<disk, current, texts, pins, nextEntity, conv, state, out, token, text, hinted, sent,
                   overlapped, life>>

\* A new block, or a scan: deliver stores the raw bytes first.
StoreRaw(r) ==
    /\ HasNext(r)
    /\ Block(r) \in Scans \/ known[state[r]][Block(r)] = None
    /\ at' = [at EXCEPT ![r] = "storing"]
    /\ UNCHANGED <<disk, memory, conv, state, out, token, text, hinted, seen>>

\* The raw object is whole. Every delivery of a named content mints a pseudonym of its own.
Transform(r) ==
    /\ at[r] = "storing"
    /\ at' = [at EXCEPT ![r] = "compressing"]
    /\ torn' = torn \ Writing(r)
    /\ IF Content(r) \in Named
       THEN /\ token' = [token EXCEPT ![r] = nextEntity]
            /\ nextEntity' = nextEntity + 1
       ELSE /\ token' = [token EXCEPT ![r] = 0]
            /\ UNCHANGED nextEntity
    /\ UNCHANGED <<row, last, evidence, current, known, texts, pins, conv, state, out, text, hinted, seen>>

\* The compressed text, the whole text when nothing is gained or compression was not asked for.
Candidate(r) ==
    [of |-> Content(r), token |-> token[r], mark |-> "none",
     shows |-> IF Block(r) \notin Scans /\ Content(r) \in Shrinks THEN "view" ELSE "whole"]

Notice(c) == [of |-> c, token |-> 0, shows |-> "notice", mark |-> "none"]

\* Mutant: nothing is pinned.
Unpinned(r) == Candidate(r)

\* Mutant: the pin is looked up for compressed deliveries only.
PinnedView(r) ==
    IF Block(r) \notin Scans /\ pins[Content(r)] # None THEN pins[Content(r)] ELSE Candidate(r)

\* A text delivered before for the same object replaces the candidate.
Pinned(r) == IF pins[Content(r)] # None THEN pins[Content(r)] ELSE Candidate(r)

\* Compression is done: the pin is read, the exact output scanned, and a new text pinned.
Decide(r) ==
    /\ at[r] = "compressing"
    /\ at' = [at EXCEPT ![r] = "recording"]
    /\ IF Content(r) \in Unsafe
       THEN text' = [text EXCEPT ![r] = Notice(Content(r))] /\ UNCHANGED pins
       ELSE /\ text' = [text EXCEPT ![r] = Pinned(r)]
            /\ pins' = [pins EXCEPT ![Content(r)] = Pinned(r)]
    /\ UNCHANGED <<disk, current, known, texts, nextEntity, conv, state, out, token, hinted, seen>>

\* The marker is put in front only where it pays; else the scanned original goes out, not the
\* candidate. The decision rests on the sizes of this compression, also when a pin replaced it.
Final(r) ==
    IF text[r].shows = "notice" THEN text[r]
    ELSE IF Content(r) \in Pays
         THEN [text[r] EXCEPT !.mark = IF hinted[r] < HintLimit THEN "hint" ELSE "marker"]
         ELSE [of |-> Content(r), token |-> token[r], shows |-> "whole", mark |-> "none"]

\* Only a text with a marker counts against the hints of the request.
Hints(r) ==
    IF text[r].shows # "notice" /\ Content(r) \in Pays /\ hinted[r] < HintLimit
    THEN hinted[r] + 1 ELSE hinted[r]

\* The evidence row is on disk: a scan is done, another block still has to be remembered.
RecordDelivery(r) ==
    /\ at[r] = "recording"
    /\ evidence' = evidence \cup {[of |-> Content(r), text |-> text[r], life |-> life]}
    /\ IF Block(r) \in Scans
       THEN /\ out' = [out EXCEPT ![r] = Append(@, text[r])]
            /\ at' = [at EXCEPT ![r] = "next"]
            /\ text' = [text EXCEPT ![r] = None]
            /\ UNCHANGED hinted
       ELSE /\ text' = [text EXCEPT ![r] = Final(r)]
            /\ hinted' = [hinted EXCEPT ![r] = Hints(r)]
            /\ at' = [at EXCEPT ![r] = "remembering"]
            /\ UNCHANGED out
    /\ UNCHANGED <<row, last, torn, memory, conv, state, token, seen>>

\* remember: the compact object is whole ...
StoreCompact(r) ==
    /\ at[r] = "remembering"
    /\ at' = [at EXCEPT ![r] = "noting"]
    /\ torn' = torn \ Writing(r)
    /\ UNCHANGED <<row, last, evidence, memory, conv, state, out, token, text, hinted, seen>>

\* Mutant: the block is known in memory, no row is appended.
RememberInMemory(r) ==
    /\ at[r] = "noting"
    /\ known' = [known EXCEPT ![state[r]][Block(r)] = text[r]]
    /\ texts' = [texts EXCEPT ![state[r]][Block(r)] = text[r]]
    /\ out' = [out EXCEPT ![r] = Append(@, text[r])]
    /\ at' = [at EXCEPT ![r] = "next"]
    /\ UNCHANGED <<disk, current, pins, nextEntity, conv, state, token, text, hinted, seen>>

\* ... then the row is appended, and the state knows the block.
Remember(r) ==
    /\ at[r] = "noting"
    /\ LET b == Block(r)
           s == state[r] IN
       /\ row' = [row EXCEPT ![b] = @ \cup {text[r]}]
       /\ last' = [last EXCEPT ![b] = text[r]]
       /\ known' = [known EXCEPT ![s][b] = text[r]]
       /\ texts' = [texts EXCEPT ![s][b] = text[r]]
       /\ out' = [out EXCEPT ![r] = Append(@, text[r])]
    /\ at' = [at EXCEPT ![r] = "next"]
    /\ text' = [text EXCEPT ![r] = None]
    /\ UNCHANGED <<evidence, torn, current, pins, nextEntity, conv, state, token, hinted, seen>>

\* Every block is handled: the request goes upstream.
Forward(r) ==
    /\ at[r] = "next" /\ Len(out[r]) = Len(conv[r])
    /\ Leave({r})
    /\ sent' = [b \in Blocks |-> sent[b] \cup
                   {[text |-> out[r][i], life |-> life] : i \in {j \in 1..Len(out[r]) : conv[r][j] = b}}]
    /\ UNCHANGED <<disk, memory, overlapped, spoilt, life, failures>>

\* A write fails, the upstream cannot be reached or the client is gone: 502, and an object
\* being written may stay torn.
Fail(r) ==
    /\ r \in Busy /\ failures < MaxFailures
    /\ failures' = failures + 1
    /\ Leave({r})
    /\ torn' \in {torn, torn \cup Writing(r)} /\ spoilt' = spoilt \cup torn'
    /\ UNCHANGED <<row, last, evidence, memory, sent, overlapped, life>>

\* The process dies and is started again: what is not on disk is lost, requests included.
Crash ==
    /\ life < MaxCrashes
    /\ life' = life + 1
    /\ \E w \in SUBSET UNION {Writing(r) : r \in Busy} : torn' = torn \cup w
    /\ spoilt' = spoilt \cup torn'
    /\ current' = None /\ pins' = [c \in Contents |-> None] /\ nextEntity' = 1
    /\ known' = [r \in Requests |-> Nothing] /\ texts' = known'
    /\ Leave(Busy)
    /\ UNCHANGED <<row, last, evidence, sent, overlapped, failures>>

Handle(r) ==
    \/ ReadLedger(r) \/ Adopt(r)
    \/ Lookup(r) \/ LookupFails(r) \/ StoreRaw(r) \/ Transform(r) \/ Decide(r) \/ RecordDelivery(r)
    \/ StoreCompact(r) \/ Remember(r)
    \/ Forward(r)

Next == Crash \/ \E r \in Requests : Arrive(r) \/ Handle(r) \/ Fail(r)

Spec == Init /\ [][Next]_vars

-----------------------------------------------------------------------------
Known == Text \cup {None}
Readable == Text \cup {Torn}

\* Types of the rows, the memory and the requests.
TypeOK ==
    /\ row \in [Blocks -> SUBSET Text] /\ last \in [Blocks -> Known]
    /\ evidence \subseteq [of : Contents, text : Text, life : Nat] /\ torn \subseteq Text
    /\ current \in Requests \cup {None} /\ pins \in [Contents -> Known] /\ nextEntity \in Nat
    /\ known \in [Requests -> [Blocks -> Known]]
    /\ texts \in [Requests -> [Blocks -> Readable \cup {None}]]
    /\ at \in [Requests -> {"new", "loading", "loaded", "next", "storing", "compressing",
                            "recording", "remembering", "noting", "gone"}]
    /\ conv \in [Requests -> Seq(Blocks)] /\ out \in [Requests -> Seq(Readable)]
    /\ state \in [Requests -> Requests \cup {None}]
    /\ token \in [Requests -> Nat] /\ text \in [Requests -> Known] /\ hinted \in [Requests -> Nat]
    /\ sent \in [Blocks -> SUBSET [text : Readable, life : Nat]]
    /\ overlapped \in BOOLEAN /\ spoilt \subseteq Text /\ life \in Nat /\ failures \in Nat

Delivered(b) == {s.text : s \in sent[b]}

\* A request that repeats a block is given the bytes the block was first sent with, over
\* failures, retries and restarts (transform.ts:158-166), as long as the session's requests are
\* handled one by one, but for one case: a compact object of the block was left half written by
\* a crash or a failed write, and is sent as it is, or could not be read, and the block is
\* delivered anew (prefix-state.ts:58-67, store.ts:92-104).
SameBytesAlone ==
    ~overlapped =>
        \A b \in Blocks \ Scans : Cardinality(Delivered(b)) > 1 => row[b] \cap spoilt # {}

\* A text leaves the gateway only after the row that reproduces it is in the ledger and after
\* the delivery of its content was recorded there: the order of deliver and remember.
SentOnRecord ==
    \A b \in Blocks \ Scans : \A t \in Delivered(b) \ {Torn} :
        /\ t \in row[b]
        /\ \E e \in evidence : e.of = ContentOf[b]

\* Within one process the evidence tells one text per content, whichever requests delivered
\* it and however they interleaved: the pin of pipeline.ts:646-687.
PinsHold ==
    \A d, e \in evidence : d.of = e.of /\ d.life = e.life => d.text = e.text

\* A scan is delivered anew with every request, each time with a new pseudonym, and is still
\* sent with the same bytes for as long as the process lives.
ScanSteady ==
    \A b \in Scans : \A s, t \in sent[b] : s.life = t.life => s.text = t.text

\* Every block keeps its bytes, scans too and over a restart: what prefix-state.ts:3-9 promises.
SameBytes ==
    \A b \in Blocks : Cardinality(Delivered(b)) <= 1
=============================================================================
