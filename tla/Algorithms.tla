----------------------------- MODULE Algorithms -----------------------------
(***************************************************************************)
(* Functions of the mirror that depend on their arguments only: comparing  *)
(* versions, parsing a vendor's listing (by two parsers), searching a text,*)
(* and the loops that retry a request.  A state is a call, and its result  *)
(* when it has returned; the properties say what the result is without a   *)
(* loop.  A version is the sequence of the runs of digits in it            *)
(* (versionNumbers), a text a sequence of letters, a request the sequence  *)
(* of what its attempts would come to.                                     *)
(***************************************************************************)
EXTENDS Integers, Sequences, SequencesExt

CONSTANTS
    MaxNumber,   \* bound: numbers in a version
    MaxNumbers,  \* bound: how many of them
    MaxLines,    \* bound: lines of a listing
    MaxText,     \* bound: letters of a text
    MaxRetries   \* bound: RetryCount

ASSUME BoundsAssumption ==
    /\ {MaxNumber, MaxNumbers, MaxLines, MaxText} \subseteq Nat
    /\ MaxRetries \in Nat /\ MaxRetries >= 3

VARIABLES
    call,     \* the function called and its arguments
    returned  \* empty, then its result

vars == <<call, returned>>

----------------------------------------------------------------------------
(* Versions.                                                               *)

\* Mutant: one version ends, and the other is taken for the newer.
Number_Missing(v, i) == IF i <= Len(v) THEN v[i] ELSE -1

Number(v, i) == IF i <= Len(v) THEN v[i] ELSE 0

\* From the i-th numbers on.
compareVersion(a, b) ==
    LET n == IF Len(a) > Len(b) THEN Len(a) ELSE Len(b)
        from[i \in 1..(n + 1)] ==
            IF i > n THEN 0
            ELSE IF Number(a, i) < Number(b, i) THEN -1
            ELSE IF Number(a, i) > Number(b, i) THEN 1
            ELSE from[i + 1]
    IN from[1]

\* distroCheckHandler: whether the image of version target is offered.
Offered(current, target) == compareVersion(current, target) < 0 /\ Len(target) >= 4

----------------------------------------------------------------------------
(* Listings.  A line is its key and its value: for key "0" the numbers     *)
(* between dots, where 0 is also what does not parse; for "full" a link, of *)
(* none or one.  "" is a line without a colon, or an empty one if its value*)
(* is empty.  Blanks around key and value are left out.                    *)

Unparsed == [ver |-> 0, link |-> <<>>, bad |-> FALSE]

\* DownloadAndUpdateIDS: at the first dot, and what is after that must be a
\* number.  Any other line spoils the listing.
idsLine(s, line) ==
    CASE line.key = "" /\ line.value = <<>> -> s
      [] line.key = "0" /\ Len(line.value) > 1 ->
            [s EXCEPT !.ver = IF Len(line.value) = 2 THEN line.value[2] ELSE 0]
      [] line.key = "full" -> [s EXCEPT !.link = line.value]
      [] OTHER -> [s EXCEPT !.bad = TRUE]

idsListing(lines) ==
    LET upto[i \in 0..Len(lines)] ==
            IF i = 0 THEN Unparsed
            ELSE IF upto[i - 1].bad THEN upto[i - 1]
            ELSE idsLine(upto[i - 1], lines[i])
        s == upto[Len(lines)]
    IN [s EXCEPT !.bad = @ \/ s.link = <<>> \/ s.ver = 0]

\* Mutant: the first of two version lines counts.
kerioLine_First(s, line) ==
    CASE line.key = "0" /\ Len(line.value) > 1 ->
            [s EXCEPT !.ver = IF @ = 0 THEN Last(line.value) ELSE @]
      [] line.key = "full" -> [s EXCEPT !.link = line.value]
      [] OTHER -> s

\* parseKerioUpdate: after the last dot; other lines are passed over.
kerioLine(s, line) ==
    CASE line.key = "0" /\ Len(line.value) > 1 -> [s EXCEPT !.ver = Last(line.value)]
      [] line.key = "full" -> [s EXCEPT !.link = line.value]
      [] OTHER -> s

parseKerioUpdate(lines) ==
    LET upto[i \in 0..Len(lines)] ==
            IF i = 0 THEN Unparsed ELSE kerioLine(upto[i - 1], lines[i])
        s == upto[Len(lines)]
    IN [s EXCEPT !.bad = s.ver = 0]

----------------------------------------------------------------------------
(* A text.                                                                 *)

Texts(n) == UNION {[1..k -> {"a", "b"}] : k \in 0..n}

\* Mutant: only one end is cut off.
contains_Suffixes(text, phrase) ==
    LET try[s \in Texts(MaxText)] ==
            IF s = phrase THEN [found |-> TRUE, calls |-> 1]
            ELSE IF Len(s) <= Len(phrase) THEN [found |-> FALSE, calls |-> 1]
            ELSE [try[Tail(s)] EXCEPT !.calls = @ + 1]
    IN try[text]

\* Without its first letter, and if that fails without its last; calls is how
\* often it is called for it.
contains(text, phrase) ==
    LET try[s \in Texts(MaxText)] ==
            IF s = phrase THEN [found |-> TRUE, calls |-> 1]
            ELSE IF Len(s) <= Len(phrase) THEN [found |-> FALSE, calls |-> 1]
            ELSE LET cut == try[Tail(s)] IN
                 IF cut.found THEN [cut EXCEPT !.calls = @ + 1]
                 ELSE [try[Front(s)] EXCEPT !.calls = @ + cut.calls + 1]
    IN try[text]

----------------------------------------------------------------------------
(* Requests.  An attempt comes to an answer with status 200 ("ok") or with *)
(* another ("status"), to an error, or to a broken connection ("transient").*)

Outcomes == {"ok", "status", "error", "transient"}
Failed == [result |-> "failed", attempts |-> 0]

\* The attempts from the i-th on, of at most n; a loop ends at an outcome in
\* last, and with what the outcome is.
Attempts(outcomes, n, last) ==
    LET from[i \in 1..(n + 1)] ==
            IF i > n THEN [result |-> "failed", attempts |-> n]
            ELSE IF outcomes[i] \in last THEN [result |-> outcomes[i], attempts |-> i]
            ELSE from[i + 1]
    IN IF n < 1 THEN Failed ELSE from[1]

\* Mutant: an answer with any status ends the loop.
HTTPGetWithRetry_AnyStatus(outcomes, retries) ==
    Attempts(outcomes, retries + 1, {"ok", "status"})

\* Only a 200 ends the loop; with a negative count there is no attempt.
HTTPGetWithRetry(outcomes, retries) == Attempts(outcomes, retries + 1, {"ok"})

\* Any answer ends the loop, and its status is the caller's business.
upstreamResponse(outcomes, retries) ==
    Attempts(outcomes, (IF retries > 1 THEN retries ELSE 1) + 1, {"ok", "status"})

\* Telegram: only a broken connection is worth another attempt, up to three.
Send(outcomes) == Attempts(outcomes, 3, Outcomes \ {"transient"})

\* BitdefenderProxyHandler: the loop ends at a 200, but it is an answer only
\* when no attempt before it failed.
BitdefenderProxy(outcomes, retries) ==
    LET loop == Attempts(outcomes, (IF retries < 1 THEN 3 ELSE retries) + 1, {"ok"})
    IN IF loop.attempts > 1 THEN [loop EXCEPT !.result = "failed"] ELSE loop

----------------------------------------------------------------------------
Versions == UNION {[1..n -> 0..MaxNumber] : n \in 0..MaxNumbers}

Lines ==
    [key : {"0"}, value : UNION {[1..n -> 0..2] : n \in 1..3}]
    \cup [key : {"full"}, value : {<<>>, <<1>>, <<2>>}]
    \cup [key : {"sig", ""}, value : {<<1>>}]
    \cup [key : {""}, value : {<<>>}]

Calls ==
    [fn : {"compareVersion", "Offered"}, a : Versions, b : Versions]
    \cup [fn : {"listing"}, a : UNION {[1..n -> Lines] : n \in 0..MaxLines}]
    \cup [fn : {"contains"}, a : Texts(MaxText), b : Texts(MaxText)]
    \cup [fn : {"HTTPGetWithRetry", "upstreamResponse", "Send", "BitdefenderProxy"},
          a : [1..(MaxRetries + 1) -> Outcomes], b : -1..MaxRetries]

Init == call \in Calls /\ returned = <<>>

Return(result) == returned' = <<result>> /\ UNCHANGED call

Called(fn) == returned = <<>> /\ call.fn = fn

Next ==
    \/ Called("compareVersion") /\ Return(compareVersion(call.a, call.b))
    \/ Called("Offered") /\ Return(Offered(call.a, call.b))
    \/ Called("listing")
       /\ Return([ids |-> idsListing(call.a), kerio |-> parseKerioUpdate(call.a)])
    \/ Called("contains") /\ Return(contains(call.a, call.b))
    \/ Called("HTTPGetWithRetry") /\ Return(HTTPGetWithRetry(call.a, call.b))
    \/ Called("upstreamResponse") /\ Return(upstreamResponse(call.a, call.b))
    \/ Called("Send") /\ Return(Send(call.a))
    \/ Called("BitdefenderProxy") /\ Return(BitdefenderProxy(call.a, call.b))

Spec == Init /\ [][Next]_vars

----------------------------------------------------------------------------
(* Properties.                                                             *)

Returned(fn) == returned # <<>> /\ call.fn = fn
Result == returned[1]

\* A version as one number, to a base no number of it reaches; missing numbers
\* are 0.
Value(v) ==
    LET upto[i \in 0..MaxNumbers] ==
            IF i = 0 THEN 0
            ELSE upto[i - 1] * (MaxNumber + 1) + (IF i <= Len(v) THEN v[i] ELSE 0)
    IN upto[MaxNumbers]

\* compareVersion is the order of the versions' values: total, transitive and
\* with no difference between 9.4 and 9.4.0.  An image is offered to who has
\* an older version, and not again to who has installed it, of which the
\* appliance tells the first four numbers.
VersionOrder ==
    /\ Returned("compareVersion") =>
          LET a == Value(call.a)
              b == Value(call.b)
          IN Result = IF a < b THEN -1 ELSE IF a > b THEN 1 ELSE 0
    /\ Returned("Offered") =>
          /\ Result => Value(call.a) < Value(call.b)
          /\ Len(call.b) = 4 =>
                /\ Result = (Value(call.a) < Value(call.b))
                /\ ~Offered(SubSeq(call.b, 1, 4), call.b)

\* What the updates of the databases accept, the link handler reads the same:
\* version and link, although one parser is strict and the other is not, and
\* they cut a version at different dots.
ListingsAgree ==
    Returned("listing") =>
        \/ Result.ids.bad
        \/ Result.kerio = Result.ids

\* A power of two.
TwoTo[k \in 0..(MaxText + 1)] == IF k = 0 THEN 1 ELSE 2 * TwoTo[k - 1]

\* contains is the search for a substring; where there is none, it is called
\* for both cuts at every letter the text is longer by, which is exponential.
ContainsIsSubstring ==
    Returned("contains") =>
        LET surplus == Len(call.a) - Len(call.b) IN
        /\ Result.found = \E i \in 0..surplus : SubSeq(call.a, i + 1, i + Len(call.b)) = call.b
        /\ ~Result.found /\ surplus >= 0 => Result.calls = TwoTo[surplus + 1] - 1

\* The answer of the first attempt that has one, of those the count allows:
\* none is given up early, made in vain or taken for another.  (The Bitdefender
\* proxy never answers with what failed, but gives up what succeeded late.)
RetriesServe ==
    LET First(n, good) == {i \in 1..n : call.a[i] \in good /\ \A j \in 1..(i - 1) : call.a[j] \notin good}
        Serves(n, good) ==
            \/ First(n, good) = {} /\ Result.result = "failed"
            \/ First(n, good) = {Result.attempts} /\ Result.result = call.a[Result.attempts]
    IN  /\ Returned("HTTPGetWithRetry") => Serves(call.b + 1, {"ok"})
        /\ Returned("upstreamResponse") =>
              Serves((IF call.b > 1 THEN call.b ELSE 1) + 1, {"ok", "status"})
        /\ Returned("Send") =>
              (Result.result = "ok") =
                  \E i \in 1..3 : call.a[i] = "ok" /\ \A j \in 1..(i - 1) : call.a[j] = "transient"
        /\ Returned("BitdefenderProxy") /\ Result.result # "failed" =>
              call.a[Result.attempts] = "ok"
=============================================================================
