-------------------------- MODULE AlgorithmsProofs --------------------------
(***************************************************************************)
(* Proofs about Algorithms, for versions, listings and retry counts of any *)
(* size.  Every function there is a loop over an interval, written as a    *)
(* recursive function.  What such a loop computes is shown by induction in *)
(* the form of a fact about sets: a set of natural numbers has a least     *)
(* element.                                                                *)
(***************************************************************************)
EXTENDS Algorithms, WellFoundedInduction, SequenceTheorems, TLAPS

----------------------------------------------------------------------------
(* Induction.                                                              *)

Before == OpToRel(<, Nat)

LEMMA BeforeIsWellFounded == IsWellFoundedOn(Before, Nat)
BY NatLessThanWellFounded DEF Before

LEMMA BeforeIsLess == \A x, y \in Nat : <<y, x>> \in Before <=> y < x
BY DEF Before, OpToRel

LEMMA LeastElement ==
    ASSUME NEW S \in SUBSET Nat, S # {}
    PROVE  \E m \in S : \A k \in S : m <= k
<1>1. PICK m \in S : \A k \in S : <<k, m>> \notin Before
      BY BeforeIsWellFounded, WFMin
<1>2. \A k \in S : ~(k < m)
      BY <1>1, BeforeIsLess
<1> QED BY <1>2

LEMMA Induction ==
    ASSUME NEW n \in Nat, NEW S, 0 \in S, \A i \in 0..n : i < n /\ i \in S => i + 1 \in S
    PROVE  0..n \subseteq S
<1> DEFINE T == (0..n) \ S
<1> SUFFICES ASSUME T # {} PROVE FALSE
    OBVIOUS
<1>0. T \in SUBSET Nat
      OBVIOUS
<1>1. PICK m \in T : \A k \in T : m <= k
  <2> HIDE DEF T
  <2> QED BY <1>0, LeastElement
<1>2. m # 0 /\ m - 1 \in 0..n /\ m - 1 < n
      BY <1>1
<1>3. m - 1 \in S
      BY <1>1, <1>2
<1> QED BY <1>1, <1>2, <1>3

----------------------------------------------------------------------------
(* A loop that looks for the first i in 1..n that is in S and ends with    *)
(* val[i], or with none.                                                   *)

Searches(g, n, S, val, none) ==
    g = [i \in 1..(n + 1) |->
            IF i > n THEN none ELSE IF i \in S THEN val[i] ELSE g[i + 1]]

LEMMA SearchExists ==
    ASSUME NEW n \in Nat, NEW S, NEW val, NEW none
    PROVE  \E g : Searches(g, n, S, val, none)
<1> DEFINE Rest(i) == S \cap (i..n)
           first(i) == CHOOSE m \in Rest(i) : \A j \in Rest(i) : m <= j
           g == [i \in 1..(n + 1) |-> IF Rest(i) = {} THEN none ELSE val[first(i)]]
<1>1. ASSUME NEW i \in 1..(n + 1)
      PROVE  g[i] = IF i > n THEN none ELSE IF i \in S THEN val[i] ELSE g[i + 1]
  <2>1. CASE i > n
    <3>1. Rest(i) = {}
          BY <2>1
    <3> QED BY <2>1, <3>1
  <2>2. CASE i <= n /\ i \in S
    <3>1. i \in Rest(i) /\ \A j \in Rest(i) : i <= j
          BY <2>2
    <3>2. first(i) \in Rest(i) /\ \A j \in Rest(i) : first(i) <= j
          BY <3>1
    <3>3. first(i) = i
          BY <3>1, <3>2
    <3> QED BY <2>2, <3>1, <3>3
  <2>3. CASE i <= n /\ i \notin S
    <3>1. Rest(i) = Rest(i + 1) /\ i + 1 \in 1..(n + 1)
          BY <2>3
    <3>2. first(i) = first(i + 1)
          BY <3>1
    <3> HIDE DEF first, Rest
    <3> QED BY <2>3, <3>1, <3>2
  <2> QED BY <2>1, <2>2, <2>3
<1>2. g = [i \in 1..(n + 1) |-> IF i > n THEN none ELSE IF i \in S THEN val[i] ELSE g[i + 1]]
  <2> HIDE DEF g
  <2>1. g = [i \in 1..(n + 1) |-> g[i]]
        BY DEF g
  <2> QED BY <1>1, <2>1
<1>3. Searches(g, n, S, val, none)
      BY <1>2 DEF Searches
<1> HIDE DEF g
<1> QED BY <1>3

\* What it ends with.
FirstFound(r, i, n, S, val, none) ==
    \/ r = none /\ \A j \in i..n : j \notin S
    \/ \E m \in i..n : m \in S /\ r = val[m] /\ \A j \in i..(m - 1) : j \notin S

LEMMA SearchFinds ==
    ASSUME NEW n \in Nat, NEW S, NEW val, NEW none, NEW g, Searches(g, n, S, val, none)
    PROVE  FirstFound(g[1], 1, n, S, val, none)
<1> DEFINE Good == {d \in 0..n : FirstFound(g[n + 1 - d], n + 1 - d, n, S, val, none)}
<1>0. \A i \in 1..(n + 1) :
         g[i] = IF i > n THEN none ELSE IF i \in S THEN val[i] ELSE g[i + 1]
      BY DEF Searches
<1>1. 0 \in Good
  <2>1. g[n + 1] = none /\ (n + 1)..n = {}
        BY <1>0
  <2> QED BY <2>1 DEF FirstFound
<1>2. ASSUME NEW d \in 0..n, d < n, d \in Good
      PROVE  d + 1 \in Good
  <2> DEFINE i == n - d
  <2>1. i \in 1..n /\ n + 1 - d = i + 1 /\ n + 1 - (d + 1) = i
        BY <1>2
  <2>2. FirstFound(g[i + 1], i + 1, n, S, val, none)
        BY <1>2, <2>1
  <2>3. CASE i \in S
    <3>1. g[i] = val[i]
          BY <1>0, <2>1, <2>3
    <3>2. FirstFound(g[i], i, n, S, val, none)
          BY <2>1, <2>3, <3>1 DEF FirstFound
    <3> QED BY <1>2, <2>1, <3>2
  <2>4. CASE i \notin S
    <3>1. g[i] = g[i + 1]
          BY <1>0, <2>1, <2>4
    <3>2. FirstFound(g[i], i, n, S, val, none)
      <4>1. CASE g[i + 1] = none /\ \A j \in (i + 1)..n : j \notin S
            BY <2>1, <2>4, <3>1, <4>1 DEF FirstFound
      <4>2. CASE \E m \in (i + 1)..n : m \in S /\ g[i + 1] = val[m]
                                       /\ \A j \in (i + 1)..(m - 1) : j \notin S
            BY <2>1, <2>4, <3>1, <4>2 DEF FirstFound
      <4> QED BY <2>2, <4>1, <4>2 DEF FirstFound
    <3> QED BY <1>2, <2>1, <3>2
  <2> QED BY <2>3, <2>4
<1>3. n \in Good
  <2> HIDE DEF Good
  <2> QED BY <1>1, <1>2, Induction
<1> QED BY <1>3

----------------------------------------------------------------------------
(* Retries.                                                                *)

\* The attempt that ends the loop is the first that comes to an outcome in
\* last; without one there are n attempts and no result.
LEMMA AttemptsLoop ==
    ASSUME NEW outcomes, NEW n \in Nat, n >= 1, NEW last
    PROVE  \/ /\ Attempts(outcomes, n, last) = [result |-> "failed", attempts |-> n]
              /\ \A j \in 1..n : outcomes[j] \notin last
           \/ \E m \in 1..n :
                 /\ Attempts(outcomes, n, last) = [result |-> outcomes[m], attempts |-> m]
                 /\ outcomes[m] \in last
                 /\ \A j \in 1..(m - 1) : outcomes[j] \notin last
<1> DEFINE none == [result |-> "failed", attempts |-> n]
           S == {i \in 1..n : outcomes[i] \in last}
           val == [i \in 1..n |-> [result |-> outcomes[i], attempts |-> i]]
           Loop(g) == g = [i \in 1..(n + 1) |->
                              IF i > n THEN [result |-> "failed", attempts |-> n]
                              ELSE IF outcomes[i] \in last
                                   THEN [result |-> outcomes[i], attempts |-> i]
                              ELSE g[i + 1]]
           from == CHOOSE g : Loop(g)
<1>1. \A g : Loop(g) <=> Searches(g, n, S, val, none)
  <2> SUFFICES ASSUME NEW g
               PROVE  Loop(g) <=> Searches(g, n, S, val, none)
      OBVIOUS
  <2>1. \A i \in 1..(n + 1) :
           (IF i > n THEN none ELSE IF i \in S THEN val[i] ELSE g[i + 1])
           = (IF i > n THEN none
              ELSE IF outcomes[i] \in last THEN [result |-> outcomes[i], attempts |-> i]
              ELSE g[i + 1])
        OBVIOUS
  <2> QED BY <2>1 DEF Searches
<1>2. \E g : Loop(g)
  <2> HIDE DEF Loop, none, S, val
  <2> QED BY <1>1, SearchExists
<1>3. Loop(from)
  <2> HIDE DEF Loop
  <2> QED BY <1>2
<1>4. FirstFound(from[1], 1, n, S, val, none)
  <2> HIDE DEF Loop, from, none, S, val
  <2> QED BY <1>1, <1>3, SearchFinds
<1>5. Attempts(outcomes, n, last) = from[1]
      BY DEF Attempts
<1> HIDE DEF from
<1>6. CASE from[1] = none /\ \A j \in 1..n : j \notin S
      BY <1>5, <1>6
<1>7. CASE \E m \in 1..n : m \in S /\ from[1] = val[m] /\ \A j \in 1..(m - 1) : j \notin S
  <2>1. PICK m \in 1..n : m \in S /\ from[1] = val[m] /\ \A j \in 1..(m - 1) : j \notin S
        BY <1>7
  <2>2. \A j \in 1..(m - 1) : j \in 1..n
        BY <2>1
  <2> QED BY <1>5, <2>1, <2>2
<1> QED BY <1>4, <1>6, <1>7 DEF FirstFound

\* What the loop serves, as the property says it.
Serves(outcomes, r, n, good) ==
    LET First == {i \in 1..n : outcomes[i] \in good
                               /\ \A j \in 1..(i - 1) : outcomes[j] \notin good}
    IN  \/ First = {} /\ r.result = "failed"
        \/ First = {r.attempts} /\ r.result = outcomes[r.attempts]

LEMMA AttemptsServe ==
    ASSUME NEW outcomes, NEW n \in Nat, NEW good
    PROVE  Serves(outcomes, Attempts(outcomes, n, good), n, good)
<1> DEFINE r == Attempts(outcomes, n, good)
           First == {i \in 1..n : outcomes[i] \in good
                                  /\ \A j \in 1..(i - 1) : outcomes[j] \notin good}
<1>1. CASE n < 1
  <2>1. First = {} /\ r.result = "failed"
        BY <1>1 DEF Attempts, Failed
  <2> QED BY <2>1 DEF Serves
<1>2. CASE n >= 1 /\ r = [result |-> "failed", attempts |-> n]
           /\ \A j \in 1..n : outcomes[j] \notin good
  <2>1. First = {} /\ r.result = "failed"
        BY <1>2
  <2> QED BY <2>1 DEF Serves
<1>3. CASE \E m \in 1..n :
              /\ r = [result |-> outcomes[m], attempts |-> m] /\ outcomes[m] \in good
              /\ \A j \in 1..(m - 1) : outcomes[j] \notin good
  <2>1. PICK m \in 1..n :
              /\ r = [result |-> outcomes[m], attempts |-> m] /\ outcomes[m] \in good
              /\ \A j \in 1..(m - 1) : outcomes[j] \notin good
        BY <1>3
  <2>2. r.attempts = m /\ r.result = outcomes[m]
        BY <2>1
  <2>3. ASSUME NEW i \in First PROVE i = m
    <3>1. ~(i < m) /\ ~(m < i)
          BY <2>1, <2>3
    <3> QED BY <3>1
  <2>4. First = {m}
        BY <2>1, <2>3
  <2> QED BY <2>2, <2>4 DEF Serves
<1> QED BY <1>1, <1>2, <1>3, AttemptsLoop

\* Telegram gets the first outcome that is not a broken connection.
LEMMA SendServes ==
    ASSUME NEW outcomes, \A i \in 1..3 : outcomes[i] \in Outcomes
    PROVE  Send(outcomes).result = "ok" <=>
              \E i \in 1..3 : outcomes[i] = "ok" /\ \A j \in 1..(i - 1) : outcomes[j] = "transient"
<1> DEFINE last == Outcomes \ {"transient"}
           r == Attempts(outcomes, 3, last)
           Ok(i) == outcomes[i] = "ok" /\ \A j \in 1..(i - 1) : outcomes[j] = "transient"
<1>1. \A i \in 1..3 : outcomes[i] \notin last <=> outcomes[i] = "transient"
      BY DEF Outcomes
<1>2. Send(outcomes) = r
      BY DEF Send
<1>3. \/ /\ r = [result |-> "failed", attempts |-> 3]
         /\ \A j \in 1..3 : outcomes[j] \notin last
      \/ \E m \in 1..3 : /\ r = [result |-> outcomes[m], attempts |-> m]
                         /\ outcomes[m] \in last
                         /\ \A j \in 1..(m - 1) : outcomes[j] \notin last
  <2> HIDE DEF last
  <2> QED BY AttemptsLoop
<1> HIDE DEF last, r
<1>4. ASSUME r = [result |-> "failed", attempts |-> 3], \A j \in 1..3 : outcomes[j] \notin last
      PROVE  r.result = "ok" <=> \E i \in 1..3 : Ok(i)
  <2>1. r.result # "ok"
        BY <1>4
  <2>2. \A i \in 1..3 : outcomes[i] = "transient"
        BY <1>1, <1>4
  <2>3. ~\E i \in 1..3 : Ok(i)
        BY <2>2
  <2> QED BY <2>1, <2>3
<1>5. ASSUME NEW m \in 1..3, r = [result |-> outcomes[m], attempts |-> m],
             outcomes[m] \in last, \A j \in 1..(m - 1) : outcomes[j] \notin last
      PROVE  r.result = "ok" <=> \E i \in 1..3 : Ok(i)
  <2>1. r.result = outcomes[m]
        BY <1>5
  <2>2. \A j \in 1..(m - 1) : outcomes[j] = "transient"
        BY <1>1, <1>5
  <2>3. ASSUME NEW i \in 1..3, Ok(i) PROVE i = m
    <3>1. outcomes[i] # "transient" /\ outcomes[m] # "transient"
          BY <1>1, <1>5, <2>3
    <3>2. ~(i < m) /\ ~(m < i)
          BY <2>2, <2>3, <3>1
    <3> QED BY <3>2
  <2>4. ASSUME r.result = "ok" PROVE \E i \in 1..3 : Ok(i)
        BY <2>1, <2>2, <2>4
  <2>5. ASSUME NEW i \in 1..3, Ok(i) PROVE r.result = "ok"
        BY <2>1, <2>3, <2>5
  <2> HIDE DEF Ok
  <2> QED BY <2>4, <2>5
<1>6. r.result = "ok" <=> \E i \in 1..3 : Ok(i)
  <2> HIDE DEF Ok
  <2> QED BY <1>3, <1>4, <1>5
<1> QED BY <1>2, <1>6

\* The Bitdefender proxy answers with a 200 of the first attempt or not at all.
LEMMA ProxyServes ==
    ASSUME NEW outcomes, NEW b \in Int, BitdefenderProxy(outcomes, b).result # "failed"
    PROVE  outcomes[BitdefenderProxy(outcomes, b).attempts] = "ok"
<1> DEFINE n == (IF b < 1 THEN 3 ELSE b) + 1
           loop == Attempts(outcomes, n, {"ok"})
<1>1. n \in Nat /\ n >= 1
      OBVIOUS
<1>2. BitdefenderProxy(outcomes, b)
         = IF loop.attempts > 1 THEN [loop EXCEPT !.result = "failed"] ELSE loop
      BY DEF BitdefenderProxy
<1> HIDE DEF n
<1>3. CASE loop = [result |-> "failed", attempts |-> n]
      BY <1>2, <1>3
<1>4. CASE \E m \in 1..n : /\ loop = [result |-> outcomes[m], attempts |-> m]
                           /\ outcomes[m] \in {"ok"}
      BY <1>2, <1>4
<1> QED BY <1>1, <1>3, <1>4, AttemptsLoop

----------------------------------------------------------------------------
(* A call and its result.                                                  *)

\* What has returned is what the function called makes of the arguments.
Computed ==
    /\ call \in Calls
    /\ Returned("compareVersion") => Result = compareVersion(call.a, call.b)
    /\ Returned("Offered") => Result = Offered(call.a, call.b)
    /\ Returned("listing") => Result = [ids |-> idsListing(call.a), kerio |-> parseKerioUpdate(call.a)]
    /\ Returned("contains") => Result = contains(call.a, call.b)
    /\ Returned("HTTPGetWithRetry") => Result = HTTPGetWithRetry(call.a, call.b)
    /\ Returned("upstreamResponse") => Result = upstreamResponse(call.a, call.b)
    /\ Returned("Send") => Result = Send(call.a)
    /\ Returned("BitdefenderProxy") => Result = BitdefenderProxy(call.a, call.b)

LEMMA Results == Spec => []Computed
<1>1. Init => Computed
      BY DEF Init, Computed, Returned
<1>2. Computed /\ [Next]_vars => Computed'
  <2> SUFFICES ASSUME Computed, [Next]_vars PROVE Computed'
      OBVIOUS
  <2>1. CASE UNCHANGED vars
        BY <2>1 DEF Computed, vars, Returned, Result
  <2>2. CASE Next
        BY <2>2 DEF Computed, Next, Called, Return, Returned, Result
  <2> QED BY <2>1, <2>2
<1> QED BY <1>1, <1>2, PTL DEF Spec

RetryCalls == {"HTTPGetWithRetry", "upstreamResponse", "Send", "BitdefenderProxy"}

LEMMA RetryArguments ==
    ASSUME call \in Calls, call.fn \in RetryCalls
    PROVE  call.a \in [1..(MaxRetries + 1) -> Outcomes] /\ call.b \in -1..MaxRetries
BY DEF Calls, RetryCalls

\* The retry loops serve the answer of the first attempt that has one, of as
\* many as their count allows, for every count and every course of attempts; of
\* the Bitdefender proxy's only one direction: what it serves is an answer it
\* got, but one that comes late it may give up.
THEOREM FirstAnswerServed == Spec => []RetriesServe
<1>1. Computed => RetriesServe
  <2> SUFFICES ASSUME Computed PROVE RetriesServe
      OBVIOUS
  <2>1. ASSUME Returned("HTTPGetWithRetry")
        PROVE  Serves(call.a, Result, call.b + 1, {"ok"})
    <3>1. call.b + 1 \in Nat
          BY <2>1, RetryArguments, BoundsAssumption DEF Computed, Returned, RetryCalls
    <3> QED BY <2>1, <3>1, AttemptsServe DEF Computed, HTTPGetWithRetry
  <2>2. ASSUME Returned("upstreamResponse")
        PROVE  Serves(call.a, Result, (IF call.b > 1 THEN call.b ELSE 1) + 1, {"ok", "status"})
    <3>1. (IF call.b > 1 THEN call.b ELSE 1) + 1 \in Nat
          BY <2>2, RetryArguments, BoundsAssumption DEF Computed, Returned, RetryCalls
    <3> QED BY <2>2, <3>1, AttemptsServe DEF Computed, upstreamResponse
  <2>3. ASSUME Returned("Send")
        PROVE  (Result.result = "ok") =
                  \E i \in 1..3 : call.a[i] = "ok" /\ \A j \in 1..(i - 1) : call.a[j] = "transient"
    <3>1. \A i \in 1..3 : call.a[i] \in Outcomes
          BY <2>3, RetryArguments, BoundsAssumption DEF Computed, Returned, RetryCalls
    <3>2. Result.result = "ok" <=>
             \E i \in 1..3 : call.a[i] = "ok" /\ \A j \in 1..(i - 1) : call.a[j] = "transient"
          BY <2>3, <3>1, SendServes DEF Computed
    <3> QED BY <3>2, Zenon
  <2>4. ASSUME Returned("BitdefenderProxy"), Result.result # "failed"
        PROVE  call.a[Result.attempts] = "ok"
    <3>1. call.b \in Int
          BY <2>4, RetryArguments, BoundsAssumption DEF Computed, Returned, RetryCalls
    <3> QED BY <2>4, <3>1, ProxyServes DEF Computed
  <2> QED BY <2>1, <2>2, <2>3, <2>4 DEF RetriesServe, Serves
<1> QED BY <1>1, Results, PTL

----------------------------------------------------------------------------
(* A loop that carries a value from c through the steps 1..n.              *)

Carries(g, n, c, step) ==
    g = [i \in 0..n |-> IF i = 0 THEN c ELSE step[<<g[i - 1], i>>]]

LEMMA CarryExists ==
    ASSUME NEW n \in Nat, NEW St, NEW c \in St, NEW step \in [St \X (1..n) -> St]
    PROVE  \E g \in [0..n -> St] : Carries(g, n, c, step)
<1> DEFINE Upto(g, k) == g[0] = c /\ \A i \in 1..k : g[i] = step[<<g[i - 1], i>>]
           Good == {k \in 0..n : \E g \in [0..k -> St] : Upto(g, k)}
<1>1. 0 \in Good
  <2> DEFINE z == [i \in 0..0 |-> c]
  <2>1. z \in [0..0 -> St]
        OBVIOUS
  <2>2. Upto(z, 0)
        OBVIOUS
  <2> HIDE DEF z, Upto
  <2> QED BY <2>1, <2>2
<1>2. ASSUME NEW k \in 0..n, k < n, k \in Good
      PROVE  k + 1 \in Good
  <2>1. PICK g \in [0..k -> St] : Upto(g, k)
        BY <1>2
  <2> DEFINE h == [i \in 0..(k + 1) |-> IF i <= k THEN g[i] ELSE step[<<g[k], k + 1>>]]
  <2>2. step[<<g[k], k + 1>>] \in St
        BY <1>2
  <2>3. h \in [0..(k + 1) -> St]
        BY <2>2
  <2>4. ASSUME NEW i \in 1..(k + 1) PROVE h[i] = step[<<h[i - 1], i>>]
    <3>1. CASE i <= k
          BY <2>1, <3>1
    <3>2. CASE i = k + 1
      <4>1. k + 1 \in 0..(k + 1) /\ ~(k + 1 <= k) /\ k \in 0..(k + 1) /\ (k + 1) - 1 = k
            OBVIOUS
      <4>2. h[k + 1] = step[<<g[k], k + 1>>] /\ h[k] = g[k]
            BY <4>1
      <4> HIDE DEF h
      <4> QED BY <3>2, <4>1, <4>2
    <3> QED BY <3>1, <3>2
  <2>5. h[0] = c
        BY <2>1
  <2>6. Upto(h, k + 1)
    <3> HIDE DEF h
    <3> QED BY <2>4, <2>5
  <2> HIDE DEF h, Upto
  <2> QED BY <1>2, <2>3, <2>6
<1>3. n \in Good
  <2> HIDE DEF Good
  <2> QED BY <1>1, <1>2, Induction
<1>4. PICK g \in [0..n -> St] : Upto(g, n)
      BY <1>3
<1>5. \A i \in 0..n : g[i] = IF i = 0 THEN c ELSE step[<<g[i - 1], i>>]
      BY <1>4
<1>6. g = [i \in 0..n |-> g[i]]
      OBVIOUS
<1>7. Carries(g, n, c, step)
      BY <1>5, <1>6 DEF Carries
<1> QED BY <1>7

LEMMA CarrySteps ==
    ASSUME NEW n \in Nat, NEW St, NEW c \in St, NEW step \in [St \X (1..n) -> St],
           NEW g, Carries(g, n, c, step)
    PROVE  /\ g[0] = c
           /\ \A i \in 1..n : g[i] = step[<<g[i - 1], i>>]
           /\ \A i \in 0..n : g[i] \in St
<1>1. \A i \in 0..n : g[i] = IF i = 0 THEN c ELSE step[<<g[i - 1], i>>]
      BY DEF Carries
<1>2. g[0] = c
  <2>1. 0 \in 0..n
        OBVIOUS
  <2> QED BY <1>1, <2>1
<1>3. \A i \in 1..n : g[i] = step[<<g[i - 1], i>>]
      BY <1>1
<1> DEFINE Good == {i \in 0..n : g[i] \in St}
<1>4. 0 \in Good
      BY <1>2
<1>5. ASSUME NEW i \in 0..n, i < n, i \in Good
      PROVE  i + 1 \in Good
  <2>1. g[i + 1] = step[<<g[i], i + 1>>]
        BY <1>3, <1>5
  <2> QED BY <1>5, <2>1
<1>6. 0..n \subseteq Good
  <2> HIDE DEF Good
  <2> QED BY <1>4, <1>5, Induction
<1> QED BY <1>2, <1>3, <1>6

----------------------------------------------------------------------------
(* Versions.                                                               *)

LEMMA VersionFacts ==
    ASSUME NEW v \in Versions
    PROVE  /\ Len(v) \in 0..MaxNumbers
           /\ v \in Seq(0..MaxNumber)
           /\ \A i \in Nat \ {0} : Number(v, i) \in 0..MaxNumber
           /\ \A i \in Nat : i > Len(v) => Number(v, i) = 0
<1>1. PICK n \in 0..MaxNumbers : v \in [1..n -> 0..MaxNumber]
      BY DEF Versions
<1>2. n \in Nat /\ MaxNumber \in Nat /\ MaxNumbers \in Nat
      BY BoundsAssumption
<1>3. v \in Seq(0..MaxNumber) /\ Len(v) = n
      BY <1>1, <1>2, SeqDef, LenProperties
<1> QED BY <1>1, <1>2, <1>3 DEF Number

Differ(a, b) == {i \in Nat \ {0} : Number(a, i) # Number(b, i)}

\* The first difference decides, wherever it is.
LEMMA FirstDifference ==
    ASSUME NEW a \in Versions, NEW b \in Versions
    PROVE  \/ compareVersion(a, b) = 0 /\ Differ(a, b) = {}
           \/ \E m \in 1..MaxNumbers :
                 /\ \A j \in 1..(m - 1) : Number(a, j) = Number(b, j)
                 /\ \/ Number(a, m) < Number(b, m) /\ compareVersion(a, b) = -1
                    \/ Number(a, m) > Number(b, m) /\ compareVersion(a, b) = 1
<1> DEFINE n == IF Len(a) > Len(b) THEN Len(a) ELSE Len(b)
           S == {i \in 1..n : Number(a, i) # Number(b, i)}
           val == [i \in 1..n |-> IF Number(a, i) < Number(b, i) THEN -1 ELSE 1]
           Loop(g) == g = [i \in 1..(n + 1) |->
                              IF i > n THEN 0
                              ELSE IF Number(a, i) < Number(b, i) THEN -1
                              ELSE IF Number(a, i) > Number(b, i) THEN 1
                              ELSE g[i + 1]]
           from == CHOOSE g : Loop(g)
<1>1. /\ Len(a) \in Nat /\ Len(b) \in Nat /\ MaxNumbers \in Nat /\ MaxNumber \in Nat
      /\ Len(a) <= MaxNumbers /\ Len(b) <= MaxNumbers
      /\ \A i \in Nat \ {0} : Number(a, i) \in Nat /\ Number(b, i) \in Nat
      /\ \A i \in Nat : i > Len(a) => Number(a, i) = 0
      /\ \A i \in Nat : i > Len(b) => Number(b, i) = 0
      BY VersionFacts, BoundsAssumption
<1>2. n \in Nat /\ n <= MaxNumbers /\ \A i \in Nat : i > n => Number(a, i) = Number(b, i)
      BY <1>1
<1>3. compareVersion(a, b) = from[1]
      BY DEF compareVersion
<1> HIDE DEF n
<1>4. \A g : Loop(g) <=> Searches(g, n, S, val, 0)
  <2> SUFFICES ASSUME NEW g
               PROVE  Loop(g) <=> Searches(g, n, S, val, 0)
      OBVIOUS
  <2>1. \A i \in 1..(n + 1) :
           (IF i > n THEN 0 ELSE IF i \in S THEN val[i] ELSE g[i + 1])
           = (IF i > n THEN 0
              ELSE IF Number(a, i) < Number(b, i) THEN -1
              ELSE IF Number(a, i) > Number(b, i) THEN 1
              ELSE g[i + 1])
        BY <1>1, <1>2
  <2> QED BY <2>1 DEF Searches
<1>5. \E g : Loop(g)
  <2> HIDE DEF Loop, S, val
  <2> QED BY <1>2, <1>4, SearchExists
<1>6. Loop(from)
  <2> HIDE DEF Loop
  <2> QED BY <1>5
<1>7. FirstFound(from[1], 1, n, S, val, 0)
  <2> HIDE DEF Loop, from, S, val
  <2> QED BY <1>2, <1>4, <1>6, SearchFinds
<1> HIDE DEF from
<1>8. CASE from[1] = 0 /\ \A j \in 1..n : j \notin S
  <2>1. Differ(a, b) = {}
        BY <1>2, <1>8 DEF Differ
  <2> QED BY <1>3, <1>8, <2>1
<1>9. CASE \E m \in 1..n : m \in S /\ from[1] = val[m] /\ \A j \in 1..(m - 1) : j \notin S
  <2>1. PICK m \in 1..n : m \in S /\ from[1] = val[m] /\ \A j \in 1..(m - 1) : j \notin S
        BY <1>9
  <2>2. m \in 1..MaxNumbers /\ \A j \in 1..(m - 1) : j \in 1..n
        BY <1>1, <1>2, <2>1
  <2>3. \A j \in 1..(m - 1) : Number(a, j) = Number(b, j)
        BY <2>1, <2>2
  <2>4. \/ Number(a, m) < Number(b, m) /\ compareVersion(a, b) = -1
        \/ Number(a, m) > Number(b, m) /\ compareVersion(a, b) = 1
    <3>1. m \in 1..n /\ Number(a, m) # Number(b, m) /\ compareVersion(a, b) = val[m]
          BY <1>3, <2>1
    <3>2. Number(a, m) \in Nat /\ Number(b, m) \in Nat
          BY <1>1, <2>2
    <3>3. val[m] = IF Number(a, m) < Number(b, m) THEN -1 ELSE 1
          BY <3>1
    <3> QED BY <3>1, <3>2, <3>3
  <2> QED BY <2>2, <2>3, <2>4
<1> QED BY <1>7, <1>8, <1>9 DEF FirstFound

\* The value of a version, number by number.
ValueLoop(g, v) ==
    /\ g[0] = 0
    /\ \A i \in 1..MaxNumbers : g[i] = g[i - 1] * (MaxNumber + 1) + Number(v, i)
    /\ \A i \in 0..MaxNumbers : g[i] \in Nat
    /\ g[MaxNumbers] = Value(v)

LEMMA ValueSteps ==
    ASSUME NEW v \in Versions
    PROVE  \E g : ValueLoop(g, v)
<1> DEFINE B == MaxNumber + 1
           step == [p \in Nat \X (1..MaxNumbers) |-> p[1] * B + Number(v, p[2])]
           Loop(g) == g = [i \in 0..MaxNumbers |->
                              IF i = 0 THEN 0
                              ELSE g[i - 1] * (MaxNumber + 1) + (IF i <= Len(v) THEN v[i] ELSE 0)]
           upto == CHOOSE g : Loop(g)
<1>1. MaxNumbers \in Nat /\ MaxNumber \in Nat /\ B \in Nat
      BY BoundsAssumption
<1>2. \A i \in 1..MaxNumbers : Number(v, i) \in Nat
      BY VersionFacts, <1>1
<1>3. step \in [Nat \X (1..MaxNumbers) -> Nat]
  <2> SUFFICES ASSUME NEW p \in Nat \X (1..MaxNumbers)
               PROVE  p[1] * B + Number(v, p[2]) \in Nat
      OBVIOUS
  <2>1. p[1] \in Nat /\ Number(v, p[2]) \in Nat
        BY <1>2
  <2> HIDE DEF B
  <2>2. p[1] * B \in Nat
        BY <1>1, <2>1
  <2> QED BY <2>1, <2>2
<1>4. ASSUME NEW g \in [0..MaxNumbers -> Nat], Carries(g, MaxNumbers, 0, step)
      PROVE  Loop(g)
  <2>1. \A i \in 1..MaxNumbers :
           step[<<g[i - 1], i>>] = g[i - 1] * B + (IF i <= Len(v) THEN v[i] ELSE 0)
    <3> SUFFICES ASSUME NEW i \in 1..MaxNumbers
                 PROVE  step[<<g[i - 1], i>>] = g[i - 1] * B + (IF i <= Len(v) THEN v[i] ELSE 0)
        OBVIOUS
    <3>1. <<g[i - 1], i>> \in Nat \X (1..MaxNumbers)
          BY <1>1
    <3>2. step[<<g[i - 1], i>>] = g[i - 1] * B + Number(v, i)
          BY <3>1
    <3> QED BY <3>2 DEF Number
  <2>2. \A i \in 0..MaxNumbers :
           (IF i = 0 THEN 0 ELSE step[<<g[i - 1], i>>])
           = (IF i = 0 THEN 0 ELSE g[i - 1] * B + (IF i <= Len(v) THEN v[i] ELSE 0))
    <3> SUFFICES ASSUME NEW i \in 0..MaxNumbers, i # 0
                 PROVE  step[<<g[i - 1], i>>] = g[i - 1] * B + (IF i <= Len(v) THEN v[i] ELSE 0)
        OBVIOUS
    <3>1. i \in 1..MaxNumbers
          BY <1>1
    <3> HIDE DEF step, B
    <3> QED BY <2>1, <3>1
  <2> HIDE DEF step
  <2>3. g = [i \in 0..MaxNumbers |-> IF i = 0 THEN 0 ELSE step[<<g[i - 1], i>>]]
        BY <1>4 DEF Carries
  <2> QED BY <2>2, <2>3
<1>5. \E g : Loop(g)
  <2>1. \E g \in [0..MaxNumbers -> Nat] : Carries(g, MaxNumbers, 0, step)
    <3> HIDE DEF step
    <3> QED BY <1>1, <1>3, CarryExists
  <2> HIDE DEF Loop, step
  <2> QED BY <1>4, <2>1
<1>6. Loop(upto)
  <2> HIDE DEF Loop
  <2> QED BY <1>5
<1>7. Value(v) = upto[MaxNumbers]
      BY DEF Value
<1> HIDE DEF upto
<1>8. upto[0] = 0 /\ \A i \in 1..MaxNumbers : upto[i] = upto[i - 1] * B + Number(v, i)
  <2>1. \A i \in 0..MaxNumbers :
           upto[i] = IF i = 0 THEN 0
                     ELSE upto[i - 1] * B + (IF i <= Len(v) THEN v[i] ELSE 0)
        BY <1>6
  <2>2. 0 \in 0..MaxNumbers /\ \A i \in 1..MaxNumbers : i \in 0..MaxNumbers /\ i # 0
        BY <1>1
  <2> QED BY <2>1, <2>2 DEF Number
<1> DEFINE Good == {i \in 0..MaxNumbers : upto[i] \in Nat}
<1>9. 0..MaxNumbers \subseteq Good
  <2>1. 0 \in Good
        BY <1>1, <1>8
  <2>2. ASSUME NEW i \in 0..MaxNumbers, i < MaxNumbers, i \in Good PROVE i + 1 \in Good
    <3>1. i + 1 \in 1..MaxNumbers /\ (i + 1) - 1 = i /\ upto[i] \in Nat
          BY <1>1, <2>2
    <3>2. upto[i + 1] = upto[i] * B + Number(v, i + 1)
          BY <1>8, <3>1
    <3>3. Number(v, i + 1) \in Nat
          BY <1>2, <3>1
    <3> HIDE DEF B
    <3>4. upto[i] * B \in Nat
          BY <1>1, <3>1
    <3>5. upto[i + 1] \in Nat
          BY <3>2, <3>3, <3>4
    <3> QED BY <3>1, <3>5
  <2> HIDE DEF Good
  <2> QED BY <1>1, <2>1, <2>2, Induction
<1>10. ValueLoop(upto, v)
       BY <1>7, <1>8, <1>9 DEF ValueLoop
<1> QED BY <1>10

\* A higher place outweighs all the lower ones.
LEMMA HigherPlace ==
    ASSUME NEW B \in Nat, NEW p \in Nat, NEW q \in Nat, p < q,
           NEW x \in 0..(B - 1), NEW y \in Nat
    PROVE  p * B + x < q * B + y
<1>1. q = p + 1 + (q - p - 1) /\ q - p - 1 \in Nat
      OBVIOUS
<1>2. q * B = p * B + B + (q - p - 1) * B
      BY <1>1
<1>3. (q - p - 1) * B \in Nat /\ p * B \in Nat /\ q * B \in Nat
      BY <1>1
<1> HIDE <1>1
<1> QED BY <1>2, <1>3

LEMMA EqualValues ==
    ASSUME NEW a \in Versions, NEW b \in Versions, Differ(a, b) = {}
    PROVE  Value(a) = Value(b)
<1>1. PICK g : ValueLoop(g, a)
      BY ValueSteps
<1>2. PICK h : ValueLoop(h, b)
      BY ValueSteps
<1> DEFINE Good == {i \in 0..MaxNumbers : g[i] = h[i]}
<1>3. MaxNumbers \in Nat
      BY BoundsAssumption
<1>4. 0 \in Good
      BY <1>1, <1>2, <1>3 DEF ValueLoop
<1>5. ASSUME NEW i \in 0..MaxNumbers, i < MaxNumbers, i \in Good PROVE i + 1 \in Good
  <2>1. i + 1 \in 1..MaxNumbers /\ (i + 1) - 1 = i /\ Number(a, i + 1) = Number(b, i + 1)
        BY <1>3, <1>5 DEF Differ
  <2>2. g[i + 1] = g[i] * (MaxNumber + 1) + Number(a, i + 1)
        BY <1>1, <2>1 DEF ValueLoop
  <2>3. h[i + 1] = h[i] * (MaxNumber + 1) + Number(b, i + 1)
        BY <1>2, <2>1 DEF ValueLoop
  <2> QED BY <1>3, <1>5, <2>1, <2>2, <2>3
<1>6. MaxNumbers \in Good
  <2> HIDE DEF Good
  <2> QED BY <1>3, <1>4, <1>5, Induction
<1> QED BY <1>1, <1>2, <1>6 DEF ValueLoop

\* Equal before the first difference, and never again in another order after it.
LEMMA LowerValue ==
    ASSUME NEW a \in Versions, NEW b \in Versions, NEW m \in 1..MaxNumbers,
           \A j \in 1..(m - 1) : Number(a, j) = Number(b, j), Number(a, m) < Number(b, m)
    PROVE  Value(a) < Value(b)
<1>1. PICK g : ValueLoop(g, a)
      BY ValueSteps
<1>2. PICK h : ValueLoop(h, b)
      BY ValueSteps
<1> DEFINE Good == {i \in 0..MaxNumbers : IF i < m THEN g[i] = h[i] ELSE g[i] < h[i]}
<1>3. MaxNumbers \in Nat /\ MaxNumber \in Nat
      BY BoundsAssumption
<1>4. 0 \in Good
      BY <1>1, <1>2, <1>3 DEF ValueLoop
<1>5. ASSUME NEW i \in 0..MaxNumbers, i < MaxNumbers, i \in Good PROVE i + 1 \in Good
  <2>1. i + 1 \in 1..MaxNumbers /\ (i + 1) - 1 = i
        BY <1>3, <1>5
  <2>2. /\ g[i + 1] = g[i] * (MaxNumber + 1) + Number(a, i + 1)
        /\ h[i + 1] = h[i] * (MaxNumber + 1) + Number(b, i + 1)
        /\ g[i] \in Nat /\ h[i] \in Nat
    <3>1. g[(i + 1) - 1] = g[i] /\ h[(i + 1) - 1] = h[i]
          BY <2>1
    <3> QED BY <1>1, <1>2, <1>5, <2>1, <3>1 DEF ValueLoop
  <2>3. Number(a, i + 1) \in 0..MaxNumber /\ Number(b, i + 1) \in 0..MaxNumber
        BY <2>1, VersionFacts
  <2>4. CASE i + 1 < m
    <3>1. g[i] = h[i] /\ Number(a, i + 1) = Number(b, i + 1)
          BY <1>5, <2>1, <2>4
    <3>2. g[i + 1] = h[i + 1]
          BY <2>2, <3>1
    <3> QED BY <2>1, <2>4, <3>2
  <2>5. CASE i + 1 = m
    <3>1. g[i] = h[i] /\ Number(a, i + 1) < Number(b, i + 1)
          BY <1>5, <2>5
    <3> DEFINE P == g[i] * (MaxNumber + 1)
    <3>2. P \in Nat /\ g[i + 1] = P + Number(a, i + 1) /\ h[i + 1] = P + Number(b, i + 1)
          BY <1>3, <2>2, <3>1
    <3> HIDE DEF P
    <3>3. g[i + 1] < h[i + 1]
          BY <2>3, <3>1, <3>2
    <3> QED BY <2>1, <2>5, <3>3
  <2>6. CASE i + 1 > m
    <3>1. g[i] < h[i]
          BY <1>5, <2>6
    <3>2. MaxNumber + 1 \in Nat /\ Number(a, i + 1) \in 0..((MaxNumber + 1) - 1)
          /\ Number(b, i + 1) \in Nat
          BY <1>3, <2>3
    <3>3. g[i] * (MaxNumber + 1) + Number(a, i + 1) < h[i] * (MaxNumber + 1) + Number(b, i + 1)
          BY <2>2, <3>1, <3>2, HigherPlace
    <3>4. g[i + 1] < h[i + 1]
          BY <2>2, <3>3
    <3> QED BY <2>1, <2>6, <3>4
  <2> QED BY <2>1, <2>4, <2>5, <2>6
<1>6. MaxNumbers \in Good
  <2> HIDE DEF Good
  <2> QED BY <1>3, <1>4, <1>5, Induction
<1> QED BY <1>1, <1>2, <1>6 DEF ValueLoop

\* The order of versions is that of their values.
LEMMA CompareIsOrder ==
    ASSUME NEW a \in Versions, NEW b \in Versions
    PROVE  /\ Value(a) \in Nat /\ Value(b) \in Nat
           /\ compareVersion(a, b) = IF Value(a) < Value(b) THEN -1
                                     ELSE IF Value(a) > Value(b) THEN 1 ELSE 0
<1>1. \A v \in Versions : Value(v) \in Nat
  <2> SUFFICES ASSUME NEW v \in Versions PROVE Value(v) \in Nat
      OBVIOUS
  <2>1. PICK g : ValueLoop(g, v)
        BY ValueSteps
  <2> QED BY <2>1, BoundsAssumption DEF ValueLoop
<1>2. CASE compareVersion(a, b) = 0 /\ Differ(a, b) = {}
  <2>1. Value(a) = Value(b)
        BY <1>2, EqualValues
  <2> QED BY <1>1, <1>2, <2>1
<1>3. ASSUME NEW m \in 1..MaxNumbers, \A j \in 1..(m - 1) : Number(a, j) = Number(b, j),
             Number(a, m) < Number(b, m), compareVersion(a, b) = -1
      PROVE  compareVersion(a, b) = IF Value(a) < Value(b) THEN -1
                                    ELSE IF Value(a) > Value(b) THEN 1 ELSE 0
  <2>1. Value(a) < Value(b)
        BY <1>3, LowerValue
  <2> QED BY <1>3, <2>1
<1>4. ASSUME NEW m \in 1..MaxNumbers, \A j \in 1..(m - 1) : Number(a, j) = Number(b, j),
             Number(a, m) > Number(b, m), compareVersion(a, b) = 1
      PROVE  compareVersion(a, b) = IF Value(a) < Value(b) THEN -1
                                    ELSE IF Value(a) > Value(b) THEN 1 ELSE 0
  <2>1. Number(b, m) < Number(a, m)
    <3>1. m \in Nat \ {0} /\ MaxNumber \in Nat
          BY BoundsAssumption
    <3>2. Number(a, m) \in Nat /\ Number(b, m) \in Nat
          BY <3>1, VersionFacts
    <3> QED BY <1>4, <3>2
  <2>2. Value(b) < Value(a)
        BY <1>4, <2>1, LowerValue
  <2> QED BY <1>1, <1>4, <2>2
<1> QED BY <1>1, <1>2, <1>3, <1>4, FirstDifference

\* The order is one: swapped arguments give the opposite answer, and an
\* appliance that installs what it is offered, again and again, goes forward
\* all the way, never back to where it has been.
THEOREM OffersLeadForward ==
    ASSUME NEW a \in Versions, NEW b \in Versions, NEW c \in Versions
    PROVE  /\ compareVersion(b, a) = -compareVersion(a, b)
           /\ Offered(a, b) => ~Offered(b, a)
           /\ Offered(a, b) /\ Offered(b, c) => Offered(a, c)
<1>1. /\ Value(a) \in Nat /\ Value(b) \in Nat /\ Value(c) \in Nat
      BY CompareIsOrder
<1>2. \A x, y \in {a, b, c} :
         compareVersion(x, y) = IF Value(x) < Value(y) THEN -1
                                ELSE IF Value(x) > Value(y) THEN 1 ELSE 0
      BY CompareIsOrder
<1>3. \A x, y \in {a, b, c} :
         compareVersion(x, y) < 0 <=> Value(x) < Value(y)
      BY <1>1, <1>2
<1>4. compareVersion(b, a) = -compareVersion(a, b)
      BY <1>1, <1>2
<1> QED BY <1>1, <1>3, <1>4 DEF Offered

\* compareVersion orders versions of any length and any numbers as their values
\* are ordered, and an image is offered to older versions only, not to itself.
THEOREM VersionsOrdered == Spec => []VersionOrder
<1>1. Computed => VersionOrder
  <2> SUFFICES ASSUME Computed PROVE VersionOrder
      OBVIOUS
  <2>1. ASSUME call \in Calls, call.fn \in {"compareVersion", "Offered"}
        PROVE  call.a \in Versions /\ call.b \in Versions
        BY <2>1 DEF Calls
  <2>2. ASSUME Returned("compareVersion")
        PROVE  Result = IF Value(call.a) < Value(call.b) THEN -1
                        ELSE IF Value(call.a) > Value(call.b) THEN 1 ELSE 0
    <3>1. call.a \in Versions /\ call.b \in Versions
          BY <2>1, <2>2 DEF Computed, Returned
    <3> QED BY <2>2, <3>1, CompareIsOrder DEF Computed
  <2>3. ASSUME Returned("Offered")
        PROVE  /\ Result => Value(call.a) < Value(call.b)
               /\ Len(call.b) = 4 =>
                     /\ Result = (Value(call.a) < Value(call.b))
                     /\ ~Offered(SubSeq(call.b, 1, 4), call.b)
    <3> DEFINE a == call.a
               b == call.b
    <3>1. a \in Versions /\ b \in Versions
          BY <2>1, <2>3 DEF Computed, Returned
    <3>2. Result = (compareVersion(a, b) < 0 /\ Len(b) >= 4)
          BY <2>3 DEF Computed, Offered
    <3> HIDE DEF a, b
    <3>3. compareVersion(a, b) < 0 <=> Value(a) < Value(b)
          BY <3>1, CompareIsOrder
    <3>4. Result => Value(a) < Value(b)
          BY <3>2, <3>3
    <3>5. ASSUME Len(b) = 4 PROVE Result = (Value(a) < Value(b))
      <4>1. Len(b) >= 4
            BY <3>5
      <4>2. Value(a) \in Nat /\ Value(b) \in Nat /\ compareVersion(a, b) \in Int
            BY <3>1, CompareIsOrder
      <4>3. (compareVersion(a, b) < 0 /\ Len(b) >= 4) = (Value(a) < Value(b))
            BY <3>3, <4>1, <4>2
      <4> QED BY <3>2, <4>3, Zenon
    <3>6. ASSUME Len(b) = 4 PROVE ~Offered(SubSeq(b, 1, 4), b)
      <4>1. b \in Seq(0..MaxNumber)
            BY <3>1, VersionFacts
      <4>2. SubSeq(b, 1, 4) = b
            BY <3>6, <4>1, SubSeqFull
      <4>3. compareVersion(b, b) = 0
            BY <3>1, CompareIsOrder
      <4> DEFINE c == SubSeq(b, 1, 4)
      <4>4. c = b
            BY <4>2
      <4> HIDE DEF c
      <4>5. ~(compareVersion(c, b) < 0)
            BY <4>3, <4>4
      <4>6. ~Offered(c, b)
            BY <4>5 DEF Offered
      <4> QED BY <4>6 DEF c
    <3> QED BY <3>4, <3>5, <3>6 DEF a, b
  <2> QED BY <2>2, <2>3 DEF VersionOrder
<1> QED BY <1>1, Results, PTL

----------------------------------------------------------------------------
(* Listings.                                                               *)

Links == {<<>>, <<1>>, <<2>>}
Parsed == [ver : Nat, link : Links, bad : BOOLEAN]

LEMMA LineFacts ==
    ASSUME NEW line \in Lines
    PROVE  \/ /\ line.key = "0" /\ Len(line.value) \in 1..3
              /\ \A i \in 1..Len(line.value) : line.value[i] \in Nat
              /\ line.value # <<>>
           \/ line.key = "full" /\ line.value \in Links
           \/ line.key \in {"sig", ""} /\ line.value # <<>>
           \/ line.key = "" /\ line.value = <<>>
<1>1. CASE line \in [key : {"0"}, value : UNION {[1..n -> 0..2] : n \in 1..3}]
  <2>1. PICK n \in 1..3 : line.value \in [1..n -> 0..2]
        BY <1>1
  <2>2. line.value \in Seq(0..2) /\ Len(line.value) = n
        BY <2>1, SeqDef, LenProperties
  <2>3. line.value # <<>>
        BY <2>2, EmptySeq
  <2>4. line.key = "0" /\ Len(line.value) \in 1..3
        BY <1>1, <2>2
  <2>5. \A i \in 1..Len(line.value) : line.value[i] \in Nat
    <3>1. \A i \in 1..n : line.value[i] \in 0..2
          BY <2>1
    <3> QED BY <2>2, <3>1
  <2> QED BY <2>3, <2>4, <2>5
<1>2. CASE line \in [key : {"full"}, value : {<<>>, <<1>>, <<2>>}]
      BY <1>2 DEF Links
<1>3. CASE line \in [key : {"sig", ""}, value : {<<1>>}]
  <2>1. <<1>> # <<>>
        OBVIOUS
  <2> QED BY <1>3, <2>1
<1>4. CASE line \in [key : {""}, value : {<<>>}]
      BY <1>4
<1> QED BY <1>1, <1>2, <1>3, <1>4 DEF Lines

\* What the strict parser has read without complaint, the other has read the
\* same, but for a version the strict one could not make out.
Agree(x, k) ==
    x.bad \/ (~k.bad /\ x.link = k.link /\ (x.ver = k.ver \/ x.ver = 0))

LEMMA LineParsed ==
    ASSUME NEW x \in Parsed, NEW k \in Parsed, NEW line \in Lines
    PROVE  /\ idsLine(x, line) \in Parsed
           /\ kerioLine(k, line) \in Parsed
           /\ Agree(x, k) /\ ~x.bad => Agree(idsLine(x, line), kerioLine(k, line))
<1> USE DEF Parsed
<1>1. ASSUME NEW n \in 2..3, line.key = "0", Len(line.value) = n,
             \A i \in 1..n : line.value[i] \in Nat
      PROVE  /\ idsLine(x, line) \in Parsed
             /\ kerioLine(k, line) \in Parsed
             /\ Agree(x, k) /\ ~x.bad => Agree(idsLine(x, line), kerioLine(k, line))
  <2> DEFINE v == line.value
             xv == IF n = 2 THEN v[2] ELSE 0
             kv == v[n]
  <2>1. xv \in Nat /\ kv \in Nat /\ (xv = kv \/ xv = 0)
    <3> HIDE DEF v
    <3>1. v[2] \in Nat /\ v[n] \in Nat
          BY <1>1 DEF v
    <3> QED BY <3>1
  <2>4. line.key # "" /\ line.key # "full" /\ Len(v) > 1
        BY <1>1
  <2>2. idsLine(x, line) = [x EXCEPT !.ver = xv]
    <3>1. idsLine(x, line) = [x EXCEPT !.ver = IF Len(v) = 2 THEN v[2] ELSE 0]
          BY <1>1, <2>4 DEF idsLine
    <3> QED BY <1>1, <3>1
  <2>3. kerioLine(k, line) = [k EXCEPT !.ver = kv]
    <3>1. kerioLine(k, line) = [k EXCEPT !.ver = Last(v)]
          BY <1>1, <2>4 DEF kerioLine
    <3>2. Last(v) = v[n]
          BY <1>1 DEF Last
    <3> QED BY <3>1, <3>2
  <2> HIDE DEF xv, kv
  <2> QED BY <2>1, <2>2, <2>3 DEF Agree
<1>2. CASE line.key = "0" /\ Len(line.value) = 1 /\ line.value # <<>>
  <2>1. idsLine(x, line) = [x EXCEPT !.bad = TRUE] /\ kerioLine(k, line) = k
        BY <1>2 DEF idsLine, kerioLine
  <2> QED BY <2>1 DEF Agree
<1>3. CASE line.key = "full" /\ line.value \in Links
  <2>1. idsLine(x, line) = [x EXCEPT !.link = line.value]
        /\ kerioLine(k, line) = [k EXCEPT !.link = line.value]
        BY <1>3 DEF idsLine, kerioLine
  <2> QED BY <1>3, <2>1 DEF Agree
<1>4. CASE line.key \in {"sig", ""} /\ line.value # <<>>
  <2>1. idsLine(x, line) = [x EXCEPT !.bad = TRUE] /\ kerioLine(k, line) = k
        BY <1>4 DEF idsLine, kerioLine
  <2> QED BY <2>1 DEF Agree
<1>5. CASE line.key = "" /\ line.value = <<>>
  <2>1. idsLine(x, line) = x /\ kerioLine(k, line) = k
        BY <1>5 DEF idsLine, kerioLine
  <2> QED BY <2>1
<1>6. \/ /\ line.key = "0" /\ Len(line.value) \in 1..3
         /\ \A i \in 1..Len(line.value) : line.value[i] \in Nat
         /\ line.value # <<>>
      \/ line.key = "full" /\ line.value \in Links
      \/ line.key \in {"sig", ""} /\ line.value # <<>>
      \/ line.key = "" /\ line.value = <<>>
      BY LineFacts
<1>7. CASE line.key = "0" /\ Len(line.value) \in 1..3
           /\ (\A i \in 1..Len(line.value) : line.value[i] \in Nat) /\ line.value # <<>>
  <2> DEFINE n == Len(line.value)
  <2>1. \A i \in 1..n : line.value[i] \in Nat
        BY <1>7
  <2>2. n = 1 \/ n \in 2..3
        BY <1>7
  <2>3. CASE n = 1
        BY <1>2, <1>7, <2>3
  <2>4. CASE n \in 2..3
    <3> HIDE DEF Parsed
    <3> QED BY <1>1, <1>7, <2>1, <2>4
  <2> QED BY <2>2, <2>3, <2>4
<1> HIDE DEF Parsed
<1> QED BY <1>3, <1>4, <1>5, <1>6, <1>7

\* The loops of the two parsers, line by line.
StrictLoop(g, lines) ==
    /\ g[0] = Unparsed
    /\ \A i \in 1..Len(lines) : g[i] = IF g[i - 1].bad THEN g[i - 1] ELSE idsLine(g[i - 1], lines[i])
    /\ \A i \in 0..Len(lines) : g[i] \in Parsed
    /\ idsListing(lines) = [g[Len(lines)] EXCEPT !.bad = @ \/ g[Len(lines)].link = <<>> \/ g[Len(lines)].ver = 0]

LEMMA StrictLoopSteps ==
    ASSUME NEW lines \in Seq(Lines)
    PROVE  \E g : StrictLoop(g, lines)
<1> DEFINE n == Len(lines)
           step == [p \in Parsed \X (1..n) |->
                       IF p[1].bad THEN p[1] ELSE idsLine(p[1], lines[p[2]])]
           Loop(g) == g = [i \in 0..Len(lines) |->
                              IF i = 0 THEN Unparsed
                              ELSE IF g[i - 1].bad THEN g[i - 1] ELSE idsLine(g[i - 1], lines[i])]
           upto == CHOOSE g : Loop(g)
<1>1. n \in Nat /\ Unparsed \in Parsed /\ \A i \in 1..n : lines[i] \in Lines
      BY LenProperties DEF Unparsed, Parsed, Links
<1>2. step \in [Parsed \X (1..n) -> Parsed]
  <2> HIDE DEF n
  <2> SUFFICES ASSUME NEW p \in Parsed \X (1..n)
               PROVE  (IF p[1].bad THEN p[1] ELSE idsLine(p[1], lines[p[2]])) \in Parsed
      OBVIOUS
  <2>1. p[1] \in Parsed /\ lines[p[2]] \in Lines
        BY <1>1
  <2> QED BY <2>1, LineParsed
<1>3. \A g \in [0..n -> Parsed] : Carries(g, n, Unparsed, step) => Loop(g)
  <2> SUFFICES ASSUME NEW g \in [0..n -> Parsed], Carries(g, n, Unparsed, step)
               PROVE  Loop(g)
      OBVIOUS
  <2>1. \A i \in 1..n : step[<<g[i - 1], i>>] = IF g[i - 1].bad THEN g[i - 1] ELSE idsLine(g[i - 1], lines[i])
    <3> HIDE DEF n
    <3> SUFFICES ASSUME NEW i \in 1..n
                 PROVE  step[<<g[i - 1], i>>] = IF g[i - 1].bad THEN g[i - 1] ELSE idsLine(g[i - 1], lines[i])
        OBVIOUS
    <3>1. <<g[i - 1], i>> \in Parsed \X (1..n)
          BY <1>1
    <3> QED BY <3>1
  <2> HIDE DEF step
  <2>2. \A i \in 0..n : (IF i = 0 THEN Unparsed ELSE step[<<g[i - 1], i>>])
                        = (IF i = 0 THEN Unparsed ELSE IF g[i - 1].bad THEN g[i - 1] ELSE idsLine(g[i - 1], lines[i]))
    <3> HIDE DEF n
    <3> QED BY <1>1, <2>1
  <2>3. g = [i \in 0..n |-> IF i = 0 THEN Unparsed ELSE step[<<g[i - 1], i>>]]
        BY DEF Carries
  <2> QED BY <2>2, <2>3
<1>4. Loop(upto)
  <2>1. \E g \in [0..n -> Parsed] : Carries(g, n, Unparsed, step)
    <3> HIDE DEF n, step
    <3> QED BY <1>1, <1>2, CarryExists
  <2> HIDE DEF Loop, step, n
  <2> QED BY <1>3, <2>1
<1>5. idsListing(lines) = [upto[Len(lines)] EXCEPT !.bad = @ \/ upto[Len(lines)].link = <<>> \/ upto[Len(lines)].ver = 0]
      BY DEF idsListing
<1> HIDE DEF upto
<1>6. \A i \in 0..n : upto[i] = IF i = 0 THEN Unparsed
                               ELSE IF upto[i - 1].bad THEN upto[i - 1] ELSE idsLine(upto[i - 1], lines[i])
      BY <1>4
<1>7. upto[0] = Unparsed /\ \A i \in 1..n : upto[i] = IF upto[i - 1].bad THEN upto[i - 1] ELSE idsLine(upto[i - 1], lines[i])
  <2> HIDE DEF n
  <2>1. 0 \in 0..n /\ \A i \in 1..n : i \in 0..n /\ i # 0
        BY <1>1
  <2> QED BY <1>6, <2>1
<1> DEFINE Good == {i \in 0..n : upto[i] \in Parsed}
<1>8. 0..n \subseteq Good
  <2> HIDE DEF n
  <2>1. 0 \in Good
        BY <1>1, <1>7
  <2>2. ASSUME NEW i \in 0..n, i < n, i \in Good PROVE i + 1 \in Good
    <3>1. i + 1 \in 1..n /\ (i + 1) - 1 = i /\ upto[i] \in Parsed
          BY <1>1, <2>2
    <3>2. upto[i + 1] = IF upto[i].bad THEN upto[i] ELSE idsLine(upto[i], lines[i + 1])
          BY <1>7, <3>1
    <3>3. lines[i + 1] \in Lines
          BY <1>1, <3>1
    <3>4. upto[i + 1] \in Parsed
          BY <3>1, <3>2, <3>3, LineParsed
    <3> QED BY <3>1, <3>4
  <2> HIDE DEF Good
  <2> QED BY <1>1, <2>1, <2>2, Induction
<1>9. StrictLoop(upto, lines)
      BY <1>5, <1>7, <1>8 DEF StrictLoop
<1> QED BY <1>9

OtherLoop(g, lines) ==
    /\ g[0] = Unparsed
    /\ \A i \in 1..Len(lines) : g[i] = kerioLine(g[i - 1], lines[i])
    /\ \A i \in 0..Len(lines) : g[i] \in Parsed
    /\ parseKerioUpdate(lines) = [g[Len(lines)] EXCEPT !.bad = g[Len(lines)].ver = 0]

LEMMA OtherLoopSteps ==
    ASSUME NEW lines \in Seq(Lines)
    PROVE  \E g : OtherLoop(g, lines)
<1> DEFINE n == Len(lines)
           step == [p \in Parsed \X (1..n) |->
                       kerioLine(p[1], lines[p[2]])]
           Loop(g) == g = [i \in 0..Len(lines) |->
                              IF i = 0 THEN Unparsed
                              ELSE kerioLine(g[i - 1], lines[i])]
           upto == CHOOSE g : Loop(g)
<1>1. n \in Nat /\ Unparsed \in Parsed /\ \A i \in 1..n : lines[i] \in Lines
      BY LenProperties DEF Unparsed, Parsed, Links
<1>2. step \in [Parsed \X (1..n) -> Parsed]
  <2> HIDE DEF n
  <2> SUFFICES ASSUME NEW p \in Parsed \X (1..n)
               PROVE  (kerioLine(p[1], lines[p[2]])) \in Parsed
      OBVIOUS
  <2>1. p[1] \in Parsed /\ lines[p[2]] \in Lines
        BY <1>1
  <2> QED BY <2>1, LineParsed
<1>3. \A g \in [0..n -> Parsed] : Carries(g, n, Unparsed, step) => Loop(g)
  <2> SUFFICES ASSUME NEW g \in [0..n -> Parsed], Carries(g, n, Unparsed, step)
               PROVE  Loop(g)
      OBVIOUS
  <2>1. \A i \in 1..n : step[<<g[i - 1], i>>] = kerioLine(g[i - 1], lines[i])
    <3> HIDE DEF n
    <3> SUFFICES ASSUME NEW i \in 1..n
                 PROVE  step[<<g[i - 1], i>>] = kerioLine(g[i - 1], lines[i])
        OBVIOUS
    <3>1. <<g[i - 1], i>> \in Parsed \X (1..n)
          BY <1>1
    <3> QED BY <3>1
  <2> HIDE DEF step
  <2>2. \A i \in 0..n : (IF i = 0 THEN Unparsed ELSE step[<<g[i - 1], i>>])
                        = (IF i = 0 THEN Unparsed ELSE kerioLine(g[i - 1], lines[i]))
    <3> HIDE DEF n
    <3> QED BY <1>1, <2>1
  <2>3. g = [i \in 0..n |-> IF i = 0 THEN Unparsed ELSE step[<<g[i - 1], i>>]]
        BY DEF Carries
  <2> QED BY <2>2, <2>3
<1>4. Loop(upto)
  <2>1. \E g \in [0..n -> Parsed] : Carries(g, n, Unparsed, step)
    <3> HIDE DEF n, step
    <3> QED BY <1>1, <1>2, CarryExists
  <2> HIDE DEF Loop, step, n
  <2> QED BY <1>3, <2>1
<1>5. parseKerioUpdate(lines) = [upto[Len(lines)] EXCEPT !.bad = upto[Len(lines)].ver = 0]
      BY DEF parseKerioUpdate
<1> HIDE DEF upto
<1>6. \A i \in 0..n : upto[i] = IF i = 0 THEN Unparsed
                               ELSE kerioLine(upto[i - 1], lines[i])
      BY <1>4
<1>7. upto[0] = Unparsed /\ \A i \in 1..n : upto[i] = kerioLine(upto[i - 1], lines[i])
  <2> HIDE DEF n
  <2>1. 0 \in 0..n /\ \A i \in 1..n : i \in 0..n /\ i # 0
        BY <1>1
  <2> QED BY <1>6, <2>1
<1> DEFINE Good == {i \in 0..n : upto[i] \in Parsed}
<1>8. 0..n \subseteq Good
  <2> HIDE DEF n
  <2>1. 0 \in Good
        BY <1>1, <1>7
  <2>2. ASSUME NEW i \in 0..n, i < n, i \in Good PROVE i + 1 \in Good
    <3>1. i + 1 \in 1..n /\ (i + 1) - 1 = i /\ upto[i] \in Parsed
          BY <1>1, <2>2
    <3>2. upto[i + 1] = kerioLine(upto[i], lines[i + 1])
          BY <1>7, <3>1
    <3>3. lines[i + 1] \in Lines
          BY <1>1, <3>1
    <3>4. upto[i + 1] \in Parsed
          BY <3>1, <3>2, <3>3, LineParsed
    <3> QED BY <3>1, <3>4
  <2> HIDE DEF Good
  <2> QED BY <1>1, <2>1, <2>2, Induction
<1>9. OtherLoop(upto, lines)
      BY <1>5, <1>7, <1>8 DEF OtherLoop
<1> QED BY <1>9

LEMMA ParsersAgree ==
    ASSUME NEW lines \in Seq(Lines), ~idsListing(lines).bad
    PROVE  parseKerioUpdate(lines) = idsListing(lines)
<1> DEFINE n == Len(lines)
<1>1. PICK g : StrictLoop(g, lines)
      BY StrictLoopSteps
<1>2. PICK h : OtherLoop(h, lines)
      BY OtherLoopSteps
<1>3. n \in Nat /\ \A i \in 1..n : lines[i] \in Lines
      BY LenProperties
<1>4. /\ g[0] = Unparsed /\ h[0] = Unparsed
      /\ \A i \in 1..n : g[i] = IF g[i - 1].bad THEN g[i - 1] ELSE idsLine(g[i - 1], lines[i])
      /\ \A i \in 1..n : h[i] = kerioLine(h[i - 1], lines[i])
      /\ \A i \in 0..n : g[i] \in Parsed /\ h[i] \in Parsed
      BY <1>1, <1>2 DEF StrictLoop, OtherLoop
<1>5. /\ idsListing(lines) = [g[n] EXCEPT !.bad = @ \/ g[n].link = <<>> \/ g[n].ver = 0]
      /\ parseKerioUpdate(lines) = [h[n] EXCEPT !.bad = h[n].ver = 0]
      BY <1>1, <1>2 DEF StrictLoop, OtherLoop
<1> DEFINE Good == {i \in 0..n : Agree(g[i], h[i])}
<1> HIDE DEF n
<1>6. 0 \in Good
      BY <1>3, <1>4 DEF Agree, Unparsed
<1>7. ASSUME NEW i \in 0..n, i < n, i \in Good PROVE i + 1 \in Good
  <2>1. i + 1 \in 1..n /\ (i + 1) - 1 = i /\ lines[i + 1] \in Lines
        BY <1>3, <1>7
  <2>2. g[i] \in Parsed /\ h[i] \in Parsed /\ Agree(g[i], h[i])
        BY <1>4, <1>7
  <2>3. g[i + 1] = IF g[i].bad THEN g[i] ELSE idsLine(g[i], lines[i + 1])
        BY <1>4, <2>1
  <2>4. h[i + 1] = kerioLine(h[i], lines[i + 1])
        BY <1>4, <2>1
  <2>5. CASE g[i].bad
    <3>1. Agree(g[i + 1], h[i + 1])
          BY <2>3, <2>5 DEF Agree
    <3> QED BY <2>1, <3>1
  <2>6. CASE ~g[i].bad
    <3>1. Agree(g[i + 1], h[i + 1])
          BY <2>1, <2>2, <2>3, <2>4, <2>6, LineParsed
    <3> QED BY <2>1, <3>1
  <2> QED BY <2>5, <2>6
<1>8. n \in Good
  <2>1. n \in 0..n /\ n \in Nat
        BY <1>3
  <2> HIDE DEF Good
  <2>2. 0..n \subseteq Good
        BY <1>6, <1>7, <2>1, Induction
  <2> QED BY <2>1, <2>2
<1>9. g[n] \in Parsed /\ h[n] \in Parsed /\ Agree(g[n], h[n])
      BY <1>3, <1>4, <1>8
<1>10. ~g[n].bad /\ g[n].ver # 0
       BY <1>5, <1>9 DEF Parsed
<1>11. g[n].link = h[n].link /\ g[n].ver = h[n].ver /\ ~h[n].bad /\ g[n].link # <<>>
       BY <1>5, <1>9, <1>10 DEF Agree, Parsed
<1> QED BY <1>5, <1>9, <1>10, <1>11 DEF Parsed

\* A listing of any number of lines that the databases' updates accept reads
\* the same for the link handler.
THEOREM ListingsAgreed == Spec => []ListingsAgree
<1>1. Computed => ListingsAgree
  <2> SUFFICES ASSUME Computed, Returned("listing"), ~Result.ids.bad
               PROVE  Result.kerio = Result.ids
      BY DEF ListingsAgree
  <2>1. Result = [ids |-> idsListing(call.a), kerio |-> parseKerioUpdate(call.a)]
        BY DEF Computed
  <2>2. call.a \in Seq(Lines)
    <3>1. call.a \in UNION {[1..n -> Lines] : n \in 0..MaxLines}
          BY DEF Computed, Returned, Calls
    <3>2. PICK n \in 0..MaxLines : call.a \in [1..n -> Lines]
          BY <3>1
    <3> QED BY <3>2, BoundsAssumption, SeqDef
  <2> QED BY <2>1, <2>2, ParsersAgree
<1> QED BY <1>1, Results, PTL

----------------------------------------------------------------------------
(* Texts.                                                                  *)

Letters == {"a", "b"}

LEMMA TextFacts ==
    ASSUME NEW n \in Nat
    PROVE  Texts(n) = {s \in Seq(Letters) : Len(s) <= n}
<1>1. ASSUME NEW s \in Texts(n) PROVE s \in Seq(Letters) /\ Len(s) <= n
  <2>1. PICK k \in 0..n : s \in [1..k -> Letters]
        BY <1>1 DEF Texts, Letters
  <2>2. s \in Seq(Letters)
        BY <2>1, SeqDef
  <2>3. Len(s) = k
        BY <2>1, <2>2, LenProperties
  <2> QED BY <2>2, <2>3
<1>2. ASSUME NEW s \in Seq(Letters), Len(s) <= n PROVE s \in Texts(n)
  <2>1. Len(s) \in 0..n /\ s \in [1..Len(s) -> Letters]
        BY <1>2, LenProperties
  <2> QED BY <2>1 DEF Texts, Letters
<1> QED BY <1>1, <1>2

\* A text without its first and without its last letter.
LEMMA CutFacts ==
    ASSUME NEW s \in Seq(Letters), Len(s) > 0
    PROVE  /\ Tail(s) \in Seq(Letters) /\ Len(Tail(s)) = Len(s) - 1
           /\ \A i \in 1..(Len(s) - 1) : Tail(s)[i] = s[i + 1]
           /\ Front(s) \in Seq(Letters) /\ Len(Front(s)) = Len(s) - 1
           /\ \A i \in 1..(Len(s) - 1) : Front(s)[i] = s[i]
<1>1. Len(s) \in Nat /\ s # <<>>
      BY LenProperties, EmptySeq
<1>2. /\ Tail(s) \in Seq(Letters) /\ Len(Tail(s)) = Len(s) - 1
      /\ \A i \in 1..Len(Tail(s)) : Tail(s)[i] = s[i + 1]
      BY <1>1, HeadTailProperties
<1> DEFINE m == Len(s) - 1
           front == SubSeq(s, 1, m)
<1>3. m \in Int /\ \A i \in 1..m : s[i] \in Letters
      BY <1>1, ElementOfSeq
<1>4. /\ front \in Seq(Letters)
      /\ Len(front) = IF 1 <= m THEN m - 1 + 1 ELSE 0
      /\ \A i \in 1..(m - 1 + 1) : front[i] = s[1 + i - 1]
  <2> HIDE DEF m
  <2> QED BY <1>3, SubSeqProperties
<1> HIDE DEF front
<1>5. Len(front) = Len(s) - 1 /\ \A i \in 1..(Len(s) - 1) : front[i] = s[i]
  <2>1. Len(front) = Len(s) - 1
    <3>1. Len(front) = IF 1 <= m THEN m - 1 + 1 ELSE 0
          BY <1>4
    <3>2. m \in Nat
          BY <1>1
    <3>3. Len(front) = m
      <4> HIDE DEF m
      <4> QED BY <3>1, <3>2
    <3> QED BY <3>3
  <2>2. ASSUME NEW i \in 1..(Len(s) - 1) PROVE front[i] = s[i]
    <3>1. i \in 1..(m - 1 + 1) /\ 1 + i - 1 = i
          BY <1>1
    <3>2. front[i] = s[1 + i - 1]
          BY <1>4, <3>1
    <3> QED BY <3>1, <3>2
  <2> QED BY <2>1, <2>2
<1>6. Front(s) = front
      BY DEF Front, front
<1> QED BY <1>2, <1>4, <1>5, <1>6

\* Where a text has a phrase.
Match(s, i, phrase) == \A j \in 1..Len(phrase) : s[i + j] = phrase[j]
Occurs(s, phrase) == \E i \in Nat : i + Len(phrase) <= Len(s) /\ Match(s, i, phrase)

LEMMA OccursInCut ==
    ASSUME NEW s \in Seq(Letters), NEW phrase \in Seq(Letters), Len(s) > Len(phrase)
    PROVE  Occurs(s, phrase) <=> Occurs(Tail(s), phrase) \/ Occurs(Front(s), phrase)
<1>1. /\ Len(s) \in Nat /\ Len(phrase) \in Nat
      /\ Len(Tail(s)) = Len(s) - 1 /\ Len(Front(s)) = Len(s) - 1
      /\ \A i \in 1..(Len(s) - 1) : Tail(s)[i] = s[i + 1]
      /\ \A i \in 1..(Len(s) - 1) : Front(s)[i] = s[i]
  <2>1. Len(s) \in Nat /\ Len(phrase) \in Nat
        BY LenProperties
  <2> QED BY <2>1, CutFacts
<1>2. ASSUME NEW i \in Nat, i + Len(phrase) <= Len(s), Match(s, i, phrase)
      PROVE  Occurs(Tail(s), phrase) \/ Occurs(Front(s), phrase)
  <2>1. CASE i = 0
    <3>1. \A j \in 1..Len(phrase) : Front(s)[0 + j] = phrase[j]
          BY <1>1, <1>2, <2>1 DEF Match
    <3>2. 0 \in Nat /\ 0 + Len(phrase) <= Len(Front(s))
          BY <1>1
    <3>3. Match(Front(s), 0, phrase)
          BY <3>1 DEF Match
    <3> QED BY <3>2, <3>3 DEF Occurs
  <2>2. CASE i > 0
    <3>1. i - 1 \in Nat /\ (i - 1) + Len(phrase) <= Len(Tail(s))
          BY <1>1, <1>2, <2>2
    <3>2. \A j \in 1..Len(phrase) : Tail(s)[(i - 1) + j] = phrase[j]
      <4> SUFFICES ASSUME NEW j \in 1..Len(phrase) PROVE Tail(s)[(i - 1) + j] = phrase[j]
          OBVIOUS
      <4>1. (i - 1) + j \in 1..(Len(s) - 1) /\ ((i - 1) + j) + 1 = i + j
            BY <1>1, <1>2, <2>2
      <4> QED BY <1>1, <1>2, <4>1 DEF Match
    <3> QED BY <3>1, <3>2 DEF Occurs, Match
  <2> QED BY <2>1, <2>2
<1>3. ASSUME NEW i \in Nat, i + Len(phrase) <= Len(Tail(s)), Match(Tail(s), i, phrase)
      PROVE  Occurs(s, phrase)
  <2>1. \A j \in 1..Len(phrase) : s[(i + 1) + j] = phrase[j]
    <3> SUFFICES ASSUME NEW j \in 1..Len(phrase) PROVE s[(i + 1) + j] = phrase[j]
        OBVIOUS
    <3>1. i + j \in 1..(Len(s) - 1) /\ (i + j) + 1 = (i + 1) + j
          BY <1>1, <1>3
    <3> QED BY <1>1, <1>3, <3>1 DEF Match
  <2>2. i + 1 \in Nat /\ (i + 1) + Len(phrase) <= Len(s)
        BY <1>1, <1>3
  <2> QED BY <2>1, <2>2 DEF Occurs, Match
<1>4. ASSUME NEW i \in Nat, i + Len(phrase) <= Len(Front(s)), Match(Front(s), i, phrase)
      PROVE  Occurs(s, phrase)
  <2>1. \A j \in 1..Len(phrase) : s[i + j] = phrase[j]
    <3> SUFFICES ASSUME NEW j \in 1..Len(phrase) PROVE s[i + j] = phrase[j]
        OBVIOUS
    <3>1. i + j \in 1..(Len(s) - 1)
          BY <1>1, <1>4
    <3> QED BY <1>1, <1>4, <3>1 DEF Match
  <2>2. i + Len(phrase) <= Len(s)
        BY <1>1, <1>4
  <2> QED BY <2>1, <2>2 DEF Occurs, Match
<1> QED BY <1>2, <1>3, <1>4 DEF Occurs

LEMMA OccursInShort ==
    ASSUME NEW s \in Seq(Letters), NEW phrase \in Seq(Letters), Len(s) <= Len(phrase)
    PROVE  Occurs(s, phrase) <=> s = phrase
<1>1. Len(s) \in Nat /\ Len(phrase) \in Nat
      BY LenProperties
<1>2. ASSUME NEW i \in Nat, i + Len(phrase) <= Len(s), Match(s, i, phrase)
      PROVE  s = phrase
  <2>1. i = 0 /\ Len(s) = Len(phrase)
        BY <1>1, <1>2
  <2>2. \A j \in 1..Len(s) : s[j] = phrase[j]
        BY <1>1, <1>2, <2>1 DEF Match
  <2> QED BY <2>1, <2>2, SeqEqual
<1>3. ASSUME s = phrase PROVE Occurs(s, phrase)
  <2>1. 0 \in Nat /\ 0 + Len(phrase) <= Len(s)
        BY <1>1, <1>3
  <2>2. \A j \in 1..Len(phrase) : s[0 + j] = phrase[j]
        BY <1>1, <1>3
  <2>3. Match(s, 0, phrase)
        BY <2>2 DEF Match
  <2> QED BY <2>1, <2>3 DEF Occurs
<1> QED BY <1>2, <1>3 DEF Occurs

\* The function contains, one call of it.
Answers == [found : BOOLEAN, calls : Nat]

Cutting(t, s, phrase) ==
    IF s = phrase THEN [found |-> TRUE, calls |-> 1]
    ELSE IF Len(s) <= Len(phrase) THEN [found |-> FALSE, calls |-> 1]
    ELSE LET cut == t[Tail(s)] IN
         IF cut.found THEN [cut EXCEPT !.calls = @ + 1]
         ELSE [t[Front(s)] EXCEPT !.calls = @ + cut.calls + 1]

Cuts(t, n, phrase) ==
    t \in [Texts(n) -> Answers] /\ \A s \in Texts(n) : t[s] = Cutting(t, s, phrase)

LEMMA CutsExist ==
    ASSUME NEW n \in Nat, NEW phrase \in Seq(Letters)
    PROVE  \E t : Cuts(t, n, phrase)
<1> DEFINE Good == {k \in 0..n : \E t : Cuts(t, k, phrase)}
<1>0. Len(phrase) \in Nat
      BY LenProperties
<1>1. 0 \in Good
  <2> DEFINE t == [s \in Texts(0) |-> IF s = phrase THEN [found |-> TRUE, calls |-> 1]
                                     ELSE [found |-> FALSE, calls |-> 1]]
  <2>1. t \in [Texts(0) -> Answers]
        BY DEF Answers
  <2>2. \A s \in Texts(0) : t[s] = Cutting(t, s, phrase)
    <3> SUFFICES ASSUME NEW s \in Texts(0) PROVE t[s] = Cutting(t, s, phrase)
        OBVIOUS
    <3>1. Len(s) <= Len(phrase)
          BY <1>0, TextFacts, LenProperties
    <3> QED BY <3>1 DEF Cutting
  <2>3. \E u : Cuts(u, 0, phrase)
    <3> HIDE DEF t
    <3> QED BY <2>1, <2>2 DEF Cuts
  <2> QED BY <2>3
<1>2. ASSUME NEW k \in 0..n, k < n, k \in Good PROVE k + 1 \in Good
  <2>1. PICK t : Cuts(t, k, phrase)
        BY <1>2
  <2> DEFINE u == [s \in Texts(k + 1) |-> IF s \in Texts(k) THEN t[s] ELSE Cutting(t, s, phrase)]
  <2>2. k \in Nat /\ k + 1 \in Nat
        BY <1>2
  <2>3. ASSUME NEW s \in Texts(k + 1), Len(s) > Len(phrase)
        PROVE  Tail(s) \in Texts(k) /\ Front(s) \in Texts(k)
    <3>1. s \in Seq(Letters) /\ Len(s) \in Nat /\ Len(s) <= k + 1 /\ Len(s) > 0
          BY <1>0, <2>2, <2>3, TextFacts, LenProperties
    <3>2. /\ Tail(s) \in Seq(Letters) /\ Len(Tail(s)) = Len(s) - 1
          /\ Front(s) \in Seq(Letters) /\ Len(Front(s)) = Len(s) - 1
          BY <3>1, CutFacts
    <3>3. Len(s) - 1 <= k
          BY <2>2, <3>1
    <3>4. \A c \in Seq(Letters) : Len(c) <= k => c \in Texts(k)
          BY <2>2, TextFacts
    <3> QED BY <3>2, <3>3, <3>4
  <2>4. Texts(k) \subseteq Texts(k + 1)
    <3> SUFFICES ASSUME NEW s \in Texts(k) PROVE s \in Texts(k + 1)
        OBVIOUS
    <3>1. s \in Seq(Letters) /\ Len(s) \in Nat /\ Len(s) <= k
          BY <2>2, TextFacts, LenProperties
    <3> QED BY <2>2, <3>1, TextFacts
  <2>5. \A s \in Texts(k) : u[s] = t[s]
        BY <2>4
  <2>6. \A s \in Texts(k + 1) : u[s] = Cutting(t, s, phrase)
        BY <2>1, <2>5 DEF Cuts
  <2> HIDE DEF u
  <2>7. ASSUME NEW s \in Texts(k + 1)
        PROVE  Cutting(t, s, phrase) = Cutting(u, s, phrase) /\ Cutting(t, s, phrase) \in Answers
    <3>1. Len(s) \in Nat
          BY <2>2, TextFacts, LenProperties
    <3>2. CASE s = phrase \/ Len(s) <= Len(phrase)
          BY <3>2 DEF Cutting, Answers
    <3>3. CASE s # phrase /\ Len(s) > Len(phrase)
      <4>1. /\ u[Tail(s)] = t[Tail(s)] /\ t[Tail(s)] \in Answers
            /\ u[Front(s)] = t[Front(s)] /\ t[Front(s)] \in Answers
            BY <2>1, <2>3, <2>5, <3>3 DEF Cuts
      <4>2. ~(Len(s) <= Len(phrase))
            BY <1>0, <3>1, <3>3
      <4>3. Cutting(u, s, phrase) = Cutting(t, s, phrase)
            BY <3>3, <4>1, <4>2 DEF Cutting
      <4>4. Cutting(t, s, phrase) \in Answers
        <5> DEFINE Sum(p, q) == IF p.found THEN [p EXCEPT !.calls = @ + 1]
                                ELSE [q EXCEPT !.calls = @ + p.calls + 1]
        <5>1. \A p, q \in Answers : Sum(p, q) \in Answers
              BY DEF Answers
        <5>2. Cutting(t, s, phrase) = Sum(t[Tail(s)], t[Front(s)])
              BY <3>3, <4>2 DEF Cutting
        <5> HIDE DEF Sum
        <5> QED BY <4>1, <5>1, <5>2
      <4> QED BY <4>3, <4>4
    <3> QED BY <1>0, <3>1, <3>2, <3>3
  <2>8. u \in [Texts(k + 1) -> Answers]
    <3>1. \A s \in Texts(k + 1) : u[s] \in Answers
          BY <2>6, <2>7
    <3> QED BY <3>1 DEF u
  <2>9. Cuts(u, k + 1, phrase)
        BY <2>6, <2>7, <2>8 DEF Cuts
  <2> QED BY <1>2, <2>9
<1>3. 0..n \subseteq Good
  <2> HIDE DEF Good
  <2> QED BY <1>1, <1>2, Induction
<1> QED BY <1>3

LEMMA ContainsCuts ==
    ASSUME NEW phrase \in Seq(Letters)
    PROVE  \E t : /\ \A s \in Texts(MaxText) : t[s] = Cutting(t, s, phrase)
                 /\ \A s \in Texts(MaxText) : contains(s, phrase) = t[s]
<1> DEFINE Loop(g) == g = [s \in Texts(MaxText) |->
                           IF s = phrase THEN [found |-> TRUE, calls |-> 1]
                           ELSE IF Len(s) <= Len(phrase) THEN [found |-> FALSE, calls |-> 1]
                           ELSE LET cut == g[Tail(s)] IN
                                IF cut.found THEN [cut EXCEPT !.calls = @ + 1]
                                ELSE [g[Front(s)] EXCEPT !.calls = @ + cut.calls + 1]]
           try == CHOOSE g : Loop(g)
<1>1. MaxText \in Nat
      BY BoundsAssumption
<1>2. \A g : Loop(g) <=> g = [s \in Texts(MaxText) |-> Cutting(g, s, phrase)]
      BY DEF Cutting
<1>3. Loop(try)
  <2>1. PICK t : Cuts(t, MaxText, phrase)
        BY <1>1, CutsExist
  <2>2. t = [s \in Texts(MaxText) |-> t[s]] /\ \A s \in Texts(MaxText) : t[s] = Cutting(t, s, phrase)
        BY <2>1 DEF Cuts
  <2>3. t = [s \in Texts(MaxText) |-> Cutting(t, s, phrase)]
        BY <2>2
  <2> HIDE DEF Loop
  <2> QED BY <1>2, <2>3
<1>4. ASSUME NEW s \in Texts(MaxText) PROVE contains(s, phrase) = try[s]
      BY DEF contains
<1> HIDE DEF try
<1>5. try = [s \in Texts(MaxText) |-> Cutting(try, s, phrase)]
  <2> HIDE DEF Loop
  <2> QED BY <1>2, <1>3
<1>6. \A s \in Texts(MaxText) : try[s] = Cutting(try, s, phrase)
      BY <1>5
<1> QED BY <1>4, <1>6

\* Its definition, unfolded.
LEMMA PowerSteps ==
    /\ TwoTo[0] = 1
    /\ \A k \in 1..(MaxText + 1) : TwoTo[k] = 2 * TwoTo[k - 1]
    /\ \A k \in 0..(MaxText + 1) : TwoTo[k] \in Nat
<1> DEFINE n == MaxText + 1
           step == [p \in Nat \X (1..n) |-> 2 * p[1]]
           Loop(g) == g = [k \in 0..(MaxText + 1) |-> IF k = 0 THEN 1 ELSE 2 * g[k - 1]]
<1>1. n \in Nat /\ step \in [Nat \X (1..n) -> Nat]
  <2>1. MaxText \in Nat
        BY BoundsAssumption
  <2> QED BY <2>1
<1>2. PICK g \in [0..n -> Nat] : Carries(g, n, 1, step)
      BY <1>1, CarryExists
<1>3. \A i \in 0..n : g[i] = IF i = 0 THEN 1 ELSE 2 * g[i - 1]
  <2>1. \A i \in 0..n : g[i] = IF i = 0 THEN 1 ELSE step[<<g[i - 1], i>>]
    <3> HIDE DEF step, n
    <3> QED BY <1>2 DEF Carries
  <2>2. \A i \in 1..n : step[<<g[i - 1], i>>] = 2 * g[i - 1]
    <3> SUFFICES ASSUME NEW i \in 1..n PROVE step[<<g[i - 1], i>>] = 2 * g[i - 1]
        OBVIOUS
    <3>1. i - 1 \in 0..n
          BY <1>1
    <3>2. g[i - 1] \in Nat
          BY <3>1
    <3> QED BY <3>2
  <2> HIDE DEF step, n
  <2>3. \A i \in 0..n : i = 0 \/ i \in 1..n
        BY <1>1
  <2> QED BY <2>1, <2>2, <2>3
<1>4. Loop(g)
  <2>1. g = [i \in 0..n |-> g[i]]
        OBVIOUS
  <2> QED BY <1>3, <2>1
<1>5. Loop(TwoTo)
  <2>1. TwoTo = CHOOSE f : Loop(f)
        BY DEF TwoTo
  <2> HIDE DEF Loop
  <2> QED BY <1>4, <2>1
<1>6. \A k \in 0..n : TwoTo[k] = IF k = 0 THEN 1 ELSE 2 * TwoTo[k - 1]
      BY <1>5
<1>7. 0 \in 0..n /\ \A k \in 1..n : k \in 0..n /\ k # 0
      BY <1>1
<1>8. TwoTo[0] = 1 /\ \A k \in 1..n : TwoTo[k] = 2 * TwoTo[k - 1]
      BY <1>6, <1>7
<1>9. \A k \in 0..n : TwoTo[k] \in Nat
  <2> DEFINE Good == {k \in 0..n : TwoTo[k] \in Nat}
  <2>1. 0 \in Good
        BY <1>7, <1>8
  <2>2. ASSUME NEW k \in 0..n, k < n, k \in Good PROVE k + 1 \in Good
    <3>1. k + 1 \in 1..n /\ k + 1 \in 0..n /\ (k + 1) - 1 = k
          BY <1>1, <2>2
    <3>2. TwoTo[k + 1] = 2 * TwoTo[k]
          BY <1>8, <3>1
    <3> QED BY <2>2, <3>1, <3>2
  <2>3. 0..n \subseteq Good
    <3> HIDE DEF Good, n
    <3> QED BY <1>1, <2>1, <2>2, Induction
  <2> QED BY <2>3
<1> QED BY <1>8, <1>9

LEMMA ContainsFinds ==
    ASSUME NEW text \in Texts(MaxText), NEW phrase \in Texts(MaxText)
    PROVE  /\ contains(text, phrase).found \in BOOLEAN
           /\ contains(text, phrase).found <=> Occurs(text, phrase)
           /\ ~contains(text, phrase).found /\ Len(text) >= Len(phrase) =>
                 contains(text, phrase).calls = TwoTo[Len(text) - Len(phrase) + 1] - 1
<1>1. MaxText \in Nat /\ phrase \in Seq(Letters)
      BY BoundsAssumption, TextFacts
<1>2. PICK t : /\ \A s \in Texts(MaxText) : t[s] = Cutting(t, s, phrase)
               /\ \A s \in Texts(MaxText) : contains(s, phrase) = t[s]
      BY <1>1, ContainsCuts
<1> DEFINE Counts(s) == ~t[s].found /\ Len(s) >= Len(phrase) =>
                          t[s].calls = TwoTo[Len(s) - Len(phrase) + 1] - 1
           Right(s) == /\ t[s] \in Answers /\ (t[s].found <=> Occurs(s, phrase))
                       /\ Counts(s)
           Good == {k \in 0..MaxText : \A s \in Texts(MaxText) :
                                      Len(s) <= k => Right(s)}
<1>3. ASSUME NEW s \in Texts(MaxText)
      PROVE  s \in Seq(Letters) /\ Len(s) \in Nat /\ Len(s) <= MaxText
      BY <1>1, TextFacts, LenProperties
<1>4. ASSUME NEW s \in Texts(MaxText), Len(s) <= Len(phrase)
      PROVE  Right(s)
  <2>1. Occurs(s, phrase) <=> s = phrase
        BY <1>1, <1>3, <1>4, OccursInShort
  <2>2. CASE s = phrase
    <3>1. t[s] = [found |-> TRUE, calls |-> 1]
          BY <1>2, <2>2 DEF Cutting
    <3> QED BY <2>1, <2>2, <3>1 DEF Answers
  <2>3. CASE s # phrase
    <3>1. t[s] = [found |-> FALSE, calls |-> 1]
          BY <1>2, <1>4, <2>3 DEF Cutting
    <3>2. Len(s) >= Len(phrase) => Len(s) - Len(phrase) + 1 = 1
          BY <1>1, <1>3, <1>4, LenProperties
    <3>3. TwoTo[1] = 2
      <4>1. 1 \in 1..(MaxText + 1) /\ 1 - 1 = 0
            BY <1>1
      <4> QED BY <4>1, PowerSteps
    <3>4. Counts(s)
          BY <3>1, <3>2, <3>3
    <3> HIDE DEF Counts
    <3> QED BY <2>1, <2>3, <3>1, <3>4 DEF Answers
  <2> QED BY <2>2, <2>3
<1>5. 0 \in Good
  <2>1. ASSUME NEW s \in Texts(MaxText), Len(s) <= 0 PROVE Right(s)
    <3>1. Len(s) <= Len(phrase)
          BY <1>1, <1>3, <2>1, LenProperties
    <3> QED BY <1>4, <3>1
  <2> HIDE DEF Right
  <2> QED BY <1>1, <2>1
<1>6. ASSUME NEW k \in 0..MaxText, k < MaxText, k \in Good PROVE k + 1 \in Good
  <2>1. ASSUME NEW s \in Texts(MaxText), Len(s) <= k + 1, Len(s) > Len(phrase)
        PROVE  Right(s)
    <3>1. s \in Seq(Letters) /\ Len(s) \in Nat /\ Len(s) <= MaxText /\ Len(phrase) \in Nat
          BY <1>1, <1>3, LenProperties
    <3>2. /\ Tail(s) \in Seq(Letters) /\ Len(Tail(s)) = Len(s) - 1
          /\ Front(s) \in Seq(Letters) /\ Len(Front(s)) = Len(s) - 1
          BY <2>1, <3>1, CutFacts
    <3>3. Len(s) - 1 <= k /\ Len(s) - 1 <= MaxText
          BY <1>1, <1>6, <2>1, <3>1
    <3>4. \A c \in Seq(Letters) : Len(c) <= MaxText => c \in Texts(MaxText)
          BY <1>1, TextFacts
    <3>5. Tail(s) \in Texts(MaxText) /\ Front(s) \in Texts(MaxText)
          BY <3>2, <3>3, <3>4
    <3>6. Right(Tail(s)) /\ Right(Front(s))
          BY <1>6, <3>2, <3>3, <3>5
    <3>7. s # phrase /\ ~(Len(s) <= Len(phrase))
          BY <2>1, <3>1
    <3>8. t[s] = Cutting(t, s, phrase)
          BY <1>2
    <3>9. /\ t[s] \in Answers /\ (t[s].found <=> t[Tail(s)].found \/ t[Front(s)].found)
          /\ ~t[s].found => /\ ~t[Tail(s)].found /\ ~t[Front(s)].found
                            /\ t[s].calls = t[Front(s)].calls + t[Tail(s)].calls + 1
      <4> DEFINE p == t[Tail(s)]
                 q == t[Front(s)]
      <4>1. p \in Answers /\ q \in Answers
            BY <3>6
      <4>2. t[s] = IF p.found THEN [p EXCEPT !.calls = @ + 1]
                   ELSE [q EXCEPT !.calls = @ + p.calls + 1]
            BY <3>7, <3>8 DEF Cutting
      <4> HIDE DEF p, q, Counts
      <4>3. t[s] \in Answers /\ (t[s].found <=> p.found \/ q.found)
            BY <4>1, <4>2 DEF Answers
      <4>4. ~t[s].found => ~p.found /\ ~q.found /\ t[s].calls = q.calls + p.calls + 1
            BY <4>1, <4>2 DEF Answers
      <4> QED BY <4>3, <4>4 DEF p, q
    <3>10. Occurs(s, phrase) <=> Occurs(Tail(s), phrase) \/ Occurs(Front(s), phrase)
           BY <1>1, <2>1, <3>1, OccursInCut
    <3>11. Counts(s)
      <4> SUFFICES ASSUME ~t[s].found
                   PROVE  t[s].calls = TwoTo[Len(s) - Len(phrase) + 1] - 1
          OBVIOUS
      <4> DEFINE d == Len(s) - Len(phrase)
      <4>1. /\ d \in Nat /\ d >= 1 /\ d + 1 \in 1..(MaxText + 1) /\ d \in 0..(MaxText + 1)
            /\ (Len(s) - 1) - Len(phrase) + 1 = d /\ Len(s) - 1 >= Len(phrase)
            /\ (d + 1) - 1 = d
            BY <1>1, <2>1, <3>1
      <4>2. t[Tail(s)].calls = TwoTo[d] - 1 /\ t[Front(s)].calls = TwoTo[d] - 1
        <5>1. Counts(Tail(s)) /\ Counts(Front(s))
              BY <3>6
        <5> HIDE DEF d
        <5> QED BY <3>2, <3>9, <4>1, <5>1
      <4>3. TwoTo[d + 1] = 2 * TwoTo[d] /\ TwoTo[d] \in Nat
        <5> HIDE DEF d
        <5> QED BY <4>1, PowerSteps
      <4>4. t[s].calls = TwoTo[d + 1] - 1
        <5> HIDE DEF d
        <5> QED BY <3>9, <4>2, <4>3
      <4> QED BY <4>4
    <3> HIDE DEF Counts
    <3> QED BY <3>6, <3>9, <3>10, <3>11
  <2>2. ASSUME NEW s \in Texts(MaxText), Len(s) <= k + 1
        PROVE  Right(s)
    <3>1. Len(s) <= Len(phrase) \/ Len(s) > Len(phrase)
          BY <1>1, <1>3, LenProperties
    <3> HIDE DEF Right
    <3> QED BY <1>4, <2>1, <2>2, <3>1
  <2>3. k + 1 \in 0..MaxText
        BY <1>1, <1>6
  <2> HIDE DEF Right
  <2> QED BY <2>2, <2>3
<1>7. MaxText \in Good
  <2>1. 0..MaxText \subseteq Good
    <3> HIDE DEF Good
    <3> QED BY <1>1, <1>5, <1>6, Induction
  <2> QED BY <1>1, <2>1
<1>8. /\ t[text].found \in BOOLEAN /\ (t[text].found <=> Occurs(text, phrase))
      /\ Counts(text)
      BY <1>3, <1>7 DEF Answers
<1> QED BY <1>2, <1>8

\* contains finds a phrase exactly where it is a substring, in texts of any
\* length; and where it finds none it has called itself for both cuts of
\* every cut, twice as often for each letter the text is longer by.
THEOREM ContainsSearches == Spec => []ContainsIsSubstring
<1>1. ASSUME Computed, Returned("contains")
      PROVE  ContainsIsSubstring
  <2> DEFINE a == call.a
             b == call.b
  <2>1. a \in Texts(MaxText) /\ b \in Texts(MaxText)
        BY <1>1 DEF Computed, Returned, Calls
  <2>2. /\ Result.found \in BOOLEAN /\ (Result.found <=> Occurs(a, b))
        /\ ~Result.found /\ Len(a) >= Len(b) => Result.calls = TwoTo[Len(a) - Len(b) + 1] - 1
        BY <1>1, <2>1, ContainsFinds DEF Computed
  <2>3. a \in Seq(Letters) /\ b \in Seq(Letters) /\ Len(a) \in Nat /\ Len(b) \in Nat
        BY <2>1, BoundsAssumption, TextFacts, LenProperties
  <2> HIDE DEF a, b
  <2>4. ASSUME NEW i \in Nat, i + Len(b) <= Len(a)
        PROVE  SubSeq(a, i + 1, i + Len(b)) = b <=> Match(a, i, b)
    <3> DEFINE c == SubSeq(a, i + 1, i + Len(b))
    <3>1. \A j \in (i + 1)..(i + Len(b)) : a[j] \in Letters
          BY <2>3, <2>4, ElementOfSeq
    <3>2. /\ c \in Seq(Letters)
          /\ Len(c) = IF i + 1 <= i + Len(b) THEN (i + Len(b)) - (i + 1) + 1 ELSE 0
          /\ \A j \in 1..((i + Len(b)) - (i + 1) + 1) : c[j] = a[(i + 1) + j - 1]
          BY <2>3, <3>1, SubSeqProperties
    <3> HIDE DEF c
    <3>3. Len(c) = Len(b) /\ \A j \in 1..Len(b) : c[j] = a[i + j]
      <4>1. (i + Len(b)) - (i + 1) + 1 = Len(b) /\ \A j \in Nat : (i + 1) + j - 1 = i + j
            BY <2>3
      <4> QED BY <2>3, <3>2, <4>1
    <3>4. c = b <=> \A j \in 1..Len(b) : c[j] = b[j]
          BY <2>3, <3>2, <3>3, SeqEqual
    <3>5. c = b <=> Match(a, i, b)
          BY <3>3, <3>4 DEF Match
    <3> QED BY <3>5 DEF c
  <2>5. \A i : i \in 0..(Len(a) - Len(b)) <=> i \in Nat /\ i + Len(b) <= Len(a)
        BY <2>3
  <2>6. Occurs(a, b) <=> \E i \in 0..(Len(a) - Len(b)) : SubSeq(a, i + 1, i + Len(b)) = b
        BY <2>4, <2>5 DEF Occurs
  <2>7. Len(a) - Len(b) >= 0 <=> Len(a) >= Len(b)
        BY <2>3
  <2>8. Result.found = \E i \in 0..(Len(a) - Len(b)) : SubSeq(a, i + 1, i + Len(b)) = b
        BY <2>2, <2>6
  <2>9. ~Result.found /\ Len(a) - Len(b) >= 0 =>
           Result.calls = TwoTo[Len(a) - Len(b) + 1] - 1
        BY <2>2, <2>7
  <2> QED BY <2>8, <2>9 DEF ContainsIsSubstring, a, b
<1>2. Computed => ContainsIsSubstring
      BY <1>1 DEF ContainsIsSubstring
<1> QED BY <1>2, Results, PTL
=============================================================================
