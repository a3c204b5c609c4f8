--------------------------- MODULE HttpRetry_proofs ---------------------------
(***************************************************************************)
(* Proofs about HttpRetry, for every limit of retries and every set of     *)
(* statuses.                                                               *)
(***************************************************************************)
EXTENDS HttpRetry, NatRecursion

USE RetryAssumption

\* What the call knows when it gives up: the verdict in the result is that of the
\* last attempt, and it is final unless the retries are used up.
Verdict ==
    Over => /\ result.retryCount = i
            /\ result.success => <<i, result.status>> \in served /\ Succeeds(result.status)
            /\ ~result.success =>
                 \/ i = retryCount
                 \/ result.errorType = "dns"
                 \/ result.status \in Statuses /\ FinalStatus(result.status)

\* A copy is on its way or answered once, never both.
OneAnswerEach ==
    /\ \A p, q \in served : p[1] = q[1] => p = q
    /\ \A p \in served : p[1] \notin travelling

\* A pause has an attempt after it.
PausesOnlyBefore == phase = "backoff" => i < retryCount

\* The inductive invariant.
RetryInv == RetryTypeOK /\ Verdict /\ OneAnswerEach /\ PausesOnlyBefore

\* Classification stays within the error types.
LEMMA TypesOfErrors ==
    /\ \A code \in ErrorCodes : ClassifyError(code) \in ErrorTypes
    /\ \A code \in ErrorCodes : ~IsRetryable(code) => ClassifyError(code) = "dns"
    /\ \A s \in Statuses : TypeOfStatus(s) \in ErrorTypes
<1>1. \A code \in ErrorCodes : ClassifyError(code) \in ErrorTypes
  BY DEF ErrorCodes, ErrorTypes, ClassifyError
<1>2. \A code \in ErrorCodes : ~IsRetryable(code) => ClassifyError(code) = "dns"
  BY DEF ErrorCodes, IsRetryable, ClassifyError
<1>3. \A s \in Statuses : TypeOfStatus(s) \in ErrorTypes
  BY DEF ErrorTypes, TypeOfStatus
<1> QED  BY <1>1, <1>2, <1>3

\* The test for a final status as a range.
LEMMA RangeOfFinal ==
    \A s \in Statuses : FinalStatus(s) => s \in (400 .. 499) \ {408, 429}
<1> SUFFICES ASSUME NEW s \in Statuses, FinalStatus(s)
             PROVE  s \in (400 .. 499) \ {408, 429}
  OBVIOUS
<1>1. s \in 100 .. 599
  BY DEF RetryAssumption
<1> QED  BY <1>1 DEF FinalStatus

\* The call starts with one request on its way and no result.
LEMMA RetryStarts == Init => RetryInv
BY DEF Init, RetryInv, RetryTypeOK, Verdict, OneAnswerEach, PausesOnlyBefore, Over, ErrorTypes

\* The end of an attempt whose failure is worth retrying.
LEMMA RetryKeeps ==
    ASSUME RetryInv, phase = "posting", NEW took \in 0 .. Timeout, Retry(took),
           failure' \in [type : ErrorTypes, status : Statuses \cup {NoStatus}],
           travelling' \subseteq travelling, UNCHANGED served
    PROVE  RetryInv'
<1>0. RetryTypeOK /\ Verdict /\ OneAnswerEach /\ ~Over
  BY DEF RetryInv, RetryTypeOK, Over
<1>1. CASE i < retryCount
  <2>1. phase' = "backoff" /\ UNCHANGED <<retryCount, i, result>>
    BY <1>1 DEF Retry
  <2>2. RetryTypeOK'
    BY <1>0, <2>1 DEF RetryTypeOK, Over
  <2>3. Verdict'
    BY <1>0, <2>1 DEF Verdict, Over
  <2>4. OneAnswerEach'
    BY <1>0 DEF OneAnswerEach
  <2> QED  BY <1>1, <2>1, <2>2, <2>3, <2>4 DEF RetryInv, PausesOnlyBefore
<1>2. CASE ~(i < retryCount)
  <2> DEFINE r == Result(FALSE, NoStatus, failure'.type)
  <2>1. phase' = "over" /\ result' = r /\ UNCHANGED <<retryCount, i>>
    BY <1>2 DEF Retry, Return
  <2>2. r \in Results /\ r # NoResult
    <3>1. i \in Nat /\ failure'.type \in ErrorTypes \cup {NoType}
      BY <1>0 DEF RetryTypeOK
    <3>2. r \in Results
      BY <3>1 DEF Result, Results
    <3> QED  BY <3>2
  <2>3. i = retryCount
    BY <1>0, <1>2 DEF RetryTypeOK
  <2>4. RetryTypeOK'
    BY <1>0, <2>1, <2>2 DEF RetryTypeOK, Over
  <2>5. r.retryCount = i /\ r.success = FALSE
    BY DEF Result
  <2>6. Verdict'
    BY <2>1, <2>3, <2>5 DEF Verdict
  <2>7. OneAnswerEach'
    BY <1>0 DEF OneAnswerEach
  <2> QED  BY <2>1, <2>4, <2>6, <2>7 DEF RetryInv, PausesOnlyBefore
<1> QED  BY <1>1, <1>2

\* The end of a call by a verdict of the attempt just made.
LEMMA ReturnKeeps ==
    ASSUME RetryInv, phase = "posting",
           NEW ok \in BOOLEAN, NEW s \in Statuses \cup {NoStatus},
           NEW t \in ErrorTypes \cup {NoType}, Return(Result(ok, s, t)),
           ok => <<i, s>> \in served /\ Succeeds(s),
           ~ok => t = "dns" \/ (s \in Statuses /\ FinalStatus(s)),
           failure' \in [type : ErrorTypes, status : Statuses \cup {NoStatus}],
           travelling' \subseteq travelling, UNCHANGED served
    PROVE  RetryInv'
<1> DEFINE r == Result(ok, s, t)
<1>0. RetryTypeOK /\ OneAnswerEach
  BY DEF RetryInv
<1>1. phase' = "over" /\ result' = r /\ UNCHANGED <<retryCount, i>>
  BY DEF Return
<1>2. r \in Results /\ r # NoResult
  <2>1. i \in Nat
    BY <1>0 DEF RetryTypeOK
  <2>2. r \in Results
    BY <2>1 DEF Result, Results
  <2> QED  BY <2>2
<1>3. RetryTypeOK'
  BY <1>0, <1>1, <1>2 DEF RetryTypeOK, Over
<1>4. r.retryCount = i /\ r.success = ok /\ r.status = s /\ r.errorType = t
  BY DEF Result
<1>5. Verdict'
  BY <1>1, <1>4 DEF Verdict
<1>6. OneAnswerEach'
  BY <1>0 DEF OneAnswerEach
<1> QED  BY <1>1, <1>3, <1>5, <1>6 DEF RetryInv, PausesOnlyBefore

\* Every step keeps the invariant.
LEMMA RetryStep == RetryInv /\ [Next]_vars => RetryInv'
<1> SUFFICES ASSUME RetryInv, [Next]_vars  PROVE RetryInv'
  OBVIOUS
<1>0. RetryTypeOK /\ Verdict /\ OneAnswerEach /\ PausesOnlyBefore
  BY DEF RetryInv
<1>1. ASSUME NEW k \in 0 .. MaxRetries + 1, NEW s \in Statuses, Serve(k, s)
      PROVE  RetryInv'
  <2>1. RetryTypeOK'
    BY <1>0, <1>1 DEF Serve, RetryTypeOK, Over
  <2>2. Verdict'
    BY <1>0, <1>1 DEF Serve, Verdict, Over
  <2>3. OneAnswerEach'
    BY <1>0, <1>1 DEF Serve, OneAnswerEach
  <2>4. PausesOnlyBefore'
    BY <1>0, <1>1 DEF Serve, PausesOnlyBefore
  <2> QED  BY <2>1, <2>2, <2>3, <2>4 DEF RetryInv
<1>2. ASSUME NEW took \in 0 .. Timeout, NEW s \in Statuses, AnswerArrives(s, took)
      PROVE  RetryInv'
  <2>0. phase = "posting" /\ <<i, s>> \in served /\ UNCHANGED <<travelling, served>>
    BY <1>2 DEF AnswerArrives, Answered
  <2>1. CASE Succeeds(s)
    <3>1. Return(Result(TRUE, s, NoType)) /\ UNCHANGED failure
      BY <1>2, <2>1 DEF AnswerArrives
    <3>2. failure' \in [type : ErrorTypes, status : Statuses \cup {NoStatus}]
      BY <1>0, <3>1 DEF RetryTypeOK
    <3> QED  BY <2>0, <2>1, <3>1, <3>2, ReturnKeeps
  <2>2. CASE ~Succeeds(s)
    <3>1. failure' \in [type : ErrorTypes, status : Statuses \cup {NoStatus}]
      BY <1>2, <2>2, TypesOfErrors DEF AnswerArrives
    <3>2. CASE FinalStatus(s)
      <4>1. Return(Result(FALSE, s, TypeOfStatus(s)))
        BY <1>2, <2>2, <3>2 DEF AnswerArrives
      <4> QED  BY <2>0, <3>1, <3>2, <4>1, TypesOfErrors, ReturnKeeps
    <3>3. CASE ~FinalStatus(s)
      <4>1. Retry(took)
        BY <1>2, <2>2, <3>3 DEF AnswerArrives
      <4> QED  BY <2>0, <3>1, <4>1, RetryKeeps
    <3> QED  BY <3>2, <3>3
  <2> QED  BY <2>1, <2>2
<1>3. ASSUME NEW took \in 0 .. Timeout, NEW code \in ErrorCodes, AttemptFails(code, took)
      PROVE  RetryInv'
  <2>0. phase = "posting" /\ travelling' \subseteq travelling /\ UNCHANGED served
    BY <1>3 DEF AttemptFails
  <2>1. failure' \in [type : ErrorTypes, status : Statuses \cup {NoStatus}]
    BY <1>3, TypesOfErrors DEF AttemptFails
  <2>2. CASE IsRetryable(code)
    <3>1. Retry(took)
      BY <1>3, <2>2 DEF AttemptFails
    <3> QED  BY <2>0, <2>1, <3>1, RetryKeeps
  <2>3. CASE ~IsRetryable(code)
    <3>1. Return(Result(FALSE, NoStatus, ClassifyError(code)))
      BY <1>3, <2>3 DEF AttemptFails
    <3> QED  BY <2>0, <2>1, <2>3, <3>1, TypesOfErrors, ReturnKeeps
  <2> QED  BY <2>2, <2>3
<1>4. ASSUME NextAttempt  PROVE RetryInv'
  <2>1. i < retryCount
    BY <1>0, <1>4 DEF NextAttempt, PausesOnlyBefore
  <2> QED  BY <1>0, <1>4, <2>1 DEF NextAttempt, RetryInv, RetryTypeOK, Verdict, OneAnswerEach, PausesOnlyBefore, Over
<1>5. ASSUME UNCHANGED vars  PROVE RetryInv'
  BY <1>0, <1>5 DEF vars, RetryInv, RetryTypeOK, Verdict, OneAnswerEach, PausesOnlyBefore, Over
<1> QED  BY <1>1, <1>2, <1>3, <1>4, <1>5 DEF Next, AttemptEnds

\* The types of the variables of a call (RetryTypeOK).
THEOREM RetryTypeCorrect == Spec => []RetryTypeOK
<1>1. RetryInv => RetryTypeOK
  BY DEF RetryInv
<1> QED  BY <1>1, RetryStarts, RetryStep, PTL DEF Spec

\* Success in a result is backed by a 2xx to the attempt it names.
THEOREM ReportedSuccessIsReal == Spec => []SuccessIsReal
<1>1. RetryInv => SuccessIsReal
  <2> SUFFICES ASSUME RetryInv, Over, result.success
               PROVE  <<result.retryCount, result.status>> \in served
                      /\ result.status \in 200 .. 299
    BY DEF SuccessIsReal
  <2>1. result.retryCount = i /\ <<i, result.status>> \in served /\ Succeeds(result.status)
    BY DEF RetryInv, Verdict
  <2>2. result.status \in Statuses
    BY <2>1 DEF RetryInv, RetryTypeOK
  <2>3. <<result.retryCount, result.status>> = <<i, result.status>>
    BY <2>1
  <2>4. result.status \in 200 .. 299
    <3>1. result.status \in 100 .. 599
      BY <2>2 DEF RetryAssumption
    <3>2. result.status >= 200 /\ result.status < 300
      BY <2>1 DEF Succeeds
    <3> QED  BY <3>1, <3>2
  <2> QED  BY <2>1, <2>3, <2>4
<1> QED  BY <1>1, RetryStarts, RetryStep, PTL DEF Spec

\* A call that returns before its last retry has a final verdict.
THEOREM EarlyEndIsJustified == Spec => []GivesUpForAReason
<1>1. RetryInv => GivesUpForAReason
  <2> SUFFICES ASSUME RetryInv, Over, ~result.success, result.retryCount < retryCount,
                      result.errorType # "dns"
               PROVE  result.status \in (400 .. 499) \ {408, 429}
    BY DEF GivesUpForAReason
  <2>1. result.status \in Statuses /\ FinalStatus(result.status)
    <3>1. result.retryCount = i /\ i # retryCount
      BY DEF RetryInv, RetryTypeOK, Verdict
    <3> QED  BY <3>1 DEF RetryInv, Verdict
  <2> QED  BY <2>1, RangeOfFinal
<1> QED  BY <1>1, RetryStarts, RetryStep, PTL DEF Spec

\* The result accounts for every copy of the message the target can get.
THEOREM EveryCopyIsCounted == Spec => []CopiesAreCounted
<1>1. RetryInv => CopiesAreCounted
  <2> SUFFICES ASSUME RetryInv  PROVE CopiesAreCounted
    OBVIOUS
  <2>1. travelling \subseteq 0 .. i /\ \A p \in served : p[1] \in 0 .. i
    <3>1. travelling \subseteq 0 .. i /\ served \subseteq (0 .. i) \X Statuses
      BY DEF RetryInv, RetryTypeOK
    <3>2. ASSUME NEW p \in served  PROVE p[1] \in 0 .. i
      <4>1. p \in (0 .. i) \X Statuses
        BY <3>1
      <4> QED  BY <4>1
    <3> QED  BY <3>1, <3>2
  <2>2. Over => result.retryCount = i
    BY DEF RetryInv, Verdict
  <2> QED  BY <2>1, <2>2 DEF RetryInv, OneAnswerEach, CopiesAreCounted
<1> QED  BY <1>1, RetryStarts, RetryStep, PTL DEF Spec

(***************************************************************************)
(* The time a call takes.                                                  *)
(***************************************************************************)

\* The equations of PowerOf2.
LEMMA PowerOf2Equations ==
    /\ PowerOf2 \in [Nat -> Nat]
    /\ PowerOf2[0] = 1
    /\ \A n \in Nat : PowerOf2[n + 1] = 2 * PowerOf2[n]
<1> DEFINE a == 1  G == [u \in Nat \X Nat |-> 2 * u[1]]
<1>1. PICK f \in [Nat -> Nat] : Follows(f, a, G)
  <2>1. a \in Nat /\ G \in [Nat \X Nat -> Nat]
    OBVIOUS
  <2> HIDE DEF a, G
  <2> QED  BY <2>1, PrimRec
<1>2. f[0] = 1 /\ \A n \in Nat : f[n + 1] = 2 * f[n]
  BY <1>1 DEF Follows
<1>3. f = [n \in Nat |-> IF n = 0 THEN 1 ELSE 2 * f[n - 1]]
  <2>1. ASSUME NEW n \in Nat  PROVE f[n] = IF n = 0 THEN 1 ELSE 2 * f[n - 1]
    <3>1. CASE n = 0
      BY <1>2, <3>1
    <3>2. CASE n # 0
      <4>1. n - 1 \in Nat /\ (n - 1) + 1 = n
        BY <3>2
      <4> QED  BY <1>2, <3>2, <4>1
    <3> QED  BY <3>1, <3>2
  <2> QED  BY <2>1
<1>4. PowerOf2 = [n \in Nat |-> IF n = 0 THEN 1 ELSE 2 * PowerOf2[n - 1]]
  BY <1>3 DEF PowerOf2
<1>5. PowerOf2[0] = 1
  BY <1>4
<1>6. ASSUME NEW n \in Nat  PROVE PowerOf2[n + 1] = 2 * PowerOf2[n]
  <2>1. n + 1 \in Nat /\ n + 1 # 0 /\ (n + 1) - 1 = n
    OBVIOUS
  <2> QED  BY <1>4, <2>1
<1> DEFINE T == {n \in Nat : PowerOf2[n] \in Nat}
<1>7. 0 \in T /\ \A n \in T : n + 1 \in T
  <2>1. 0 \in T
    BY <1>5
  <2>2. ASSUME NEW n \in T  PROVE n + 1 \in T
    <3>1. n \in Nat /\ PowerOf2[n] \in Nat /\ PowerOf2[n + 1] = 2 * PowerOf2[n]
      BY <1>6
    <3> QED  BY <3>1
  <2> QED  BY <2>1, <2>2
<1>8. T = Nat
  <2> HIDE DEF T
  <2> QED  BY <1>7, NatInd DEF T
<1>9. PowerOf2 \in [Nat -> Nat]
  <2>1. \A n \in Nat : PowerOf2[n] \in Nat
    BY <1>8
  <2> QED  BY <1>4, <2>1
<1> QED  BY <1>5, <1>6, <1>9

\* Time for n attempts, each followed by its pause.
Budget(n) == n * Timeout + RetryDelay * (PowerOf2[n] - 1)

\* Products as the steps of the budget need them.
LEMMA Products ==
    ASSUME NEW a \in Nat, NEW b \in Nat, NEW c \in Nat
    PROVE  /\ a * b \in Nat
           /\ (a + 1) * b = a * b + b
           /\ a * (2 * b - 1) = a * (b - 1) + a * b
           /\ c >= 1 => a * (c - 1) \in Nat
OBVIOUS

\* One attempt and its pause more.
LEMMA BudgetEquations ==
    /\ \A n \in Nat : Delay(n) \in Nat /\ PowerOf2[n] >= 1
    /\ Budget(0) = 0
    /\ \A n \in Nat : /\ Budget(n) \in Nat
                      /\ Budget(n + 1) = Budget(n) + Timeout + Delay(n)
<1> DEFINE T == {n \in Nat : PowerOf2[n] >= 1}
<1>1. 0 \in T /\ \A n \in T : n + 1 \in T
  BY PowerOf2Equations
<1>2. T = Nat
  <2> HIDE DEF T
  <2> QED  BY <1>1, NatInd DEF T
<1>3. Budget(0) = 0
  BY PowerOf2Equations DEF Budget, RetryAssumption
<1>4. ASSUME NEW n \in Nat
      PROVE  /\ Delay(n) \in Nat /\ Budget(n) \in Nat
             /\ Budget(n + 1) = Budget(n) + Timeout + Delay(n)
  <2>1. /\ PowerOf2[n] \in Nat /\ PowerOf2[n] >= 1 /\ n + 1 \in Nat
        /\ PowerOf2[n + 1] = 2 * PowerOf2[n] /\ Timeout \in Nat /\ RetryDelay \in Nat
    <3>1. n \in T
      BY <1>2
    <3>2. PowerOf2[n] \in Nat /\ PowerOf2[n + 1] = 2 * PowerOf2[n]
      BY PowerOf2Equations
    <3> QED  BY <3>1, <3>2 DEF RetryAssumption
  <2> DEFINE b == PowerOf2[n]
  <2>2. /\ n * Timeout \in Nat /\ RetryDelay * b \in Nat /\ RetryDelay * (b - 1) \in Nat
        /\ (n + 1) * Timeout = n * Timeout + Timeout
        /\ RetryDelay * (2 * b - 1) = RetryDelay * (b - 1) + RetryDelay * b
    <3>1. b \in Nat /\ b >= 1 /\ Timeout \in Nat /\ RetryDelay \in Nat
      BY <2>1
    <3> HIDE DEF b
    <3>2. n * Timeout \in Nat /\ (n + 1) * Timeout = n * Timeout + Timeout
      BY <3>1, Products
    <3> QED  BY <3>1, <3>2, Products
  <2> QED  BY <2>1, <2>2 DEF Delay, Budget
<1> QED  BY <1>2, <1>3, <1>4

\* A larger number of attempts has a larger budget.
LEMMA BudgetGrows ==
    ASSUME NEW n \in Nat
    PROVE  \A m \in 0 .. n : Budget(m) <= Budget(n)
<1> DEFINE T == {k \in Nat : \A m \in 0 .. k : Budget(m) <= Budget(k)}
<1>1. 0 \in T
  BY BudgetEquations
<1>2. ASSUME NEW k \in T  PROVE k + 1 \in T
  <2>1. Budget(k) <= Budget(k + 1) /\ Budget(k) \in Nat /\ Budget(k + 1) \in Nat
    BY BudgetEquations DEF RetryAssumption
  <2>2. ASSUME NEW m \in 0 .. k + 1  PROVE Budget(m) <= Budget(k + 1)
    <3>1. CASE m = k + 1
      BY <2>1, <3>1
    <3>2. CASE m # k + 1
      <4>1. m \in 0 .. k /\ Budget(m) \in Nat
        <5>1. m \in 0 .. k /\ m \in Nat
          BY <3>2
        <5> QED  BY <5>1, BudgetEquations
      <4>2. Budget(m) <= Budget(k)
        BY <4>1
      <4> QED  BY <2>1, <4>1, <4>2
    <3> QED  BY <3>1, <3>2
  <2> QED  BY <2>2
<1>3. T = Nat
  <2> HIDE DEF T
  <2> QED  BY <1>1, <1>2, NatInd DEF T
<1> QED  BY <1>3

\* What has been spent, by phase: an attempt under way has spent nothing yet,
\* and a call that is over has no pause after its last attempt.
Spent ==
    /\ spent \in Nat
    /\ phase = "posting" => spent <= Budget(i)
    /\ phase = "backoff" => spent <= Budget(i + 1)
    /\ phase = "over" => spent <= Budget(i) + Timeout

\* The end of an attempt, with a pause or with a result.
LEMMA AttemptSpends ==
    ASSUME RetryInv, Spent, phase = "posting", NEW took \in 0 .. Timeout,
           \/ Retry(took)
           \/ spent' = spent + took /\ \E r : Return(r)
    PROVE  Spent'
<1>1. /\ i \in Nat /\ spent \in Nat /\ spent <= Budget(i) /\ Timeout \in Nat
      /\ took \in Nat /\ took <= Timeout
  BY DEF RetryInv, RetryTypeOK, Spent, RetryAssumption
<1>2. /\ Budget(i) \in Nat /\ Delay(i) \in Nat
      /\ Budget(i + 1) = Budget(i) + Timeout + Delay(i)
  BY <1>1, BudgetEquations
<1>3. CASE phase' = "backoff" /\ spent' = spent + took + Delay(i) /\ i' = i
  <2>1. spent' \in Nat /\ spent' <= Budget(i + 1)
    BY <1>1, <1>2, <1>3
  <2>2. Budget(i + 1)' = Budget(i + 1)
    BY <1>3 DEF Budget
  <2> QED  BY <1>3, <2>1, <2>2 DEF Spent
<1>4. CASE phase' = "over" /\ spent' = spent + took /\ i' = i
  <2>1. spent' \in Nat /\ spent' <= Budget(i) + Timeout
    BY <1>1, <1>2, <1>4
  <2>2. Budget(i)' = Budget(i)
    BY <1>4 DEF Budget
  <2> QED  BY <1>4, <2>1, <2>2 DEF Spent
<1> QED  BY <1>3, <1>4 DEF Retry, Return

\* Every step keeps the budget.
LEMMA SpentStep == RetryInv /\ Spent /\ [Next]_vars => Spent'
<1> SUFFICES ASSUME RetryInv, Spent, [Next]_vars  PROVE Spent'
  OBVIOUS
<1>1. ASSUME NEW k \in 0 .. MaxRetries + 1, NEW s \in Statuses, Serve(k, s)
      PROVE  Spent'
  BY <1>1 DEF Serve, Spent, Budget
<1>2. ASSUME NEW took \in 0 .. Timeout, NEW s \in Statuses, AnswerArrives(s, took)
      PROVE  Spent'
  <2>1. phase = "posting"
    BY <1>2 DEF AnswerArrives
  <2>2. Retry(took) \/ (spent' = spent + took /\ \E r : Return(r))
    BY <1>2 DEF AnswerArrives
  <2> QED  BY <2>1, <2>2, AttemptSpends
<1>3. ASSUME NEW took \in 0 .. Timeout, NEW code \in ErrorCodes, AttemptFails(code, took)
      PROVE  Spent'
  <2>1. phase = "posting"
    BY <1>3 DEF AttemptFails
  <2>2. Retry(took) \/ (spent' = spent + took /\ \E r : Return(r))
    BY <1>3 DEF AttemptFails
  <2> QED  BY <2>1, <2>2, AttemptSpends
<1>4. ASSUME NextAttempt  PROVE Spent'
  <2>1. phase = "backoff" /\ phase' = "posting" /\ i' = i + 1 /\ spent' = spent
    BY <1>4 DEF NextAttempt
  <2>2. Budget(i)' = Budget(i + 1)
    BY <2>1 DEF Budget
  <2> QED  BY <2>1, <2>2 DEF Spent
<1>5. CASE UNCHANGED vars
  BY <1>5 DEF vars, Spent, Budget
<1> QED  BY <1>1, <1>2, <1>3, <1>4, <1>5 DEF Next, AttemptEnds

\* A call is over in the time of its attempts and its pauses, for every limit of
\* retries, timeout and delay.
THEOREM CallDurationIsBounded == Spec => []DurationIsBounded
<1>1. Init => RetryInv /\ Spent
  <2>1. Init => Spent
    BY BudgetEquations DEF Init, Spent
  <2> QED  BY <2>1, RetryStarts
<1>2. RetryInv /\ Spent => DurationIsBounded
  <2> SUFFICES ASSUME RetryInv, Spent  PROVE DurationIsBounded
    OBVIOUS
  <2>1. /\ i \in 0 .. retryCount /\ retryCount \in Nat /\ i \in Nat
        /\ phase \in {"posting", "backoff", "over"}
        /\ phase = "backoff" => i + 1 \in 0 .. retryCount
    BY DEF RetryInv, RetryTypeOK, PausesOnlyBefore, RetryAssumption
  <2>2. \A m \in 0 .. retryCount : Budget(m) <= Budget(retryCount) /\ Budget(m) \in Nat
    <3>1. \A m \in 0 .. retryCount : m \in Nat
      BY <2>1
    <3> QED  BY <2>1, <3>1, BudgetGrows, BudgetEquations
  <2>3. Timeout \in Nat /\ spent \in Nat /\ Budget(retryCount) \in Nat
    BY <2>1, BudgetEquations DEF Spent, RetryAssumption
  <2>4. spent <= Budget(retryCount) + Timeout
    <3>1. CASE phase = "posting"
      BY <2>1, <2>2, <2>3, <3>1 DEF Spent
    <3>2. CASE phase = "backoff"
      BY <2>1, <2>2, <2>3, <3>2 DEF Spent
    <3>3. CASE phase = "over"
      BY <2>1, <2>2, <2>3, <3>3 DEF Spent
    <3> QED  BY <2>1, <3>1, <3>2, <3>3
  <2>5. /\ (retryCount + 1) * Timeout = retryCount * Timeout + Timeout
        /\ retryCount * Timeout \in Nat
        /\ RetryDelay * (PowerOf2[retryCount] - 1) \in Nat
    <3> DEFINE b == PowerOf2[retryCount]
    <3>1. b \in Nat /\ b >= 1 /\ RetryDelay \in Nat
      BY <2>1, BudgetEquations, PowerOf2Equations DEF RetryAssumption
    <3> HIDE DEF b
    <3> QED  BY <2>1, <2>3, <3>1, Products DEF b
  <2> QED  BY <2>3, <2>4, <2>5 DEF DurationIsBounded, Budget
<1> QED  BY <1>1, <1>2, RetryStep, SpentStep, PTL DEF Spec
=============================================================================
