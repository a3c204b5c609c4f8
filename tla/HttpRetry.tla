------------------------------ MODULE HttpRetry ------------------------------
(***************************************************************************)
(* One call of httpPostWithRetry (http.util.ts) and the target it posts    *)
(* to.  An attempt that fails at the caller may still be on its way: the   *)
(* target can serve it during a later attempt, or after the call.          *)
(***************************************************************************)
EXTENDS Integers

CONSTANTS
    MaxRetries,   \* the controllers clamp retryCount to 0 .. 10
    Timeout,      \* config.timeout, in units of time
    RetryDelay,   \* dispatch.retryDelay, in units of time
    Statuses,     \* HTTP statuses a target answers with
    NoStatus,
    NoType,
    NoResult

ErrorTypes == {"timeout", "dns", "connection_refused", "connection_reset",
               "server_error", "client_error", "network", "unknown"}

\* HttpPostResult
Results == [success : BOOLEAN, status : Statuses \cup {NoStatus},
            errorType : ErrorTypes \cup {NoType}, retryCount : Nat]

ASSUME RetryAssumption ==
    /\ MaxRetries \in Nat /\ Timeout \in Nat /\ RetryDelay \in Nat
    /\ Statuses \subseteq 100 .. 599
    /\ NoStatus \notin Statuses
    /\ NoResult \notin Results

VARIABLES
    retryCount,   \* options.retryCount of the call
    i,            \* the loop variable, and `attempts`
    phase,        \* "posting": await axios; "backoff": await the timer; "over"
    travelling,   \* attempts whose request is on its way to the target
    served,       \* <<attempt, status>> of what the target has answered
    failure,      \* lastErrorType, with the failure it was derived from
    spent,        \* history: time spent in attempts and pauses
    result        \* the HttpPostResult

vars == <<retryCount, i, phase, travelling, served, failure, spent, result>>

\* err.code of what axios rejects with; "none" is an error without a code.
ErrorCodes == {"ECONNABORTED", "ENOTFOUND", "ECONNREFUSED", "ECONNRESET",
               "EHOSTUNREACH", "none"}

\* The request did not leave: no name, no connection.
Unsent == {"ENOTFOUND", "ECONNREFUSED"}

Init ==
    /\ retryCount \in 0 .. MaxRetries
    /\ i = 0 /\ phase = "posting" /\ travelling = {0}
    /\ served = {}
    /\ failure = [type |-> "unknown", status |-> NoStatus]
    /\ spent = 0
    /\ result = NoResult
-----------------------------------------------------------------------------
Succeeds(s) == s >= 200 /\ s < 300

TypeOfStatus(s) == IF s >= 500 THEN "server_error" ELSE "client_error"

\* Mutant of FinalStatus: 408 and 429 are final too.
FinalStatusAll4xx(s) == s >= 400 /\ s < 500

\* A 4xx other than 408 and 429 ends the call.
FinalStatus(s) == s >= 400 /\ s < 500 /\ s \notin {408, 429}

\* classifyError; validateStatus accepts every status, so the error never
\* carries a response.
ClassifyError(code) ==
    IF code = "ECONNABORTED" THEN "timeout"
    ELSE IF code = "ENOTFOUND" THEN "dns"
    ELSE IF code = "ECONNREFUSED" THEN "connection_refused"
    ELSE IF code = "ECONNRESET" THEN "connection_reset"
    ELSE IF code # "none" THEN "network"
    ELSE "unknown"

IsRetryable(code) == code # "ENOTFOUND"

\* Math.pow(2, n)
PowerOf2[n \in Nat] == IF n = 0 THEN 1 ELSE 2 * PowerOf2[n - 1]

\* Mutant of Delay: the first pause is doubled already.
DelayTwice(n) == RetryDelay * PowerOf2[n + 1]

\* The pause after attempt n.
Delay(n) == RetryDelay * PowerOf2[n]

\* Mutant of Result: retries are counted when a failure has been handled.
ResultOfPrevious(ok, status, type) ==
    [success |-> ok, status |-> status, errorType |-> type,
     retryCount |-> IF i = 0 THEN 0 ELSE i - 1]

Result(ok, status, type) ==
    [success |-> ok, status |-> status, errorType |-> type, retryCount |-> i]
-----------------------------------------------------------------------------
\* The target serves a request it was sent, of whichever attempt.
Serve(k, s) ==
    /\ k \in travelling
    /\ travelling' = travelling \ {k}
    /\ served' = served \cup {<<k, s>>}
    /\ UNCHANGED <<retryCount, i, phase, failure, spent, result>>

\* The call returns.
Return(r) ==
    /\ phase' = "over" /\ result' = r
    /\ UNCHANGED <<retryCount, i>>

\* Mutant of Retry: one attempt too many.
RetryOnceMore(took) ==
    IF i <= retryCount
    THEN /\ phase' = "backoff" /\ spent' = spent + took + Delay(i)
         /\ UNCHANGED <<retryCount, i, result>>
    ELSE /\ spent' = spent + took
         /\ Return(Result(FALSE, NoStatus, failure'.type))

\* Mutant of Retry: the call ends without a result.
RetryWithoutReturn(took) ==
    IF i < retryCount
    THEN /\ phase' = "backoff" /\ spent' = spent + took + Delay(i)
         /\ UNCHANGED <<retryCount, i, result>>
    ELSE /\ phase' = "over" /\ spent' = spent + took
         /\ UNCHANGED <<retryCount, i, result>>

\* A failure worth retrying: pause, or return after the last attempt.  That
\* result has no status, whatever the target answered.
Retry(took) ==
    IF i < retryCount
    THEN /\ phase' = "backoff" /\ spent' = spent + took + Delay(i)
         /\ UNCHANGED <<retryCount, i, result>>
    ELSE /\ spent' = spent + took
         /\ Return(Result(FALSE, NoStatus, failure'.type))

\* Mutant of Answered: the answer to any attempt is taken for the current one's.
AnsweredAny(s) == \E k \in 0 .. i : <<k, s>> \in served

\* An answer to an earlier attempt has no listener any more.
Answered(s) == <<i, s>> \in served

\* The answer to the current attempt arrives.
AnswerArrives(s, took) ==
    /\ phase = "posting" /\ Answered(s)
    /\ IF Succeeds(s)
       THEN /\ Return(Result(TRUE, s, NoType))
            /\ spent' = spent + took /\ UNCHANGED failure
       ELSE /\ failure' = [type |-> TypeOfStatus(s), status |-> s]
            /\ IF FinalStatus(s)
               THEN /\ Return(Result(FALSE, s, TypeOfStatus(s)))
                    /\ spent' = spent + took
               ELSE Retry(took)
    /\ UNCHANGED <<travelling, served>>

\* axios rejects.
AttemptFails(code, took) ==
    /\ phase = "posting"
    /\ IF code \in Unsent
       THEN i \in travelling /\ travelling' = travelling \ {i}
       ELSE UNCHANGED travelling
    /\ failure' = [type |-> ClassifyError(code), status |-> NoStatus]
    /\ IF IsRetryable(code) THEN Retry(took)
       ELSE /\ Return(Result(FALSE, NoStatus, ClassifyError(code)))
            /\ spent' = spent + took
    /\ UNCHANGED served

\* The pause is over: the next turn of the loop.
NextAttempt ==
    /\ phase = "backoff"
    /\ phase' = "posting" /\ i' = i + 1
    /\ travelling' = travelling \cup {i + 1}
    /\ UNCHANGED <<retryCount, served, failure, spent, result>>

AttemptEnds ==
    \E took \in 0 .. Timeout :
        \/ \E s \in Statuses : AnswerArrives(s, took)
        \/ \E code \in ErrorCodes : AttemptFails(code, took)

Next ==
    \/ \E k \in 0 .. MaxRetries + 1, s \in Statuses : Serve(k, s)
    \/ AttemptEnds
    \/ NextAttempt

Spec == Init /\ [][Next]_vars

\* axios ends every attempt by its timeout, and timers fire.  Nothing obliges
\* the target to serve.
FairSpec == Spec /\ WF_vars(AttemptEnds) /\ WF_vars(NextAttempt)
-----------------------------------------------------------------------------
(***************************************************************************)
(* Properties.                                                             *)
(***************************************************************************)

Over == result # NoResult

\* Type invariant; DurationIsBounded is about spent.
RetryTypeOK ==
    /\ retryCount \in 0 .. MaxRetries /\ i \in 0 .. retryCount
    /\ phase \in {"posting", "backoff", "over"}
    /\ travelling \subseteq 0 .. i
    /\ served \subseteq (0 .. i) \X Statuses
    /\ failure \in [type : ErrorTypes, status : Statuses \cup {NoStatus}]
    /\ result \in {NoResult} \cup Results
    /\ phase = "over" <=> Over

\* The retries in the result account for every copy the target gets, those that
\* reach it late included, and a target never answers one copy twice.
CopiesAreCounted ==
    /\ Over => /\ travelling \subseteq 0 .. result.retryCount
               /\ \A p \in served : p[1] \in 0 .. result.retryCount
    /\ \A p, q \in served : p[1] = q[1] => p = q
    /\ \A p \in served : p[1] \notin travelling

\* Success is reported only when the target answered 2xx to the very attempt
\* that is reported; the late answer to an attempt that timed out never counts.
SuccessIsReal ==
    Over /\ result.success =>
        /\ <<result.retryCount, result.status>> \in served
        /\ result.status \in 200 .. 299

\* A failure is reported early only for a verdict retrying cannot change: a 4xx
\* that is neither 408 nor 429, or a name that does not resolve.
GivesUpForAReason ==
    Over /\ ~result.success /\ result.retryCount < retryCount =>
        \/ result.errorType = "dns"
        \/ result.status \in (400 .. 499) \ {408, 429}

\* A call lasts no longer than its attempts and the geometric series of pauses.
DurationIsBounded ==
    spent <= (retryCount + 1) * Timeout + RetryDelay * (PowerOf2[retryCount] - 1)

\* Every call returns a result, whatever the target does.
CallEnds == <>Over
=============================================================================
