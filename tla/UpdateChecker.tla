--------------------------- MODULE UpdateChecker ---------------------------
(***************************************************************************)
(* SequentialUpdateChecker of components/update_client/update_checker.cc:  *)
(* the update check of a list of components, split into requests to the    *)
(* update server so that a Google component is always asked for alone.     *)
(*                                                                         *)
(* The UpdateChecker a request is handed to is upstream code: it answers a *)
(* request once, with an error or with a result for some of its ids.       *)
(***************************************************************************)
EXTENDS Integers, Sequences, FiniteSets

CONSTANTS
    Id,      \* component ids
    BraveId  \* the ids whose installer says IsBraveComponent()

ASSUME BraveIdAssumption == BraveId \subseteq Id
ASSUME IdAssumption == IsFiniteSet(Id)

VARIABLES
    to_check,   \* update_context_->components_to_check_for_updates
    remaining,  \* remaining_ids_
    in_flight,  \* the ids of the request update_checker_ is working on
    requests,   \* every request sent, in order (history)
    results,    \* results_.apps, as the set of ids with a result
    answered,   \* the ids some successful answer had a result for (history)
    callback    \* update_check_callback_: "none", "held", "posted_ok",
                \* "posted_error", "ran_ok" or "ran_error"

vars == <<to_check, remaining, in_flight, requests, results, answered, callback>>

IsBraveComponent(id) == id \in BraveId

ToSet(s) == {s[i] : i \in DOMAIN s}

\* Lists of distinct ids, in any order.
IdLists ==
    {s \in UNION {[1 .. n -> Id] : n \in 1 .. Cardinality(Id)} :
        \A i, j \in DOMAIN s : s[i] = s[j] => i = j}

-----------------------------------------------------------------------------
Init ==
    /\ to_check \in IdLists
    /\ remaining = <<>>
    /\ in_flight = <<>>
    /\ requests = <<>>
    /\ results = {}
    /\ answered = {}
    /\ callback = "none"

\* Mutant: the list is taken in the order of the caller.
MutCallerOrder(s) == s

\* Whether the partition puts the id at j before the one at i.
Before(s, j, i) ==
    IF IsBraveComponent(s[j]) <=> IsBraveComponent(s[i]) THEN j < i
    ELSE IsBraveComponent(s[j])

Place(s, i) == Cardinality({j \in DOMAIN s : j = i \/ Before(s, j, i)})

\* std::ranges::stable_partition: Brave's components first.
BraveFirst(s) == [k \in DOMAIN s |-> s[CHOOSE i \in DOMAIN s : Place(s, i) = k]]

\* How many ids the next request takes from the queue: the first, and those
\* after it up to the first that is not Brave's.
BatchSize(q) ==
    Cardinality({n \in 1 .. Len(q) : \A i \in 2 .. n : IsBraveComponent(q[i])})

\* Mutant: the ids of a request stay in the queue but for the first.
MutPopOne(q, n) == Tail(q)

\* What is left of the queue when the first n ids have been erased.
Rest(q, n) == SubSeq(q, n + 1, Len(q))

\* CheckNext, with q in remaining_ids_.
CheckNext(q) ==
    LET batch == SubSeq(q, 1, BatchSize(q))
    IN  /\ remaining' = Rest(q, BatchSize(q))
        /\ in_flight' = batch
        /\ requests' = Append(requests, batch)

CheckForUpdates ==
    /\ callback = "none"
    /\ callback' = "held"
    /\ to_check' = BraveFirst(to_check)
    /\ CheckNext(remaining \o BraveFirst(to_check))
    /\ UNCHANGED <<results, answered>>

\* Mutant: only an error ends the check.
MutDoneOnError(error) == error

Done(error) == error \/ remaining = <<>>

\* Mutant: the results of a request replace those of the ones before.
MutReplaceResults(apps) == apps

NewResults(apps) == results \cup apps

Cleared == <<>>

\* UpdateResultAvailable, called by update_checker_ for the request in
\* flight: with an error, or with results for the ids in apps.
UpdateResultAvailable(error, apps) ==
    /\ in_flight # <<>>
    /\ results' = IF error THEN results ELSE NewResults(apps)
    /\ answered' = IF error THEN answered ELSE answered \cup apps
    /\ \/ /\ Done(error)
          /\ callback' = IF error THEN "posted_error" ELSE "posted_ok"
          /\ remaining' = Cleared
          /\ in_flight' = <<>>
          /\ UNCHANGED requests
       \/ /\ ~Done(error)
          /\ CheckNext(remaining)
          /\ UNCHANGED callback
    /\ UNCHANGED to_check

\* The task posted with the outcome runs.
RunCallback ==
    /\ callback \in {"posted_ok", "posted_error"}
    /\ callback' = IF callback = "posted_ok" THEN "ran_ok" ELSE "ran_error"
    /\ UNCHANGED <<to_check, remaining, in_flight, requests, results, answered>>

Answer ==
    \E error \in BOOLEAN, apps \in SUBSET ToSet(in_flight) :
        UpdateResultAvailable(error, apps)

Next == CheckForUpdates \/ Answer \/ RunCallback

Spec == Init /\ [][Next]_vars

\* The upstream checker answers every request, the task runner runs what is
\* posted to it.
FairSpec == Spec /\ WF_vars(Answer) /\ WF_vars(RunCallback)

-----------------------------------------------------------------------------
(* Properties.                                                             *)

Succeeded == {"posted_ok", "ran_ok"}

\* Type invariant; CheckNext never sends an empty request.
TypeOK ==
    /\ to_check \in Seq(Id)
    /\ remaining \in Seq(Id)
    /\ in_flight \in Seq(Id)
    /\ requests \in Seq(Seq(Id) \ {<<>>})
    /\ results \subseteq Id
    /\ answered \subseteq Id
    /\ callback \in {"none", "held", "posted_ok", "posted_error", "ran_ok", "ran_error"}

\* A request that names a Google component names nothing else, whatever the
\* order of the list, so that the server can answer it with a redirect
\* (CheckForUpdates' partition and CheckNext's scan together).
GoogleAskedAlone ==
    \A r \in DOMAIN requests :
        Len(requests[r]) > 1 => ToSet(requests[r]) \subseteq BraveId

\* An id is in at most one request, and at most once in it (the erase in
\* CheckNext).
AskedAtMostOnce ==
    \A r, s \in DOMAIN requests :
        \A i \in DOMAIN requests[r], j \in DOMAIN requests[s] :
            requests[r][i] = requests[s][j] => r = s /\ i = j

\* Success is reported only when every component of the list was asked for,
\* and with every result of every request (UpdateResultAvailable).
SuccessIsComplete ==
    callback \in Succeeded =>
        /\ UNION {ToSet(requests[r]) : r \in DOMAIN requests} = ToSet(to_check)
        /\ results = answered

\* Every check that was started hands its caller an outcome.
CheckEnds == callback = "held" ~> callback \in {"ran_ok", "ran_error"}

=============================================================================
