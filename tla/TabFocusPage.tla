---------------------------- MODULE TabFocusPage ----------------------------
(***************************************************************************)
(* The tab focus page, chrome/browser/resources/tab_search/                *)
(* auto_tab_groups/auto_tab_groups_page.ts and .html.ts, with the handler  *)
(* of TabFocus behind one message pipe: calls and answers are delivered in *)
(* the order they were made, and any number of calls may be on their way.  *)
(***************************************************************************)
EXTENDS TabFocus

CONSTANTS
    Blank,       \* the empty topic, and no topic to undo
    MaxRequest,  \* bound on the requests of a behaviour, of either kind
    MaxCalls     \* bound on the calls without an answer

ASSUME PageAssumption == MaxRequest \in Nat /\ MaxCalls \in Nat /\ Blank \in Topic

VARIABLES
    undoTopic,        \* undoTopic_
    errorMessage,     \* an error is shown
    needsPremium,
    isLoadingTopics,
    calls,            \* calls on their way to the handler
    requests          \* number of requests so far (bounded)

pageVars == <<undoTopic, errorMessage, needsPremium, isLoadingTopics>>

vars == <<handlerVars, pageVars, calls, requests>>

Init ==
    /\ InitHandler
    /\ undoTopic = Blank
    /\ errorMessage = FALSE
    /\ needsPremium = FALSE
    /\ isLoadingTopics = FALSE
    /\ calls = <<>>
    /\ requests = 0

Send(c) ==
    /\ Len(calls) + Len(asked) + Len(replies) < MaxCalls
    /\ calls' = Append(calls, c)

-----------------------------------------------------------------------------
(* The page.                                                               *)

\* onFocusTabsClicked_ with the topic of the input, which may be empty, and
\* onTopicClicked_ with a suggested one.
getFocusTabs(topic) ==
    /\ ~errorMessage
    /\ requests < MaxRequest
    /\ requests' = requests + 1
    /\ undoTopic' = Blank
    /\ Send([call |-> "focus", topic |-> topic])
    /\ UNCHANGED <<handlerVars, errorMessage, needsPremium, isLoadingTopics>>

onUndoClicked ==
    /\ undoTopic # Blank
    /\ Send([call |-> "undo"])
    /\ UNCHANGED <<handlerVars, pageVars, requests>>

\* The page becomes visible.
maybeUpdateSuggestedTopics ==
    /\ ~isLoadingTopics
    /\ isLoadingTopics' = TRUE
    /\ requests < MaxRequest
    /\ requests' = requests + 1
    /\ Send([call |-> "topics"])
    /\ UNCHANGED <<handlerVars, undoTopic, errorMessage, needsPremium>>

onDismissErrorClicked ==
    /\ errorMessage /\ needsPremium
    /\ errorMessage' = FALSE
    /\ UNCHANGED <<handlerVars, undoTopic, needsPremium, isLoadingTopics, calls, requests>>

ShowError(e) ==
    /\ errorMessage' = (e # "none")
    /\ needsPremium' = CASE e = "rate limit" -> TRUE
                         [] e = "premium rate limit" -> FALSE
                         [] OTHER -> needsPremium

\* Mutant: an error leaves the page loading.
MutLoadingAfter(e) == e # "none"

LoadingAfter(e) == FALSE

onAnswer ==
    /\ replies # <<>>
    /\ replies' = Tail(replies)
    /\ LET r == Head(replies)
       IN  \/ /\ r.call = "undo"
              /\ undoTopic' = Blank
              /\ UNCHANGED <<errorMessage, needsPremium, isLoadingTopics>>
           \/ /\ r.call = "focus"
              /\ ShowError(r.error)
              /\ undoTopic' = IF r.error = "none" /\ r.windowCreated THEN r.topic ELSE undoTopic
              /\ UNCHANGED isLoadingTopics
           \/ /\ r.call = "topics"
              /\ ShowError(r.error)
              /\ isLoadingTopics' = LoadingAfter(r.error)
              /\ UNCHANGED undoTopic
    /\ UNCHANGED <<tabVars, asked, calls, requests>>

-----------------------------------------------------------------------------
\* The handler takes the next call.
Deliver ==
    /\ calls # <<>>
    /\ calls' = Tail(calls)
    /\ LET c == Head(calls)
       IN  \/ c.call = "topics" /\ GetSuggestedTopics
           \/ c.call = "focus" /\ GetFocusTabs(c.topic)
           \/ c.call = "undo" /\ UndoFocusTabs
    /\ UNCHANGED <<pageVars, requests>>

Browser ==
    /\ \/ AssistantAnswers
       \/ Edit
    /\ UNCHANGED <<pageVars, calls, requests>>

Next ==
    \/ \E topic \in Topic : getFocusTabs(topic)
    \/ onUndoClicked
    \/ maybeUpdateSuggestedTopics
    \/ onDismissErrorClicked
    \/ onAnswer
    \/ Deliver
    \/ Browser

Spec == Init /\ [][Next]_vars

-----------------------------------------------------------------------------
(* Properties.                                                             *)

\* No call is without its answer.
Quiet == calls = <<>> /\ asked = <<>> /\ replies = <<>>

\* When no call is open, the last move that the handler can undo is offered for
\* undo, whatever the page asked for and in whatever order the assistant
\* answered.  The empty topic is the exception: the page takes it for "nothing
\* to undo".
UndoIsOffered ==
    Quiet /\ record # EmptyRecord =>
        undoTopic # Blank \/ (moves # <<>> /\ Last(moves).topic = Blank)

\* The page waits for topics exactly while one request for them is open.
LoadingIsAsked ==
    LET Open(s) == Cardinality({i \in DOMAIN s : s[i].call = "topics"})
    IN  Open(calls) + Open(asked) + Open(replies) = IF isLoadingTopics THEN 1 ELSE 0
=============================================================================
