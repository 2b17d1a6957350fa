------------------------------ MODULE TabFocus ------------------------------
(***************************************************************************)
(* The browser's side of tab focus, in                                     *)
(* chrome/browser/ui/webui/tab_search/tab_search_page_handler.cc: the page *)
(* names a topic, the assistant answers with tabs, the handler moves them  *)
(* to a new window and keeps what an undo needs.  The user moves and       *)
(* closes tabs meanwhile.  Positions count from 1.                         *)
(***************************************************************************)
EXTENDS Integers, FiniteSets, Sequences, SequencesExt

CONSTANTS
    Tab,        \* the tabs of the profile's normal windows
    Topic,
    NoTab,      \* an id of an answer that names no such tab
    Errors,     \* some of "rate limit", "premium rate limit" and "other"
    FirstStrips,  \* the tab strips of the windows open at first
    MaxWindow,  \* bound on the windows of a behaviour
    MaxAnswer,  \* bound on the ids of an answer
    MaxEdit     \* bound on the user's moves and closes

ASSUME BoundsAssumption ==
    /\ MaxWindow \in Nat /\ MaxAnswer \in Nat /\ MaxEdit \in Nat
    /\ Len(FirstStrips) <= MaxWindow

VARIABLES
    strip,    \* per session id, the tabs of the window; closed when empty
    created,  \* number of windows created so far
    record,   \* original_tabs_info_by_window_
    asked,    \* the requests the assistant has not answered, oldest first
    replies,  \* callbacks run, on their way to the page
    edits,    \* number of the user's moves and closes (bounded)
    moves,    \* the topic of each move in record and the strips before it (history)
    disturbed \* the user changed the strips since the first of moves (history)

tabVars == <<strip, created, record, edits, moves, disturbed>>

handlerVars == <<tabVars, asked, replies>>

Window == 1 .. MaxWindow

Answers == SeqOf(Tab \cup {NoTab}, MaxAnswer)

EmptyRecord == [w \in Window |-> <<>>]

-----------------------------------------------------------------------------
(* Tab strips.                                                             *)

Found(s, t) == \E w \in Window : t \in ToSet(s[w])

Where(s, t) ==
    CHOOSE p \in [window : Window, index : 1 .. Cardinality(Tab)] :
        p.index <= Len(s[p.window]) /\ s[p.window][p.index] = t

\* GetTabDetails: where a tab is.
GetTabDetails(s, t) ==
    LET p == Where(s, t) IN [tab |-> t, window |-> p.window, index |-> p.index]

\* Mutant: a tab is detached from where it was when its details were taken.
MutDetachAt(s, d) ==
    IF d.index <= Len(s[d.window]) THEN [window |-> d.window, index |-> d.index]
    ELSE Where(s, d.tab)

\* Where a tab is detached from: the window and the index it has by then.
DetachAt(s, d) == Where(s, d.tab)

\* Detach, and insert into window w at index i or, beyond its end, at its end.
Move(s, d, w, i) ==
    LET p == DetachAt(s, d)
        t == s[p.window][p.index]
        detached == [s EXCEPT ![p.window] = RemoveAt(@, p.index)]
        at == IF i > Len(detached[w]) THEN Len(detached[w]) + 1 ELSE i
    IN  [detached EXCEPT ![w] = InsertAt(@, at, t)]

-----------------------------------------------------------------------------
InitHandler ==
    /\ strip = [w \in Window |->
                    IF w <= Len(FirstStrips) THEN FirstStrips[w] ELSE <<>>]
    /\ created = Len(FirstStrips)
    /\ record = EmptyRecord
    /\ asked = <<>>
    /\ replies = <<>>
    /\ edits = 0
    /\ moves = <<>>
    /\ disturbed = FALSE

Reply(r) == replies' = Append(replies, r)

GetSuggestedTopics ==
    /\ asked' = Append(asked, [call |-> "topics"])
    /\ UNCHANGED <<tabVars, replies>>

OnGetSuggestedTopics(i) ==
    /\ asked[i].call = "topics"
    /\ asked' = RemoveAt(asked, i)
    /\ \E e \in Errors \cup {"none"} : Reply([call |-> "topics", error |-> e])
    /\ UNCHANGED tabVars

GetFocusTabs(topic) ==
    /\ record' = EmptyRecord
    /\ moves' = <<>>
    /\ disturbed' = FALSE
    /\ asked' = Append(asked, [call |-> "focus", topic |-> topic])
    /\ UNCHANGED <<strip, created, replies, edits>>

FocusReply(topic, windowCreated, e) ==
    Reply([call |-> "focus", topic |-> topic, windowCreated |-> windowCreated, error |-> e])

\* The details of the answer's tabs, all taken before the first move.
DetailsBeforeMove(answer) ==
    LET known == SelectSeq(answer, LAMBDA t : Found(strip, t))
    IN  [i \in DOMAIN known |-> GetTabDetails(strip, known[i])]

\* The record with the details appended, each to its window's list.
Recorded(details) ==
    [w \in Window |->
        record[w] \o SelectSeq(details, LAMBDA d : d.window = w)]

OnGetFocusTabs(i, answer) ==
    LET topic == asked[i].topic
        details == DetailsBeforeMove(answer)
        w == created + 1
    IN  /\ asked[i].call = "focus"
        /\ asked' = RemoveAt(asked, i)
        /\ \/ /\ details = <<>>
              /\ FocusReply(topic, FALSE, "none")
              /\ UNCHANGED tabVars
           \/ /\ details # <<>>
              /\ w <= MaxWindow
              /\ record' = Recorded(details)
              /\ created' = w
              /\ strip' = FoldLeft(LAMBDA s, d : Move(s, d, w, Len(s[w]) + 1), strip, details)
              /\ moves' = Append(moves, [topic |-> topic, strip |-> strip])
              /\ FocusReply(topic, TRUE, "none")
              /\ UNCHANGED <<edits, disturbed>>

OnGetFocusTabsError(i) ==
    /\ asked[i].call = "focus"
    /\ asked' = RemoveAt(asked, i)
    /\ \E e \in Errors : FocusReply(asked[i].topic, FALSE, e)
    /\ UNCHANGED tabVars

\* Mutant: the tabs go back in the order of the answer.
MutInOrder(w) == record[w]

\* The recorded tabs of a window by ascending index.
InOrder(w) == SortSeq(record[w], LAMBDA a, b : a.index < b.index)

\* Mutant: the first window that is gone ends the undo.
MutTargets ==
    SelectSeq([w \in Window |-> w],
              LAMBDA w : \A v \in 1 .. w : record[v] # <<>> => strip[v] # <<>>)

\* The recorded windows that are still open, by session id.
Targets ==
    SelectSeq([w \in Window |-> w], LAMBDA w : strip[w] # <<>> /\ record[w] # <<>>)

Restore(s, w) ==
    FoldLeft(LAMBDA r, d : IF Found(r, d.tab) THEN Move(r, d, w, d.index) ELSE r,
             s, InOrder(w))

\* Mutant: the record is kept after an undo.
MutRecordAfterUndo == record

RecordAfterUndo == EmptyRecord

UndoFocusTabs ==
    /\ strip' = FoldLeft(Restore, strip, Targets)
    /\ record' = RecordAfterUndo
    /\ moves' = <<>>
    /\ disturbed' = FALSE
    /\ Reply([call |-> "undo"])
    /\ UNCHANGED <<created, asked, edits>>

\* The user moves a tab, or closes it.
Edit ==
    /\ edits < MaxEdit
    /\ edits' = edits + 1
    /\ \E t \in Tab :
          /\ Found(strip, t)
          /\ LET d == GetTabDetails(strip, t)
             IN  \/ \E w \in Window, i \in 1 .. Cardinality(Tab) :
                       /\ strip[w] # <<>>
                       /\ strip' = Move(strip, d, w, i)
                 \/ strip' = [strip EXCEPT ![d.window] = RemoveAt(@, d.index)]
    /\ disturbed' = (moves # <<>>)
    /\ UNCHANGED <<created, record, asked, replies, moves>>

\* The assistant answers any request it has, in any order.
AssistantAnswers ==
    \E i \in DOMAIN asked :
        \/ OnGetSuggestedTopics(i)
        \/ \E answer \in Answers : OnGetFocusTabs(i, answer)
        \/ OnGetFocusTabsError(i)

-----------------------------------------------------------------------------
(* Properties.                                                             *)

\* What a move records is what it does: the tabs that left a window are those
\* the record gains for it, each at the index it had there, whatever the order
\* and the repetitions of the answer; every other tab keeps its place among
\* the rest (OnGetFocusTabs).
MoveMatchesRecord ==
    [][created' # created =>
        \A w \in Window \ {created'} :
            LET gained == {record'[w][i] : i \in DOMAIN record'[w] \ DOMAIN record[w]}
            IN  /\ \A d \in gained : strip[w][d.index] = d.tab
                /\ strip'[w] = SelectSeq(strip[w], LAMBDA t : \A d \in gained : d.tab # t)
                /\ {d.tab : d \in gained} \subseteq ToSet(strip'[created'])]_handlerVars

\* When nothing came between one move and its undo, every window that is still
\* open is as it was before the move, tab by tab (UndoFocusTabs).
UndoRestores ==
    [][UndoFocusTabs /\ Len(moves) = 1 /\ ~disturbed =>
        \A w \in Window :
            LET was == moves[1].strip[w]
            IN  was # <<>> /\ strip[w] # <<>> => strip'[w] = was]_handlerVars

\* Whatever came between, an undo brings each recorded tab that still exists
\* to a window it was recorded for, if one of these is still open.
UndoBringsBack ==
    [][UndoFocusTabs =>
        \A t \in Tab :
            LET homes == {w \in Window : strip[w] # <<>> /\ \E d \in ToSet(record[w]) : d.tab = t}
            IN  Found(strip, t) /\ homes # {} => \E w \in homes : t \in ToSet(strip'[w])]_handlerVars
=============================================================================
