------------------------------ MODULE AppTabs ------------------------------
(***************************************************************************)
(* The window of the web application: the navigation bar, the container of *)
(* tabs, and the application between them, which finds the proof widget of *)
(* a tab by the tab's name (web-app/src/components: nav_bar.rs,            *)
(* tabbed_container.rs, app.rs).                                           *)
(*                                                                         *)
(* The components send each other messages. The framework handles them one *)
(* by one, in the order they were sent, and all of them before the browser *)
(* delivers another event: a click, or the end of reading a file.          *)
(***************************************************************************)
EXTENDS Integers, Sequences, SequencesExt, FiniteSets

CONSTANTS
    Files,     \* files to open: [name |-> ..., text |-> ...]
    Example,   \* the name of the tab that is there at the start
    MaxNew,    \* bound on the tabs made by the menu
    MaxOpens   \* bound on the files opened

VARIABLES
    queue,     \* messages that were sent and not handled
    linked,    \* App::tabcontainer_link is known
    proofs,    \* App::proofs: the widget registered for a name
    tabs,      \* TabbedContainer::tabs: [name, widget, text]; no widget is 0
    current,   \* TabbedContainer::current_tab, from 0
    nextTab,   \* NavBarWidget::next_tab_idx
    readers,   \* the FileReaders made: [name, text, state]
    channel,   \* FileOpenHelper: names with their readers, as indices of readers
    halted,    \* "no", "panic", or "blocked" in recv
    \* not in the code:
    made,      \* the number given to the last widget
    loads,     \* the readers in the order they finished
    opened,    \* the readers whose text went into a tab
    clash,     \* a tab was created with the name of another one
    saved      \* by the last click: the widget written, and the one shown

vars == <<queue, linked, proofs, tabs, current, nextTab, readers, channel, halted,
          made, loads, opened, clash, saved>>
appVars == <<linked, proofs>>
tabVars == <<tabs, current, made, clash>>
navVars == <<nextTab>>
fileVars == <<readers, channel, loads, opened>>

NoWidget == 0
NothingSaved == [widget |-> NoWidget, shown |-> NoWidget]
Untitled(k) == <<"Untitled proof", k>>
ExprTree(k) == <<"Expr Tree", k>>

(* A text stands for where it came from: the text of a file is that of no  *)
(* file of another name, and not one of the texts that are built in.       *)
ASSUME TextsAssumption ==
    \A f \in Files :
        /\ f.text \notin {Example, Untitled(0), ExprTree(0)}
        /\ \A g \in Files : g.text = f.text => g.name = f.name

(* The messages. *)
Msg(m) == [msg |-> m]
CreateTab(name, registered, text) ==
    [msg |-> "CreateTab", name |-> name, registered |-> registered, text |-> text]
RegisterProofName(name, widget) ==
    [msg |-> "RegisterProofName", name |-> name, widget |-> widget]

(* The three components are created, in an order that the framework        *)
(* chooses, and announce themselves to App; then the example's widget.     *)
Init ==
    /\ queue \in {<<Msg("NavBarInit"), Msg("TabbedContainerInit"), RegisterProofName(Example, 1)>>,
                  <<Msg("TabbedContainerInit"), Msg("NavBarInit"), RegisterProofName(Example, 1)>>,
                  <<Msg("TabbedContainerInit"), RegisterProofName(Example, 1), Msg("NavBarInit")>>}
    /\ linked = FALSE
    /\ proofs = <<>>
    /\ tabs = <<[name |-> Example, widget |-> 1, text |-> Example]>>
    /\ current = 0 /\ nextTab = 1 /\ readers = <<>> /\ channel = <<>> /\ halted = "no"
    /\ made = 1 /\ loads = <<>> /\ opened = <<>> /\ clash = FALSE
    /\ saved = NothingSaved

-----------------------------------------------------------------------------
(* Handling the first message; it may send one more. *)

Handling(m) == halted = "no" /\ queue # <<>> /\ Head(queue).msg = m
SendNone == queue' = Tail(queue)
Send(m) == queue' = Append(Tail(queue), m)

(* App *)

NavBarInit ==
    /\ Handling("NavBarInit")
    /\ Send(Msg("FileNew"))
    /\ UNCHANGED <<appVars, tabVars, navVars, fileVars, halted, saved>>

(* Fault: the link is not stored. *)
TabbedContainerInitForgotten ==
    /\ Handling("TabbedContainerInit")
    /\ SendNone
    /\ UNCHANGED <<appVars, tabVars, navVars, fileVars, halted, saved>>

TabbedContainerInit ==
    /\ Handling("TabbedContainerInit")
    /\ linked' = TRUE
    /\ SendNone
    /\ UNCHANGED <<proofs, tabVars, navVars, fileVars, halted, saved>>

CreateTabHandled ==
    /\ Handling("CreateTab")
    /\ IF linked THEN Send([Head(queue) EXCEPT !.msg = "Create"]) ELSE SendNone
    /\ UNCHANGED <<appVars, tabVars, navVars, fileVars, halted, saved>>

(* Fault: the widget is not dropped. *)
CloseTabKept ==
    /\ Handling("CloseTab")
    /\ SendNone
    /\ UNCHANGED <<appVars, tabVars, navVars, fileVars, halted, saved>>

CloseTab ==
    /\ Handling("CloseTab")
    /\ proofs' = [n \in DOMAIN proofs \ {Head(queue).name} |-> proofs[n]]
    /\ SendNone
    /\ UNCHANGED <<linked, tabVars, navVars, fileVars, halted, saved>>

Registered ==
    /\ Handling("RegisterProofName")
    /\ LET m == Head(queue)
       IN  proofs' = [n \in DOMAIN proofs \cup {m.name} |->
                         IF n = m.name THEN m.widget ELSE proofs[n]]
    /\ SendNone
    /\ UNCHANGED <<linked, tabVars, navVars, fileVars, halted, saved>>

(* The request carries a copy of the registered widgets. *)
GetProofFromCurrentTab ==
    /\ Handling("GetProofFromCurrentTab")
    /\ IF linked THEN Send([msg |-> "GetCurrent", proofs |-> proofs]) ELSE SendNone
    /\ UNCHANGED <<appVars, tabVars, navVars, fileVars, halted, saved>>

(* TabbedContainer *)

(* The new tab comes first and is shown. Rendering it makes its widget,    *)
(* which registers itself, unless the tab has an expression tree.          *)
Create ==
    /\ Handling("Create")
    /\ LET m == Head(queue)
           widget == IF m.registered = <<>> THEN NoWidget ELSE made + 1
       IN  /\ tabs' = <<[name |-> m.name, widget |-> widget, text |-> m.text]>> \o tabs
           /\ IF m.registered = <<>> THEN SendNone ELSE Send(RegisterProofName(m.registered, widget))
           /\ clash' = (clash \/ \E i \in 1..Len(tabs) : tabs[i].name = m.name)
    /\ current' = 0
    /\ made' = made + 1
    /\ UNCHANGED <<appVars, navVars, fileVars, halted, saved>>

(* Fault: the index is left as it is. *)
InBoundsNot(index, len) == index

InBounds(index, len) == IF index < len THEN index ELSE IF len = 0 THEN 0 ELSE len - 1

Close ==
    /\ Handling("Close")
    /\ LET i == Head(queue).idx + 1
       IN  /\ tabs' = RemoveAt(tabs, i)
           /\ Send([msg |-> "CloseTab", name |-> tabs[i].name])
    /\ current' = InBounds(current, Len(tabs) - 1)
    /\ UNCHANGED <<made, clash, appVars, navVars, fileVars, halted, saved>>

Switch ==
    /\ Handling("Switch")
    /\ current' = Head(queue).idx
    /\ SendNone
    /\ UNCHANGED <<tabs, made, clash, appVars, navVars, fileVars, halted, saved>>

(* Indexing panics when no tab is at current. The widget found for the     *)
(* name, if there is one, is asked for its proof, and that is written      *)
(* (ProofWidgetMsg::CallOnProof).                                          *)
GetCurrent ==
    /\ Handling("GetCurrent")
    /\ IF current < Len(tabs)
       THEN /\ LET tab == tabs[current + 1]
                   links == Head(queue).proofs
               IN  saved' = [widget |-> IF tab.name \in DOMAIN links THEN links[tab.name] ELSE NoWidget,
                             shown |-> tab.widget]
            /\ UNCHANGED halted
       ELSE halted' = "panic" /\ UNCHANGED saved
    /\ SendNone
    /\ UNCHANGED <<appVars, tabVars, navVars, fileVars>>

(* NavBarWidget *)

(* Fault: the number has been increased when the callback takes the name. *)
FileNewLate ==
    /\ Handling("FileNew")
    /\ Send(CreateTab(Untitled(nextTab), Untitled(nextTab + 1), Untitled(0)))
    /\ nextTab' = nextTab + 1
    /\ UNCHANGED <<appVars, tabVars, fileVars, halted, saved>>

FileNew ==
    /\ Handling("FileNew")
    /\ Send(CreateTab(Untitled(nextTab), Untitled(nextTab), Untitled(0)))
    /\ nextTab' = nextTab + 1
    /\ UNCHANGED <<appVars, tabVars, fileVars, halted, saved>>

NewExprTree ==
    /\ Handling("NewExprTree")
    /\ Send(CreateTab(ExprTree(nextTab), <<>>, ExprTree(0)))
    /\ nextTab' = nextTab + 1
    /\ UNCHANGED <<appVars, tabVars, fileVars, halted, saved>>

FileSave ==
    /\ Handling("FileSave")
    /\ Send(Msg("GetProofFromCurrentTab"))
    /\ UNCHANGED <<appVars, tabVars, navVars, fileVars, halted, saved>>

(* Fault: a name is dropped while another one waits. *)
SentIfEmpty(reader) == IF channel = <<>> THEN <<reader>> ELSE channel

Sent(reader) == Append(channel, reader)

FileOpen ==
    /\ Handling("FileOpen")
    /\ LET f == Head(queue).file
       IN  readers' = Append(readers, [name |-> f.name, text |-> f.text, state |-> "loading"])
    /\ channel' = Sent(Len(readers'))
    /\ SendNone
    /\ UNCHANGED <<loads, opened, appVars, tabVars, navVars, halted, saved>>

Handle ==
    \/ NavBarInit \/ TabbedContainerInit \/ CreateTabHandled \/ CloseTab \/ Registered
    \/ GetProofFromCurrentTab \/ Create \/ Close \/ Switch \/ GetCurrent
    \/ FileNew \/ NewExprTree \/ FileSave \/ FileOpen

-----------------------------------------------------------------------------
(* Events of the browser. *)

Idle == halted = "no" /\ queue = <<>>

Click(m) ==
    /\ Idle
    /\ queue' = <<m>>
    /\ saved' = NothingSaved
    /\ UNCHANGED <<appVars, tabVars, navVars, fileVars, halted>>

ClickMenu ==
    \/ nextTab <= MaxNew /\ \E m \in {"FileNew", "NewExprTree"} : Click(Msg(m))
    \/ Click(Msg("FileSave"))
    \/ Len(readers) < MaxOpens /\ \E f \in Files : Click([msg |-> "FileOpen", file |-> f])

ClickTab ==
    \E m \in {"Switch", "Close"}, i \in 0..(Len(tabs) - 1) : Click([msg |-> m, idx |-> i])

(* Faults: the last name that was sent is taken; the text is that of the   *)
(* reader that finished.                                                   *)
TakenAtLast == Len(channel)
TextOfFinished(taken, finished) == readers[finished].text

(* The closure for a finished reader takes the first name that was sent,   *)
(* with its own reader, which has a text if it has finished as well. It    *)
(* blocks when no name was sent.                                           *)
TakenAt == 1
Taken == channel[TakenAt]
TextOf(taken, finished) == readers[taken].text

OnLoad ==
    /\ Idle
    /\ \E i \in 1..Len(readers) :
          /\ readers[i].state = "loading"
          /\ readers' = [readers EXCEPT ![i].state = "done"]
          /\ loads' = Append(loads, i)
          /\ IF channel = <<>>
             THEN halted' = "blocked" /\ UNCHANGED <<queue, channel, opened>>
             ELSE /\ channel' = RemoveAt(channel, TakenAt)
                  /\ IF readers'[Taken].state = "done"
                     THEN /\ queue' = <<CreateTab(readers[Taken].name, readers[Taken].name,
                                                  TextOf(Taken, i))>>
                          /\ opened' = Append(opened, Taken)
                     ELSE UNCHANGED <<queue, opened>>
                  /\ UNCHANGED halted
    /\ UNCHANGED <<appVars, tabVars, navVars, saved>>

(* Reading fails: no handler is set for that. *)
LoadFails ==
    /\ Idle
    /\ \E i \in 1..Len(readers) :
          /\ readers[i].state = "loading"
          /\ readers' = [readers EXCEPT ![i].state = "failed"]
    /\ UNCHANGED <<queue, channel, loads, opened, appVars, tabVars, navVars, halted, saved>>

Next == Handle \/ ClickMenu \/ ClickTab \/ OnLoad \/ LoadFails

(* The framework handles what was sent. *)
Spec == Init /\ [][Next]_vars /\ WF_vars(Handle)

-----------------------------------------------------------------------------
(* Saving panics only when every tab has been closed: whatever was closed  *)
(* and switched to before, current_tab is the index of a tab if there is   *)
(* one.                                                                    *)
PanicsOnlyWithoutTabs == halted = "panic" => tabs = <<>>

(* The closure never waits in recv for a name, which would stop the page:  *)
(* a reader that can still finish has sent its name, even after others     *)
(* finished out of order or failed.                                        *)
NeverBlocks == halted # "blocked"

(* A tab that was opened from a file shows the text of a file of that      *)
(* name, in whatever order the files were read.                            *)
TextsMatchNames ==
    \A i \in 1..Len(tabs) :
        \A f \in Files : tabs[i].text = f.text => tabs[i].name = f.name

(* While files finish in the order they were opened and none fails, every  *)
(* file that was read is opened in a tab.                                  *)
ReadInOrderIsOpened ==
    /\ \A i \in 1..Len(loads) : loads[i] = i
    /\ \A i \in 1..Len(readers) : readers[i].state # "failed"
    => opened = loads

(* When no message is left, a widget that is registered belongs to a tab   *)
(* of that name: App never sends to a widget that is gone, even when tabs  *)
(* of one name were opened and one of them closed.                         *)
LinksAreOpen ==
    Idle => \A n \in DOMAIN proofs :
                \E i \in 1..Len(tabs) : tabs[i].name = n /\ tabs[i].widget = proofs[n]

(* Unless two tabs had one name, what is saved is the proof of the tab     *)
(* that is shown, and nothing when that is an expression tree.             *)
SavesShownProof == clash \/ saved.widget = saved.shown

(* The blank proof of the start appears, in whatever order the components  *)
(* announce themselves.                                                    *)
FirstProofAppears == <>(\E i \in 1..Len(tabs) : tabs[i].name = Untitled(1))
=============================================================================
