--------------------------- MODULE AppTabsProofs ---------------------------
(***************************************************************************)
(* The window of the web application, for every set of files and every     *)
(* bound: what the messages in the queue promise about the tabs, the files *)
(* and the registered widgets.                                             *)
(***************************************************************************)
EXTENDS AppTabs, ListOpsProofs

(* A sequence, of whatever it holds.                                       *)
IsList(s) == s \in Seq(Entries(s))

(* Messages that are never in the queue together with another one: those   *)
(* of a click, and what is sent while they are handled.                    *)
Solo == {"FileSave", "GetProofFromCurrentTab", "GetCurrent", "NewExprTree", "FileOpen",
         "Switch", "Close", "CloseTab"}

(* A tab, or the message that asks for one.                                *)
Asks == {"CreateTab", "Create"}

QueueInv ==
    /\ IsList(queue)
    /\ (\E m \in Entries(queue) : m.msg \in Solo) => Len(queue) = 1
    /\ \A m \in Entries(queue) : m.msg \in Asks =>
          m = [msg |-> m.msg, name |-> m.name, registered |-> m.registered, text |-> m.text]

(* A tab that was clicked on is still there when the click is handled.     *)
TabsInv ==
    /\ IsList(tabs) /\ current \in Nat
    /\ current < Len(tabs) \/ tabs = <<>>
    /\ \A m \in Entries(queue) : m.msg \in {"Switch", "Close"} => m.idx \in 0 .. Len(tabs) - 1
    /\ PanicsOnlyWithoutTabs

(* Fewer readers can still finish than names are waiting.                  *)
Loading == {i \in DOMAIN readers : readers[i].state = "loading"}

ReadersInv ==
    /\ IsList(readers) /\ IsList(channel)
    /\ \A i \in DOMAIN readers :
          readers[i] = [name |-> readers[i].name, text |-> readers[i].text, state |-> readers[i].state]
    /\ Entries(channel) \subseteq DOMAIN readers
    /\ Cardinality(Loading) <= Len(channel)
    /\ NeverBlocks

(* Names and texts stay together, from the file to the tab.                *)
Matches(t) == \A f \in Files : t.text = f.text => t.name = f.name

TextsInv ==
    /\ \A m \in Entries(queue) : m.msg = "FileOpen" => m.file \in Files
    /\ \A i \in DOMAIN readers :
          \E f \in Files : readers[i].name = f.name /\ readers[i].text = f.text
    /\ \A m \in Entries(queue) : m.msg \in Asks => Matches(m)
    /\ \A t \in Entries(tabs) : Matches(t)

(* While files finish in order, the names that wait are those of the files *)
(* that have not finished.                                                 *)
InOrder ==
    /\ \A i \in 1..Len(loads) : loads[i] = i
    /\ \A i \in 1..Len(readers) : readers[i].state # "failed"

OrderInv ==
    /\ IsList(loads)
    /\ InOrder =>
          /\ opened = loads /\ Len(loads) <= Len(readers)
          /\ channel = [j \in 1 .. Len(readers) - Len(loads) |-> Len(loads) + j]

(* A widget that is registered, or about to be, has a tab, unless that tab *)
(* was just closed.                                                        *)
Closing(n) == \E m \in Entries(queue) : m.msg = "CloseTab" /\ m.name = n
HasTab(n, widget) == \E t \in Entries(tabs) : t.name = n /\ t.widget = widget

LinksInv ==
    /\ \A m \in Entries(queue) : m.msg \in Asks => m.registered \in {<<>>, m.name}
    /\ \A m \in Entries(queue) : m.msg = "RegisterProofName" => HasTab(m.name, m.widget)
    /\ \A n \in DOMAIN proofs : HasTab(n, proofs[n]) \/ Closing(n)

(* Unless names have clashed, the widget of a tab is registered under the  *)
(* tab's name, or about to be.                                             *)
Registers(t) ==
    \/ t.name \in DOMAIN proofs /\ proofs[t.name] = t.widget
    \/ \E m \in Entries(queue) : /\ m.msg = "RegisterProofName"
                                 /\ m.name = t.name /\ m.widget = t.widget

Tidy ==
    /\ \A i, j \in DOMAIN tabs : tabs[i].name = tabs[j].name => i = j
    /\ \A t \in Entries(tabs) : t.widget # NoWidget => Registers(t)
    /\ \A t \in Entries(tabs) : ~Closing(t.name)

SavesInv ==
    /\ clash \in BOOLEAN /\ made \in Nat
    /\ \A m \in Entries(queue) : m.msg = "RegisterProofName" => m.widget # NoWidget
    /\ \A n \in DOMAIN proofs : proofs[n] # NoWidget
    /\ \A m \in Entries(queue) : m.msg = "GetCurrent" => m.proofs = proofs
    /\ ~clash => Tidy
    /\ SavesShownProof

-----------------------------------------------------------------------------
(* Lists.                                                                  *)

(* Whatever the set a sequence is over, its own entries will do.           *)
LEMMA SeqIsList == ASSUME NEW T, NEW s \in Seq(T) PROVE IsList(s)
  BY DEF IsList, Entries

(* What is left when the first entry is taken.                             *)
LEMMA TailList ==
  ASSUME NEW s, IsList(s), s # <<>>
  PROVE  /\ Len(s) \in Nat /\ Len(s) > 0 /\ Len(Tail(s)) = Len(s) - 1
         /\ Head(s) = s[1] /\ Head(s) \in Entries(s)
         /\ IsList(Tail(s)) /\ Entries(s) = {Head(s)} \cup Entries(Tail(s))
         /\ Len(s) = 1 => Tail(s) = <<>>
  <1> DEFINE T == Entries(s)
  <1>1. s \in Seq(T)
    BY DEF IsList
  <1>2. Len(s) \in Nat /\ Len(s) > 0
    BY <1>1
  <1>3. /\ Tail(s) \in Seq(T) /\ Len(Tail(s)) = Len(s) - 1
        /\ \A i \in 1 .. Len(s) - 1 : Tail(s)[i] = s[i + 1]
    <2> HIDE DEF T
    <2> QED BY <1>1, <1>2
  <1>4. Head(s) = s[1] /\ DOMAIN s = 1 .. Len(s) /\ DOMAIN Tail(s) = 1 .. Len(s) - 1
    <2> HIDE DEF T
    <2> QED BY <1>1, <1>2, <1>3
  <1>5. Head(s) \in Entries(s)
    BY <1>2, <1>4 DEF Entries
  <1>6. Entries(s) = {Head(s)} \cup Entries(Tail(s))
    <2>1. ASSUME NEW i \in DOMAIN s PROVE s[i] \in {Head(s)} \cup Entries(Tail(s))
      <3>1. CASE i = 1
        BY <1>4, <3>1
      <3>2. CASE i # 1
        <4>1. i - 1 \in DOMAIN Tail(s) /\ Tail(s)[i - 1] = s[i]
          BY <1>2, <1>3, <1>4, <3>2
        <4> QED BY <4>1 DEF Entries
      <3> QED BY <3>1, <3>2
    <2>2. ASSUME NEW i \in DOMAIN Tail(s) PROVE Tail(s)[i] \in Entries(s)
      <3>1. i + 1 \in DOMAIN s /\ Tail(s)[i] = s[i + 1]
        BY <1>2, <1>3, <1>4
      <3> QED BY <3>1 DEF Entries
    <2> QED BY <1>5, <2>1, <2>2 DEF Entries
  <1>7. IsList(Tail(s))
    BY <1>3, SeqIsList
  <1>8. Len(s) = 1 => Tail(s) = <<>>
    <2> DEFINE u == Tail(s)
    <2>1. u \in Seq(T) /\ (Len(s) = 1 => Len(u) = 0)
      BY <1>3
    <2> HIDE DEF T, u
    <2>2. u # <<>> => Len(u) \in Nat \ {0}
      BY <2>1, EmptySeq
    <2>3. Len(s) = 1 => u = <<>>
      BY <2>1, <2>2
    <2> QED BY <2>3 DEF u
  <1> QED BY <1>2, <1>3, <1>4, <1>5, <1>6, <1>7, <1>8

(* One entry more at the end.                                              *)
LEMMA AppendList ==
  ASSUME NEW s, IsList(s), NEW v
  PROVE  /\ IsList(Append(s, v)) /\ Entries(Append(s, v)) = Entries(s) \cup {v}
         /\ Len(s) \in Nat /\ Len(Append(s, v)) = Len(s) + 1
         /\ \A i \in 1 .. Len(s) : Append(s, v)[i] = s[i]
         /\ Append(s, v)[Len(s) + 1] = v
         /\ DOMAIN s = 1 .. Len(s) /\ DOMAIN Append(s, v) = 1 .. Len(s) + 1
  <1> DEFINE T == Entries(s) \cup {v}
  <1>1. s \in Seq(T) /\ v \in T
    BY DEF IsList, Entries
  <1> HIDE DEF T
  <1>2. Append(s, v) \in Seq(T) /\ Entries(Append(s, v)) = Entries(s) \cup {v}
    BY <1>1, AppendEntries
  <1>3. IsList(Append(s, v))
    BY <1>2, SeqIsList
  <1> QED BY <1>1, <1>2, <1>3

(* The lists of one entry and of none.                                     *)
LEMMA SingleList ==
  ASSUME NEW v
  PROVE  /\ IsList(<<v>>) /\ Entries(<<v>>) = {v} /\ Len(<<v>>) = 1 /\ Head(<<v>>) = v
         /\ <<v>> # <<>> /\ IsList(<<>>) /\ Entries(<<>>) = {} /\ Len(<<>>) = 0
  <1>1. <<v>> \in Seq({v}) /\ <<>> \in Seq({v})
    OBVIOUS
  <1>2. IsList(<<v>>) /\ IsList(<<>>)
    BY <1>1, SeqIsList
  <1> QED BY <1>2 DEF Entries

(* One entry more at the beginning.                                        *)
LEMMA PrependList ==
  ASSUME NEW s, IsList(s), NEW v
  PROVE  LET w == <<v>> \o s
         IN  /\ IsList(w) /\ Entries(w) = Entries(s) \cup {v}
             /\ Len(s) \in Nat /\ Len(w) = Len(s) + 1
             /\ DOMAIN s = 1 .. Len(s) /\ DOMAIN w = 1 .. Len(s) + 1
             /\ w[1] = v /\ \A i \in 2 .. Len(s) + 1 : w[i] = s[i - 1]
             /\ w # <<>>
  <1> DEFINE T == Entries(s) \cup {v}
             w == <<v>> \o s
  <1>1. s \in Seq(T) /\ v \in T
    BY DEF IsList, Entries
  <1> HIDE DEF T
  <1>2. /\ w \in Seq(T) /\ Len(s) \in Nat /\ Len(w) = Len(s) + 1
        /\ DOMAIN s = 1 .. Len(s) /\ DOMAIN w = 1 .. Len(s) + 1
        /\ w[1] = v /\ \A i \in 2 .. Len(s) + 1 : w[i] = s[i - 1]
    BY <1>1
  <1> HIDE DEF w
  <1>3. IsList(w)
    BY <1>2, SeqIsList
  <1>4. Entries(w) = Entries(s) \cup {v}
    <2>1. ASSUME NEW i \in DOMAIN w PROVE w[i] \in Entries(s) \cup {v}
      <3>1. CASE i = 1
        BY <1>2, <3>1
      <3>2. CASE i # 1
        <4>1. i \in 2 .. Len(s) + 1 /\ i - 1 \in DOMAIN s /\ w[i] = s[i - 1]
          BY <1>2, <3>2
        <4> QED BY <4>1 DEF Entries
      <3> QED BY <3>1, <3>2
    <2>2. ASSUME NEW i \in DOMAIN s PROVE s[i] \in Entries(w)
      <3>1. i + 1 \in DOMAIN w /\ w[i + 1] = s[i]
        BY <1>2
      <3> QED BY <3>1 DEF Entries
    <2>3. v \in Entries(w)
      <3>1. 1 \in DOMAIN w /\ w[1] = v
        BY <1>2
      <3> QED BY <3>1 DEF Entries
    <2> QED BY <2>1, <2>2, <2>3 DEF Entries
  <1>5. w # <<>>
    BY <1>2
  <1> QED BY <1>2, <1>3, <1>4, <1>5 DEF w

(* The entries that stay when the one at position i is removed, and where  *)
(* they are then.                                                          *)
LEMMA RemoveAtList ==
  ASSUME NEW s, IsList(s), NEW i \in DOMAIN s
  PROVE  LET w == RemoveAt(s, i)
         IN  /\ IsList(w) /\ Len(s) \in Nat /\ Len(w) = Len(s) - 1
             /\ DOMAIN s = 1 .. Len(s) /\ DOMAIN w = 1 .. Len(s) - 1
             /\ \A k \in 1 .. Len(s) - 1 : w[k] = s[IF k < i THEN k ELSE k + 1]
             /\ Entries(w) = {s[k] : k \in DOMAIN s \ {i}}
  <1> DEFINE T == Entries(s)
             w == RemoveAt(s, i)
             a == SubSeq(s, 1, i - 1)
             b == SubSeq(s, i + 1, Len(s))
  <1>1. s \in Seq(T) /\ Len(s) \in Nat /\ DOMAIN s = 1 .. Len(s) /\ i \in 1 .. Len(s)
    BY DEF IsList
  <1> HIDE DEF T
  <1>2. w = a \o b
    BY DEF RemoveAt
  <1>3. a \in Seq(T) /\ Len(a) = i - 1 /\ \A k \in 1 .. i - 1 : a[k] = s[k]
    BY <1>1
  <1>4. b \in Seq(T) /\ Len(b) = Len(s) - i /\ \A k \in 1 .. Len(s) - i : b[k] = s[i + k]
    BY <1>1
  <1> HIDE DEF a, b, w
  <1>5. w \in Seq(T) /\ Len(w) = Len(s) - 1 /\ DOMAIN w = 1 .. Len(s) - 1
    <2>1. w \in Seq(T) /\ Len(w) = Len(a) + Len(b)
      BY <1>2, <1>3, <1>4, ConcatProperties, Zenon
    <2>2. Len(w) = Len(s) - 1
      BY <1>1, <1>3, <1>4, <2>1
    <2> QED BY <2>1, <2>2
  <1>6. ASSUME NEW k \in 1 .. Len(s) - 1 PROVE w[k] = s[IF k < i THEN k ELSE k + 1]
    <2>1. CASE k < i
      BY <1>1, <1>2, <1>3, <1>4, <2>1
    <2>2. CASE k >= i
      <3>1. w[k] = b[k - (i - 1)]
        BY <1>1, <1>2, <1>3, <1>4, <2>2, SMTT(30)
      <3>2. k - (i - 1) \in 1 .. Len(s) - i /\ i + (k - (i - 1)) = k + 1
        BY <1>1, <2>2
      <3> QED BY <1>1, <1>4, <2>2, <3>1, <3>2
    <2> QED BY <1>1, <2>1, <2>2
  <1>7. IsList(w)
    BY <1>5, SeqIsList
  <1>8. Entries(w) = {s[k] : k \in DOMAIN s \ {i}}
    <2>1. ASSUME NEW k \in DOMAIN w PROVE w[k] \in {s[j] : j \in DOMAIN s \ {i}}
      <3>1. (IF k < i THEN k ELSE k + 1) \in DOMAIN s \ {i}
        BY <1>1, <1>5
      <3> QED BY <1>5, <1>6, <3>1
    <2>2. ASSUME NEW j \in DOMAIN s \ {i} PROVE s[j] \in Entries(w)
      <3>1. CASE j < i
        <4>1. j \in DOMAIN w /\ w[j] = s[j]
          BY <1>1, <1>5, <1>6, <3>1
        <4> QED BY <4>1 DEF Entries
      <3>2. CASE j > i
        <4>1. j - 1 \in DOMAIN w /\ w[j - 1] = s[j]
          <5>1. j - 1 \in 1 .. Len(s) - 1 /\ ~(j - 1 < i) /\ j - 1 + 1 = j
            BY <1>1, <3>2
          <5> QED BY <1>5, <1>6, <5>1
        <4> QED BY <4>1 DEF Entries
      <3> QED BY <1>1, <3>1, <3>2
    <2> QED BY <2>1, <2>2 DEF Entries
  <1> QED BY <1>1, <1>5, <1>6, <1>7, <1>8 DEF w

-----------------------------------------------------------------------------
(* The queue. What a step leaves in it: everything but the message that is *)
(* handled, and at most the messages in M on top.                          *)

Passes(M) ==
    /\ QueueInv'
    /\ Head(queue) \in Entries(queue)
    /\ Entries(queue) \subseteq Entries(queue') \cup {Head(queue)}
    /\ Entries(queue') \subseteq Entries(queue) \cup M
    /\ Head(queue).msg \in Solo => Entries(queue) = {Head(queue)} /\ Entries(queue') \subseteq M

(* A request for a tab has all of its fields.                              *)
Formed(m) ==
    m.msg \in Asks =>
        m = [msg |-> m.msg, name |-> m.name, registered |-> m.registered, text |-> m.text]

(* A message is handled, and no other one is sent.                         *)
LEMMA HandledOnly ==
  ASSUME QueueInv, queue # <<>>, SendNone
  PROVE  Passes({})
  <1>1. IsList(queue)
    BY DEF QueueInv
  <1>2. /\ Len(queue) \in Nat /\ Len(queue) > 0 /\ Len(Tail(queue)) = Len(queue) - 1
        /\ Head(queue) \in Entries(queue) /\ IsList(Tail(queue))
        /\ Entries(queue) = {Head(queue)} \cup Entries(Tail(queue))
        /\ Len(queue) = 1 => Tail(queue) = <<>>
    BY <1>1, TailList
  <1>3. Entries(<<>>) = {}
    BY SingleList
  <1>4. queue' = Tail(queue)
    BY DEF SendNone
  <1>5. (\E m \in Entries(queue) : m.msg \in Solo) => Len(queue) = 1
    BY DEF QueueInv
  <1>6. \A m \in Entries(Tail(queue)) : m.msg \notin Solo
    BY <1>2, <1>3, <1>5
  <1>7. Head(queue).msg \in Solo => Entries(queue) = {Head(queue)} /\ Entries(queue') = {}
    BY <1>2, <1>3, <1>4, <1>5
  <1>8. QueueInv'
    BY <1>2, <1>4, <1>6 DEF QueueInv
  <1> QED BY <1>2, <1>4, <1>7, <1>8 DEF Passes

(* A message is handled, and another one is sent: one that stays alone if  *)
(* it has to.                                                              *)
LEMMA HandledAndSent ==
  ASSUME QueueInv, queue # <<>>, NEW m, Send(m), Formed(m),
         m.msg \in Solo => Head(queue).msg \in Solo
  PROVE  Passes({m}) /\ m \in Entries(queue')
  <1>1. IsList(queue)
    BY DEF QueueInv
  <1>2. /\ Len(queue) \in Nat /\ Len(queue) > 0 /\ Len(Tail(queue)) = Len(queue) - 1
        /\ Head(queue) \in Entries(queue) /\ IsList(Tail(queue))
        /\ Entries(queue) = {Head(queue)} \cup Entries(Tail(queue))
        /\ Len(queue) = 1 => Tail(queue) = <<>>
    BY <1>1, TailList
  <1>3. Entries(<<>>) = {}
    BY SingleList
  <1>4. queue' = Append(Tail(queue), m)
    BY DEF Send
  <1>5. (\E x \in Entries(queue) : x.msg \in Solo) => Len(queue) = 1
    BY DEF QueueInv
  <1>6. \A x \in Entries(Tail(queue)) : x.msg \notin Solo
    BY <1>2, <1>3, <1>5
  <1>7. /\ IsList(queue') /\ Entries(queue') = Entries(Tail(queue)) \cup {m}
        /\ Len(queue') = Len(queue)
    <2>1. /\ IsList(queue') /\ Entries(queue') = Entries(Tail(queue)) \cup {m}
          /\ Len(queue') = Len(Tail(queue)) + 1
      BY <1>2, <1>4, AppendList
    <2> QED BY <1>2, <2>1
  <1>8. Head(queue).msg \in Solo => Entries(queue) = {Head(queue)} /\ Entries(queue') = {m}
    BY <1>2, <1>3, <1>5, <1>7
  <1>9. (\E x \in Entries(queue') : x.msg \in Solo) => Len(queue') = 1
    BY <1>2, <1>5, <1>6, <1>7
  <1>10. \A x \in Entries(queue') : Formed(x)
    BY <1>2, <1>7 DEF QueueInv, Formed
  <1>11. QueueInv'
    BY <1>7, <1>9, <1>10 DEF QueueInv, Formed
  <1> QED BY <1>2, <1>7, <1>8, <1>11 DEF Passes

(* A browser event sends a message of its own, or none.                    *)
LEMMA SentAlone ==
  ASSUME NEW m, Formed(m), queue' = <<m>>
  PROVE  QueueInv' /\ Entries(queue') = {m}
  <1>1. IsList(queue') /\ Entries(queue') = {m} /\ Len(queue') = 1
    BY SingleList
  <1> QED BY <1>1 DEF QueueInv, Formed

(* What each handler leaves in the queue.                                  *)
LEMMA Traffic ==
  ASSUME QueueInv
  PROVE  /\ NavBarInit => Passes({Msg("FileNew")})
         /\ TabbedContainerInit => Passes({})
         /\ CreateTabHandled => Passes({[Head(queue) EXCEPT !.msg = "Create"]})
         /\ CloseTab => Passes({})
         /\ Registered => Passes({})
         /\ GetProofFromCurrentTab => Passes({[msg |-> "GetCurrent", proofs |-> proofs]})
         /\ Create => Passes({RegisterProofName(Head(queue).registered, made + 1)})
         /\ Close => Passes({[msg |-> "CloseTab", name |-> tabs[Head(queue).idx + 1].name]})
         /\ Switch => Passes({})
         /\ GetCurrent => Passes({})
         /\ FileNew => Passes({CreateTab(Untitled(nextTab), Untitled(nextTab), Untitled(0))})
         /\ NewExprTree => Passes({CreateTab(ExprTree(nextTab), <<>>, ExprTree(0))})
         /\ FileSave => Passes({Msg("GetProofFromCurrentTab")})
         /\ FileOpen => Passes({})
  <1>0. ASSUME NEW M, Passes({}) PROVE Passes(M)
    BY <1>0 DEF Passes
  <1>1. ASSUME NavBarInit PROVE Passes({Msg("FileNew")})
    <2> DEFINE m == Msg("FileNew")
    <2>1. Formed(m) /\ m.msg \notin Solo
      BY DEF Formed, Msg, Solo, Asks
    <2> HIDE DEF m
    <2> QED BY <1>1, <2>1, HandledAndSent DEF NavBarInit, Handling, m
  <1>2. ASSUME TabbedContainerInit PROVE Passes({})
    BY <1>2, HandledOnly DEF TabbedContainerInit, Handling
  <1>3. ASSUME CreateTabHandled PROVE Passes({[Head(queue) EXCEPT !.msg = "Create"]})
    <2> DEFINE h == Head(queue)
               m == [h EXCEPT !.msg = "Create"]
    <2>1. queue # <<>> /\ h.msg = "CreateTab" /\ (Send(m) \/ SendNone)
      BY <1>3 DEF CreateTabHandled, Handling
    <2>2. h \in Entries(queue)
      BY <2>1, TailList DEF QueueInv
    <2>3. h = [msg |-> "CreateTab", name |-> h.name, registered |-> h.registered, text |-> h.text]
      BY <2>1, <2>2 DEF QueueInv, Asks
    <2> HIDE DEF h
    <2>4. m = [msg |-> "Create", name |-> h.name, registered |-> h.registered, text |-> h.text]
      BY <2>3
    <2>5. Formed(m) /\ m.msg \notin Solo
      BY <2>4 DEF Formed, Solo
    <2> HIDE DEF m
    <2>6. Passes({m})
      BY <1>0, <2>1, <2>5, HandledAndSent, HandledOnly
    <2> QED BY <2>6 DEF m, h
  <1>4. ASSUME CloseTab PROVE Passes({})
    BY <1>4, HandledOnly DEF CloseTab, Handling
  <1>5. ASSUME Registered PROVE Passes({})
    BY <1>5, HandledOnly DEF Registered, Handling
  <1>6. ASSUME GetProofFromCurrentTab
        PROVE  Passes({[msg |-> "GetCurrent", proofs |-> proofs]})
    <2> DEFINE m == [msg |-> "GetCurrent", proofs |-> proofs]
    <2>1. /\ queue # <<>> /\ Head(queue).msg = "GetProofFromCurrentTab"
          /\ Send(m) \/ SendNone
      BY <1>6 DEF GetProofFromCurrentTab, Handling
    <2>2. Formed(m) /\ Head(queue).msg \in Solo
      BY <2>1 DEF Formed, Solo, Asks
    <2> HIDE DEF m
    <2>3. Passes({m})
      BY <1>0, <2>1, <2>2, HandledAndSent, HandledOnly
    <2> QED BY <2>3 DEF m
  <1>7. ASSUME Create PROVE Passes({RegisterProofName(Head(queue).registered, made + 1)})
    <2> DEFINE m == RegisterProofName(Head(queue).registered, made + 1)
    <2>1. queue # <<>> /\ (Send(m) \/ SendNone)
      BY <1>7 DEF Create, Handling
    <2>2. Formed(m) /\ m.msg \notin Solo
      BY DEF Formed, Solo, Asks, RegisterProofName
    <2> HIDE DEF m
    <2>3. Passes({m})
      BY <1>0, <2>1, <2>2, HandledAndSent, HandledOnly
    <2> QED BY <2>3 DEF m
  <1>8. ASSUME Close
        PROVE  Passes({[msg |-> "CloseTab", name |-> tabs[Head(queue).idx + 1].name]})
    <2> DEFINE m == [msg |-> "CloseTab", name |-> tabs[Head(queue).idx + 1].name]
    <2>1. queue # <<>> /\ Head(queue).msg = "Close" /\ Send(m)
      BY <1>8 DEF Close, Handling
    <2>2. Formed(m) /\ Head(queue).msg \in Solo
      BY <2>1 DEF Formed, Solo, Asks
    <2> HIDE DEF m
    <2>3. Passes({m})
      BY <2>1, <2>2, HandledAndSent
    <2> QED BY <2>3 DEF m
  <1>9. ASSUME Switch PROVE Passes({})
    BY <1>9, HandledOnly DEF Switch, Handling
  <1>10. ASSUME GetCurrent PROVE Passes({})
    BY <1>10, HandledOnly DEF GetCurrent, Handling
  <1>11. ASSUME FileNew
         PROVE  Passes({CreateTab(Untitled(nextTab), Untitled(nextTab), Untitled(0))})
    <2> DEFINE m == CreateTab(Untitled(nextTab), Untitled(nextTab), Untitled(0))
    <2>1. Formed(m) /\ m.msg \notin Solo
      BY DEF Formed, CreateTab, Solo, Asks
    <2> HIDE DEF m
    <2> QED BY <1>11, <2>1, HandledAndSent DEF FileNew, Handling, m
  <1>12. ASSUME NewExprTree PROVE Passes({CreateTab(ExprTree(nextTab), <<>>, ExprTree(0))})
    <2> DEFINE m == CreateTab(ExprTree(nextTab), <<>>, ExprTree(0))
    <2>1. Formed(m) /\ m.msg \notin Solo
      BY DEF Formed, CreateTab, Solo, Asks
    <2> HIDE DEF m
    <2> QED BY <1>12, <2>1, HandledAndSent DEF NewExprTree, Handling, m
  <1>13. ASSUME FileSave PROVE Passes({Msg("GetProofFromCurrentTab")})
    <2> DEFINE m == Msg("GetProofFromCurrentTab")
    <2>1. queue # <<>> /\ Head(queue).msg = "FileSave" /\ Send(m)
      BY <1>13 DEF FileSave, Handling
    <2>2. Formed(m) /\ Head(queue).msg \in Solo
      BY <2>1 DEF Formed, Msg, Solo, Asks
    <2> HIDE DEF m
    <2>3. Passes({m})
      BY <2>1, <2>2, HandledAndSent
    <2> QED BY <2>3 DEF m
  <1>14. ASSUME FileOpen PROVE Passes({})
    BY <1>14, HandledOnly DEF FileOpen, Handling
  <1> QED
    BY <1>1, <1>2, <1>3, <1>4, <1>5, <1>6, <1>7, <1>8, <1>9, <1>10, <1>11, <1>12, <1>13, <1>14

(* The messages that an event of the browser puts into the empty queue.    *)
Asked(m) ==
    /\ channel # <<>>
    /\ m = CreateTab(readers[Taken].name, readers[Taken].name, readers[Taken].text)

Menu == {"FileNew", "NewExprTree", "FileSave", "FileOpen"}

(* The browser's events come when the queue is empty.                      *)
LEMMA Browser ==
  /\ ClickMenu => /\ Entries(queue) = {} /\ QueueInv'
                  /\ \A m \in Entries(queue') : /\ m.msg \in Menu
                                                /\ m.msg = "FileOpen" => m.file \in Files
  /\ ClickTab => /\ Entries(queue) = {} /\ QueueInv'
                 /\ \A m \in Entries(queue') : /\ m.msg \in {"Switch", "Close"}
                                               /\ m.idx \in 0 .. Len(tabs) - 1
  /\ ClickMenu \/ ClickTab =>
        UNCHANGED <<appVars, tabVars, navVars, fileVars, halted>> /\ saved' = NothingSaved
  /\ OnLoad => /\ Entries(queue) = {} /\ QueueInv'
               /\ \A m \in Entries(queue') : Asked(m)
  /\ LoadFails => Entries(queue) = {} /\ QueueInv' /\ Entries(queue') = {}
  <1>0. queue = <<>> => Entries(queue) = {} /\ QueueInv
    BY SingleList DEF QueueInv
  <1>1. ASSUME ClickMenu
        PROVE  /\ Entries(queue) = {} /\ QueueInv'
               /\ \A m \in Entries(queue') : /\ m.msg \in Menu
                                             /\ m.msg = "FileOpen" => m.file \in Files
               /\ UNCHANGED <<appVars, tabVars, navVars, fileVars, halted>> /\ saved' = NothingSaved
    <2>1. PICK m : /\ Click(m) /\ m.msg \in Menu
                   /\ m.msg = "FileOpen" => m.file \in Files
      <3>1. CASE \E x \in {"FileNew", "NewExprTree"} : Click(Msg(x))
        <4>1. PICK x \in {"FileNew", "NewExprTree"} : Click(Msg(x))
          BY <3>1
        <4>2. Msg(x).msg \in Menu /\ Msg(x).msg # "FileOpen"
          BY DEF Msg, Menu
        <4> QED BY <4>1, <4>2
      <3>2. CASE Click(Msg("FileSave"))
        <4>2. Msg("FileSave").msg \in Menu /\ Msg("FileSave").msg # "FileOpen"
          BY DEF Msg, Menu
        <4> QED BY <3>2, <4>2
      <3>3. CASE \E f \in Files : Click([msg |-> "FileOpen", file |-> f])
        <4>1. PICK f \in Files : Click([msg |-> "FileOpen", file |-> f])
          BY <3>3
        <4> DEFINE y == [msg |-> "FileOpen", file |-> f]
        <4>2. y.msg \in Menu /\ y.file \in Files
          BY DEF Menu
        <4>3. Click(y)
          BY <4>1
        <4> HIDE DEF y
        <4> QED BY <4>2, <4>3
      <3> QED BY <1>1, <3>1, <3>2, <3>3 DEF ClickMenu
    <2>2. Formed(m) /\ queue' = <<m>> /\ queue = <<>>
      BY <2>1 DEF Formed, Menu, Asks, Click, Idle
    <2>3. QueueInv' /\ Entries(queue') = {m}
      BY <2>2, SentAlone
    <2> QED BY <1>0, <2>1, <2>2, <2>3 DEF Click
  <1>2. ASSUME ClickTab
        PROVE  /\ Entries(queue) = {} /\ QueueInv'
               /\ \A m \in Entries(queue') : /\ m.msg \in {"Switch", "Close"}
                                             /\ m.idx \in 0 .. Len(tabs) - 1
               /\ UNCHANGED <<appVars, tabVars, navVars, fileVars, halted>> /\ saved' = NothingSaved
    <2>1. PICK k \in {"Switch", "Close"}, i \in 0 .. Len(tabs) - 1 : Click([msg |-> k, idx |-> i])
      BY <1>2 DEF ClickTab
    <2> DEFINE m == [msg |-> k, idx |-> i]
    <2>2. Click(m) /\ Formed(m) /\ m.msg = k /\ m.idx = i
      BY <2>1 DEF Formed, Asks
    <2> HIDE DEF m
    <2>3. queue' = <<m>> /\ queue = <<>>
      BY <2>2 DEF Click, Idle
    <2>4. QueueInv' /\ Entries(queue') = {m}
      BY <2>2, <2>3, SentAlone
    <2> QED BY <1>0, <2>2, <2>3, <2>4 DEF Click
  <1>3. ASSUME OnLoad
        PROVE  /\ Entries(queue) = {} /\ QueueInv'
               /\ \A m \in Entries(queue') : Asked(m)
    <2> DEFINE m == CreateTab(readers[Taken].name, readers[Taken].name, readers[Taken].text)
    <2>1. queue = <<>> /\ (queue' = queue \/ (channel # <<>> /\ queue' = <<m>>))
      BY <1>3 DEF OnLoad, Idle, TextOf
    <2>2. Formed(m)
      BY DEF Formed, Asks, CreateTab
    <2>3. channel # <<>> => Asked(m)
      BY DEF Asked
    <2> HIDE DEF m
    <2>4. CASE queue' = queue
      <3>1. queue' = <<>> => Entries(queue') = {} /\ QueueInv'
        BY SingleList DEF QueueInv
      <3> QED BY <1>0, <2>1, <2>4, <3>1
    <2>5. CASE channel # <<>> /\ queue' = <<m>>
      BY <1>0, <2>1, <2>2, <2>3, <2>5, SentAlone
    <2> QED BY <2>1, <2>4, <2>5
  <1>4. ASSUME LoadFails PROVE Entries(queue) = {} /\ QueueInv' /\ Entries(queue') = {}
    <2>1. queue = <<>> /\ queue' = queue
      BY <1>4 DEF LoadFails, Idle
    <2>2. queue' = <<>> => Entries(queue') = {} /\ QueueInv'
      BY SingleList DEF QueueInv
    <2> QED BY <1>0, <2>1, <2>2
  <1> QED BY <1>1, <1>2, <1>3, <1>4

(* The messages of the start.                                              *)
LEMMA QueueInit ==
  ASSUME Init
  PROVE  /\ QueueInv
         /\ \A m \in Entries(queue) : \/ m.msg \in {"NavBarInit", "TabbedContainerInit"}
                                      \/ m = RegisterProofName(Example, 1)
  <1> DEFINE a == Msg("NavBarInit")
             b == Msg("TabbedContainerInit")
             c == RegisterProofName(Example, 1)
  <1>1. queue \in {<<a, b, c>>, <<b, a, c>>, <<b, c, a>>}
    BY DEF Init
  <1>2. /\ a.msg = "NavBarInit" /\ b.msg = "TabbedContainerInit"
        /\ c.msg = "RegisterProofName"
    BY DEF Msg, RegisterProofName
  <1> HIDE DEF a, b, c
  <1>3. queue \in Seq({a, b, c}) /\ Entries(queue) \subseteq {a, b, c}
    <2>1. \A x, y, z : <<x, y, z>> \in Seq({x, y, z}) /\ Entries(<<x, y, z>>) = {x, y, z}
      BY DEF Entries
    <2>2. {b, a, c} = {a, b, c} /\ {b, c, a} = {a, b, c}
      OBVIOUS
    <2>3. /\ Entries(<<a, b, c>>) = {a, b, c} /\ <<a, b, c>> \in Seq({a, b, c})
          /\ Entries(<<b, a, c>>) = {b, a, c} /\ <<b, a, c>> \in Seq({b, a, c})
          /\ Entries(<<b, c, a>>) = {b, c, a} /\ <<b, c, a>> \in Seq({b, c, a})
      BY <2>1, Zenon
    <2>4. \/ queue = <<a, b, c>>
          \/ queue = <<b, a, c>>
          \/ queue = <<b, c, a>>
      BY <1>1
    <2> QED BY <2>2, <2>3, <2>4, Zenon
  <1>4. IsList(queue)
    BY <1>3, SeqIsList
  <1>5. \A m \in Entries(queue) : m.msg \notin Solo /\ m.msg \notin Asks
    BY <1>2, <1>3 DEF Solo, Asks
  <1>6. QueueInv
    BY <1>4, <1>5 DEF QueueInv
  <1> QED BY <1>2, <1>3, <1>6 DEF c

(* The queue keeps its shape.                                              *)
LEMMA QueueStep ==
  ASSUME QueueInv, [Next]_vars
  PROVE  QueueInv'
  <1>1. CASE Handle
    BY <1>1, Traffic DEF Handle, Passes
  <1>2. CASE ClickMenu \/ ClickTab \/ OnLoad \/ LoadFails
    BY <1>2, Browser
  <1>3. CASE UNCHANGED vars
    BY <1>3 DEF vars, QueueInv
  <1> QED BY <1>1, <1>2, <1>3 DEF Next

-----------------------------------------------------------------------------
(* The tabs.                                                               *)

(* The one tab of the start is shown.                                      *)
LEMMA TabsInit ==
  ASSUME Init
  PROVE  TabsInv
  <1>1. tabs = <<[name |-> Example, widget |-> 1, text |-> Example]>> /\ current = 0 /\ halted = "no"
    BY DEF Init
  <1>2. IsList(tabs) /\ Len(tabs) = 1
    BY <1>1, SingleList
  <1>3. \A m \in Entries(queue) : m.msg \notin {"Switch", "Close"}
    BY QueueInit DEF RegisterProofName
  <1> QED BY <1>1, <1>2, <1>3 DEF TabsInv, PanicsOnlyWithoutTabs

(* Steps that neither change the tabs nor come from one.                   *)
LEMMA TabsKept ==
  ASSUME TabsInv, UNCHANGED <<tabs, current>>,
         halted' = "panic" => halted = "panic" \/ tabs = <<>>,
         \A m \in Entries(queue') :
            m.msg \in {"Switch", "Close"} => m \in Entries(queue) \/ m.idx \in 0 .. Len(tabs) - 1
  PROVE  TabsInv'
  BY DEF TabsInv, PanicsOnlyWithoutTabs

(* A tab that was clicked on is one of the tabs, and some tab is shown     *)
(* when there is one.                                                      *)
LEMMA TabsStep ==
  ASSUME QueueInv, TabsInv, [Next]_vars
  PROVE  TabsInv'
  <1> USE DEF tabVars
  <1>1. CASE NavBarInit
    BY <1>1, Traffic, TabsKept DEF NavBarInit, Passes, Msg
  <1>2. CASE TabbedContainerInit
    BY <1>2, Traffic, TabsKept DEF TabbedContainerInit, Passes
  <1>3. CASE CreateTabHandled
    <2> DEFINE h == Head(queue)
               m == [h EXCEPT !.msg = "Create"]
    <2>1. Passes({m}) /\ h.msg = "CreateTab"
      BY <1>3, Traffic DEF CreateTabHandled, Handling
    <2>2. h = [msg |-> h.msg, name |-> h.name, registered |-> h.registered, text |-> h.text]
      BY <2>1 DEF QueueInv, Asks, Passes
    <2> HIDE DEF h
    <2>3. m.msg = "Create"
      BY <2>2
    <2> HIDE DEF m
    <2> QED BY <1>3, <2>1, <2>3, TabsKept DEF CreateTabHandled, Passes
  <1>4. CASE CloseTab
    BY <1>4, Traffic, TabsKept DEF CloseTab, Passes
  <1>5. CASE Registered
    BY <1>5, Traffic, TabsKept DEF Registered, Passes
  <1>6. CASE GetProofFromCurrentTab
    BY <1>6, Traffic, TabsKept DEF GetProofFromCurrentTab, Passes
  <1>7. CASE Create
    <2>1. PICK t : tabs' = <<t>> \o tabs
      BY <1>7 DEF Create
    <2>2. IsList(tabs')
      BY <2>1, PrependList DEF TabsInv
    <2>3. Len(tabs') = Len(tabs) + 1 /\ Len(tabs) \in Nat
      BY <2>1, PrependList DEF TabsInv
    <2>4. halted' = "no" /\ current' = 0
      BY <1>7 DEF Create, Handling
    <2>5. ASSUME NEW m \in Entries(queue'), m.msg \in {"Switch", "Close"}
          PROVE  m.idx \in 0 .. Len(tabs') - 1
      <3>1. m \in Entries(queue)
        BY <1>7, <2>5, Traffic DEF Passes, RegisterProofName
      <3>2. m.idx \in 0 .. Len(tabs) - 1
        BY <2>5, <3>1 DEF TabsInv
      <3> QED BY <2>3, <3>2
    <2> QED BY <2>2, <2>3, <2>4, <2>5 DEF TabsInv, PanicsOnlyWithoutTabs
  <1>8. CASE Close
    <2> DEFINE i == Head(queue).idx + 1
    <2>1. /\ Head(queue).msg = "Close" /\ tabs' = RemoveAt(tabs, i)
          /\ current' = InBounds(current, Len(tabs) - 1) /\ halted' = "no"
      BY <1>8 DEF Close, Handling
    <2>2. Passes({[msg |-> "CloseTab", name |-> tabs[i].name]})
      BY <1>8, Traffic
    <2>3. Head(queue) \in Entries(queue)
      BY <2>2 DEF Passes
    <2>4. IsList(tabs) /\ DOMAIN tabs = 1 .. Len(tabs) /\ Len(tabs) \in Nat
      BY DEF TabsInv, IsList
    <2>5. Head(queue).idx \in 0 .. Len(tabs) - 1
      BY <2>1, <2>3 DEF TabsInv
    <2>6. i \in DOMAIN tabs
      BY <2>4, <2>5
    <2> HIDE DEF i
    <2>7. IsList(tabs') /\ Len(tabs') = Len(tabs) - 1
      BY <2>1, <2>4, <2>6, RemoveAtList
    <2>8. current' \in Nat /\ (current' < Len(tabs') \/ Len(tabs') = 0)
      BY <2>1, <2>4, <2>7, <2>6 DEF TabsInv, InBounds
    <2>9. Len(tabs') = 0 => tabs' = <<>>
      <3> DEFINE w == tabs'
      <3>1. w \in Seq(Entries(w))
        BY <2>7 DEF IsList
      <3> HIDE DEF w
      <3>2. w # <<>> => Len(w) \in Nat \ {0}
        BY <3>1, EmptySeq
      <3> QED BY <3>2 DEF w
    <2>10. ASSUME NEW m \in Entries(queue') PROVE m.msg \notin {"Switch", "Close"}
      BY <2>1, <2>2 DEF Passes, Solo
    <2> QED BY <2>1, <2>7, <2>8, <2>9, <2>10 DEF TabsInv, PanicsOnlyWithoutTabs
  <1>9. CASE Switch
    <2>1. /\ Head(queue).msg = "Switch" /\ UNCHANGED tabs
          /\ current' = Head(queue).idx /\ halted' = "no"
      BY <1>9 DEF Switch, Handling
    <2>2. Passes({})
      BY <1>9, Traffic
    <2>3. Head(queue) \in Entries(queue) /\ Entries(queue') = {}
      BY <2>1, <2>2 DEF Passes, Solo
    <2>4. IsList(tabs) /\ Len(tabs) \in Nat
      BY DEF TabsInv, IsList
    <2>5. current' \in 0 .. Len(tabs) - 1
      BY <2>1, <2>3 DEF TabsInv
    <2>6. current' \in Nat /\ current' < Len(tabs)
      BY <2>4, <2>5
    <2> QED BY <2>1, <2>3, <2>4, <2>6 DEF TabsInv, PanicsOnlyWithoutTabs
  <1>10. CASE GetCurrent
    <2>1. halted' = "panic" => ~(current < Len(tabs))
      BY <1>10 DEF GetCurrent, Handling
    <2>2. halted' = "panic" => tabs = <<>>
      BY <2>1 DEF TabsInv
    <2> QED BY <1>10, <2>2, Traffic, TabsKept DEF GetCurrent, Passes
  <1>11. CASE FileNew
    BY <1>11, Traffic, TabsKept DEF FileNew, Passes, CreateTab
  <1>12. CASE NewExprTree
    BY <1>12, Traffic, TabsKept DEF NewExprTree, Passes, CreateTab
  <1>13. CASE FileSave
    BY <1>13, Traffic, TabsKept DEF FileSave, Passes, Msg
  <1>14. CASE FileOpen
    BY <1>14, Traffic, TabsKept DEF FileOpen, Passes
  <1>15. CASE ClickMenu
    <2>1. UNCHANGED <<tabs, current, halted>>
      BY <1>15, Browser
    <2>2. \A m \in Entries(queue') : m.msg \in Menu
      BY <1>15, Browser
    <2>3. \A m \in Entries(queue') : m.msg \notin {"Switch", "Close"}
      BY <2>2 DEF Menu
    <2> QED BY <2>1, <2>3, TabsKept
  <1>16. CASE ClickTab
    BY <1>16, Browser, TabsKept
  <1>17. CASE OnLoad
    <2>1. UNCHANGED <<tabs, current>> /\ halted' # "panic"
      BY <1>17 DEF OnLoad, Idle
    <2>2. \A m \in Entries(queue') : m.msg \notin {"Switch", "Close"}
      BY <1>17, Browser DEF Asked, CreateTab
    <2> QED BY <2>1, <2>2, TabsKept
  <1>18. CASE LoadFails
    BY <1>18, Browser, TabsKept DEF LoadFails
  <1>19. CASE UNCHANGED vars
    BY <1>19, TabsKept DEF vars
  <1> QED
    BY <1>1, <1>2, <1>3, <1>4, <1>5, <1>6, <1>7, <1>8, <1>9, <1>10, <1>11, <1>12, <1>13, <1>14,
       <1>15, <1>16, <1>17, <1>18, <1>19 DEF Next, Handle

(* Saving panics only when every tab has been closed: TabbedContainer      *)
(* keeps current_tab in range whatever tabs are closed and switched to,    *)
(* with any number of files and of tabs.                                   *)
THEOREM TabsNeverOutOfRange == Spec => []PanicsOnlyWithoutTabs
  <1>1. Init => QueueInv /\ TabsInv
    BY QueueInit, TabsInit
  <1>2. QueueInv /\ TabsInv /\ [Next]_vars => QueueInv' /\ TabsInv'
    BY QueueStep, TabsStep
  <1>3. TabsInv => PanicsOnlyWithoutTabs
    BY DEF TabsInv
  <1> QED BY <1>1, <1>2, <1>3, PTL DEF Spec

-----------------------------------------------------------------------------
(* The files.                                                              *)

(* A reader settles: it is no longer loading, and nothing else changes.    *)
LEMMA ReaderSettles ==
  ASSUME ReadersInv, NEW i \in 1 .. Len(readers), readers[i].state = "loading",
         NEW s \in {"done", "failed"}, readers' = [readers EXCEPT ![i].state = s]
  PROVE  /\ IsList(readers') /\ Len(readers') = Len(readers) /\ DOMAIN readers' = DOMAIN readers
         /\ \A k \in DOMAIN readers :
               readers'[k] = [name |-> readers[k].name, text |-> readers[k].text,
                              state |-> IF k = i THEN s ELSE readers[k].state]
         /\ Cardinality(Loading) \in Nat /\ Cardinality(Loading) > 0
         /\ Cardinality(Loading') = Cardinality(Loading) - 1
  <1> DEFINE r == [readers[i] EXCEPT !.state = s]
             T == Entries(readers) \cup {r}
  <1>1. Len(readers) \in Nat /\ DOMAIN readers = 1 .. Len(readers) /\ readers \in Seq(T)
    BY DEF ReadersInv, IsList, Entries
  <1>2. r = [name |-> readers[i].name, text |-> readers[i].text, state |-> s]
    BY <1>1 DEF ReadersInv
  <1>3. readers' = [readers EXCEPT ![i] = r]
    OBVIOUS
  <1>4. r \in T
    OBVIOUS
  <1> HIDE DEF r, T
  <1>5. readers' \in Seq(T) /\ Len(readers') = Len(readers) /\ DOMAIN readers' = DOMAIN readers
    BY <1>1, <1>3, <1>4
  <1>6. IsList(readers')
    BY <1>5, SeqIsList
  <1>7. ASSUME NEW k \in DOMAIN readers
        PROVE  readers'[k] = [name |-> readers[k].name, text |-> readers[k].text,
                              state |-> IF k = i THEN s ELSE readers[k].state]
    <2>1. CASE k = i
      BY <1>1, <1>2, <1>3, <2>1
    <2>2. CASE k # i
      <3>1. readers'[k] = readers[k]
        BY <1>1, <1>3, <2>2
      <3>2. readers[k] = [name |-> readers[k].name, text |-> readers[k].text,
                          state |-> readers[k].state]
        BY DEF ReadersInv
      <3> QED BY <2>2, <3>1, <3>2
    <2> QED BY <2>1, <2>2
  <1>8. Loading' = Loading \ {i} /\ i \in Loading
    <2>1. \A k \in DOMAIN readers : readers'[k].state = IF k = i THEN s ELSE readers[k].state
      BY <1>7
    <2> QED BY <1>1, <1>5, <2>1 DEF Loading
  <1>9. IsFiniteSet(Loading)
    <2>1. IsFiniteSet(1 .. Len(readers))
      BY <1>1, FS_Interval
    <2>2. Loading \subseteq 1 .. Len(readers)
      BY <1>1 DEF Loading
    <2> QED BY <2>1, <2>2, FS_Subset
  <1>10. /\ Cardinality(Loading) \in Nat
         /\ Cardinality(Loading \ {i}) = Cardinality(Loading) - 1
    BY <1>8, <1>9, FS_CardinalityType, FS_RemoveElement
  <1>11. Cardinality(Loading) > 0
    <2>1. Loading # {}
      BY <1>8
    <2>2. Cardinality(Loading) # 0
      BY <1>9, <2>1, FS_EmptySet
    <2> QED BY <1>10, <2>2
  <1> QED BY <1>5, <1>6, <1>7, <1>8, <1>10, <1>11

(* A file is opened: one more reader, which is loading.                    *)
LEMMA ReaderAdded ==
  ASSUME ReadersInv, FileOpen
  PROVE  LET f == Head(queue).file
             n == Len(readers) + 1
         IN  /\ IsList(readers') /\ Len(readers) \in Nat /\ Len(readers') = n
             /\ DOMAIN readers = 1 .. Len(readers) /\ DOMAIN readers' = 1 .. n
             /\ \A k \in DOMAIN readers : readers'[k] = readers[k]
             /\ readers'[n] = [name |-> f.name, text |-> f.text, state |-> "loading"]
             /\ channel' = Append(channel, n)
             /\ Cardinality(Loading) \in Nat /\ Cardinality(Loading') = Cardinality(Loading) + 1
  <1> DEFINE f == Head(queue).file
             n == Len(readers) + 1
             r == [name |-> f.name, text |-> f.text, state |-> "loading"]
  <1>1. readers' = Append(readers, r) /\ channel' = Append(channel, Len(readers'))
    BY DEF FileOpen, Sent
  <1>2. r.state = "loading"
    OBVIOUS
  <1> HIDE DEF r
  <1>3. /\ IsList(readers') /\ Len(readers) \in Nat /\ Len(readers') = n
        /\ DOMAIN readers = 1 .. Len(readers) /\ DOMAIN readers' = 1 .. n
        /\ \A k \in DOMAIN readers : readers'[k] = readers[k]
        /\ readers'[n] = r
    BY <1>1, AppendList DEF ReadersInv
  <1>4. n \notin Loading /\ Loading' = Loading \cup {n}
    BY <1>2, <1>3 DEF Loading
  <1>5. IsFiniteSet(Loading)
    <2>1. IsFiniteSet(1 .. Len(readers))
      BY <1>3, FS_Interval
    <2>2. Loading \subseteq 1 .. Len(readers)
      BY <1>3 DEF Loading
    <2> QED BY <2>1, <2>2, FS_Subset
  <1> HIDE DEF n
  <1>6. /\ Cardinality(Loading) \in Nat
        /\ Cardinality(Loading \cup {n}) = Cardinality(Loading) + 1
    BY <1>4, <1>5, FS_CardinalityType, FS_AddElement
  <1> QED BY <1>1, <1>3, <1>4, <1>6 DEF n, r

(* No file is open at the start.                                           *)
LEMMA ReadersInit ==
  ASSUME Init
  PROVE  ReadersInv
  <1>1. readers = <<>> /\ channel = <<>> /\ halted = "no"
    BY DEF Init
  <1>2. IsList(<<>>) /\ Entries(<<>>) = {} /\ Len(<<>>) = 0
    BY SingleList
  <1>3. Loading = {} /\ DOMAIN readers = {}
    BY <1>1 DEF Loading
  <1>4. Cardinality(Loading) = 0
    BY <1>3, FS_EmptySet
  <1> QED BY <1>1, <1>2, <1>3, <1>4 DEF ReadersInv, NeverBlocks

(* A reader that can still finish has its name, or another one, waiting.   *)
LEMMA ReadersStep ==
  ASSUME ReadersInv, [Next]_vars
  PROVE  ReadersInv'
  <1>1. CASE UNCHANGED <<readers, channel>> /\ (halted' = "blocked" => halted = "blocked")
    BY <1>1 DEF ReadersInv, NeverBlocks, Loading
  <1>2. CASE FileOpen
    <2> DEFINE n == Len(readers) + 1
               f == Head(queue).file
    <2>1. /\ IsList(readers') /\ Len(readers) \in Nat
          /\ DOMAIN readers = 1 .. Len(readers) /\ DOMAIN readers' = 1 .. n
          /\ \A k \in DOMAIN readers : readers'[k] = readers[k]
          /\ readers'[n] = [name |-> f.name, text |-> f.text, state |-> "loading"]
          /\ channel' = Append(channel, n)
          /\ Cardinality(Loading) \in Nat /\ Cardinality(Loading') = Cardinality(Loading) + 1
      BY <1>2, ReaderAdded
    <2>2. /\ IsList(channel') /\ Entries(channel') = Entries(channel) \cup {n}
          /\ Len(channel) \in Nat /\ Len(channel') = Len(channel) + 1
      <3> HIDE DEF n
      <3> QED BY <2>1, AppendList DEF ReadersInv
    <2>3. Entries(channel') \subseteq DOMAIN readers'
      BY <2>1, <2>2 DEF ReadersInv
    <2>4. ASSUME NEW k \in DOMAIN readers'
          PROVE  readers'[k] = [name |-> readers'[k].name, text |-> readers'[k].text,
                                state |-> readers'[k].state]
      <3>1. CASE k = n
        BY <2>1, <3>1
      <3>2. CASE k # n
        <4>1. k \in DOMAIN readers
          BY <2>1, <3>2
        <4> QED BY <2>1, <4>1 DEF ReadersInv
      <3> QED BY <3>1, <3>2
    <2>5. Cardinality(Loading') <= Len(channel')
      BY <2>1, <2>2 DEF ReadersInv
    <2>6. halted' = halted
      BY <1>2 DEF FileOpen
    <2> QED BY <2>1, <2>2, <2>3, <2>4, <2>5, <2>6 DEF ReadersInv, NeverBlocks
  <1>3. CASE OnLoad
    <2>1. PICK i \in 1 .. Len(readers) :
             /\ readers[i].state = "loading"
             /\ readers' = [readers EXCEPT ![i].state = "done"]
             /\ channel = <<>> => halted' = "blocked"
             /\ channel # <<>> => channel' = RemoveAt(channel, 1) /\ halted' = halted
      BY <1>3 DEF OnLoad, TakenAt
    <2>2. /\ IsList(readers') /\ DOMAIN readers' = DOMAIN readers
          /\ \A k \in DOMAIN readers :
               readers'[k] = [name |-> readers[k].name, text |-> readers[k].text,
                              state |-> IF k = i THEN "done" ELSE readers[k].state]
          /\ Cardinality(Loading) \in Nat /\ Cardinality(Loading) > 0
          /\ Cardinality(Loading') = Cardinality(Loading) - 1
      BY <2>1, ReaderSettles
    <2>3. IsList(channel) /\ DOMAIN channel = 1 .. Len(channel) /\ Len(channel) \in Nat
      BY DEF ReadersInv, IsList
    <2>4. Len(channel) > 0
      BY <2>2, <2>3 DEF ReadersInv
    <2>5. channel # <<>> /\ 1 \in DOMAIN channel
      BY <2>3, <2>4
    <2> DEFINE w == RemoveAt(channel, 1)
    <2>6. IsList(w) /\ Len(w) = Len(channel) - 1 /\ Entries(w) \subseteq Entries(channel)
      <3>1. /\ IsList(w) /\ Len(w) = Len(channel) - 1
            /\ Entries(w) = {channel[k] : k \in DOMAIN channel \ {1}}
        BY <2>3, <2>5, RemoveAtList
      <3> QED BY <3>1 DEF Entries
    <2> HIDE DEF w
    <2>7. channel' = w /\ halted' = halted
      BY <2>1, <2>5 DEF w
    <2>8. ASSUME NEW k \in DOMAIN readers'
          PROVE  readers'[k] = [name |-> readers'[k].name, text |-> readers'[k].text,
                                state |-> readers'[k].state]
      BY <2>2
    <2>9. Cardinality(Loading') <= Len(channel')
      BY <2>2, <2>3, <2>6, <2>7 DEF ReadersInv
    <2> QED BY <2>2, <2>6, <2>7, <2>8, <2>9 DEF ReadersInv, NeverBlocks
  <1>4. CASE LoadFails
    <2>1. PICK i \in 1 .. Len(readers) :
             /\ readers[i].state = "loading"
             /\ readers' = [readers EXCEPT ![i].state = "failed"]
      BY <1>4 DEF LoadFails
    <2>2. /\ IsList(readers') /\ DOMAIN readers' = DOMAIN readers
          /\ \A k \in DOMAIN readers :
               readers'[k] = [name |-> readers[k].name, text |-> readers[k].text,
                              state |-> IF k = i THEN "failed" ELSE readers[k].state]
          /\ Cardinality(Loading) \in Nat
          /\ Cardinality(Loading') = Cardinality(Loading) - 1
      BY <2>1, ReaderSettles
    <2>3. channel' = channel /\ halted' = halted
      BY <1>4 DEF LoadFails
    <2>4. ASSUME NEW k \in DOMAIN readers'
          PROVE  readers'[k] = [name |-> readers'[k].name, text |-> readers'[k].text,
                                state |-> readers'[k].state]
      BY <2>2
    <2>5. Len(channel) \in Nat
      BY DEF ReadersInv, IsList
    <2>6. Cardinality(Loading') <= Len(channel')
      BY <2>2, <2>3, <2>5 DEF ReadersInv
    <2> QED BY <2>2, <2>3, <2>4, <2>6 DEF ReadersInv, NeverBlocks
  <1>5. CASE Handle /\ ~FileOpen
    BY <1>1, <1>5
    DEF Handle, NavBarInit, TabbedContainerInit, CreateTabHandled, CloseTab, Registered,
        GetProofFromCurrentTab, Create, Close, Switch, GetCurrent, FileNew, NewExprTree, FileSave,
        fileVars
  <1>6. CASE ClickMenu \/ ClickTab
    BY <1>1, <1>6, Browser DEF fileVars
  <1>7. CASE UNCHANGED vars
    BY <1>1, <1>7 DEF vars
  <1> QED BY <1>2, <1>3, <1>4, <1>5, <1>6, <1>7 DEF Next

(* FileOpenHelper's closure never waits in recv, however many files are    *)
(* opened, in whatever order they finish and whichever of them fail.       *)
THEOREM NeverWaitsForName == Spec => []NeverBlocks
  <1>1. ReadersInv => NeverBlocks
    BY DEF ReadersInv
  <1> QED BY <1>1, ReadersInit, ReadersStep, PTL DEF Spec

-----------------------------------------------------------------------------
(* The texts.                                                              *)

(* The built-in texts are those of no file, and a file has its own.        *)
LEMMA TextsMatch ==
  ASSUME NEW t
  PROVE  /\ t.text \in {Example, Untitled(0), ExprTree(0)} => Matches(t)
         /\ (\E f \in Files : t.name = f.name /\ t.text = f.text) => Matches(t)
  BY TextsAssumption DEF Matches

(* The text of the start is no file's.                                     *)
LEMMA TextsInit ==
  ASSUME Init
  PROVE  TextsInv
  <1> DEFINE t == [name |-> Example, widget |-> 1, text |-> Example]
  <1>1. tabs = <<t>> /\ readers = <<>>
    BY DEF Init
  <1>2. t.text = Example
    OBVIOUS
  <1>3. Matches(t)
    BY <1>2, TextsMatch
  <1> HIDE DEF t
  <1>4. Entries(tabs) = {t}
    BY <1>1, SingleList
  <1>5. \A m \in Entries(queue) : m.msg \notin Asks \cup {"FileOpen"}
    BY QueueInit DEF RegisterProofName, Asks
  <1>6. DOMAIN readers = {}
    BY <1>1
  <1> QED BY <1>3, <1>4, <1>5, <1>6 DEF TextsInv

(* Steps that change neither tabs nor readers, and send what matches.      *)
LEMMA TextsKept ==
  ASSUME TextsInv, UNCHANGED <<tabs, readers>>,
         \A m \in Entries(queue') :
            \/ m \in Entries(queue)
            \/ /\ m.msg = "FileOpen" => m.file \in Files
               /\ m.msg \in Asks => Matches(m)
  PROVE  TextsInv'
  BY DEF TextsInv, Matches

(* Names and texts stay together on their way from a file to a tab.        *)
LEMMA TextsStep ==
  ASSUME QueueInv, TabsInv, ReadersInv, TextsInv, [Next]_vars
  PROVE  TextsInv'
  <1> USE DEF tabVars, fileVars
  <1>1. CASE NavBarInit
    BY <1>1, Traffic, TextsKept DEF NavBarInit, Passes, Msg, Asks
  <1>2. CASE TabbedContainerInit
    BY <1>2, Traffic, TextsKept DEF TabbedContainerInit, Passes
  <1>3. CASE CreateTabHandled
    <2> DEFINE h == Head(queue)
               m == [h EXCEPT !.msg = "Create"]
    <2>1. Passes({m}) /\ h.msg = "CreateTab" /\ UNCHANGED <<tabs, readers>>
      BY <1>3, Traffic DEF CreateTabHandled, Handling
    <2>2. h \in Entries(queue)
      BY <2>1 DEF Passes
    <2>3. h = [msg |-> h.msg, name |-> h.name, registered |-> h.registered, text |-> h.text]
      BY <2>1, <2>2 DEF QueueInv, Asks
    <2>4. Matches(h)
      BY <2>1, <2>2 DEF TextsInv, Asks
    <2> HIDE DEF h
    <2>5. m.msg = "Create" /\ m.name = h.name /\ m.text = h.text
      BY <2>3
    <2> HIDE DEF m
    <2>6. Matches(m)
      BY <2>4, <2>5 DEF Matches
    <2> QED BY <2>1, <2>5, <2>6, TextsKept DEF Passes
  <1>4. CASE CloseTab
    BY <1>4, Traffic, TextsKept DEF CloseTab, Passes
  <1>5. CASE Registered
    BY <1>5, Traffic, TextsKept DEF Registered, Passes
  <1>6. CASE GetProofFromCurrentTab
    BY <1>6, Traffic, TextsKept DEF GetProofFromCurrentTab, Passes, Asks
  <1>7. CASE Create
    <2> DEFINE h == Head(queue)
    <2>1. PICK w : tabs' = <<[name |-> h.name, widget |-> w, text |-> h.text]>> \o tabs
      BY <1>7 DEF Create
    <2> DEFINE t == [name |-> h.name, widget |-> w, text |-> h.text]
    <2>2. Passes({RegisterProofName(h.registered, made + 1)}) /\ h.msg = "Create"
      BY <1>7, Traffic DEF Create, Handling
    <2>3. Matches(h)
      BY <2>2 DEF TextsInv, Asks, Passes
    <2> HIDE DEF h
    <2>4. Matches(t)
      BY <2>3 DEF Matches
    <2>5. tabs' = <<t>> \o tabs
      BY <2>1
    <2> HIDE DEF t
    <2>6. Entries(tabs') = Entries(tabs) \cup {t}
      BY <2>5, PrependList DEF TabsInv
    <2>7. \A m \in Entries(queue') : m \in Entries(queue) \/ m.msg \notin Asks \cup {"FileOpen"}
      BY <2>2 DEF Passes, RegisterProofName, Asks
    <2>8. UNCHANGED readers
      BY <1>7 DEF Create
    <2> QED BY <2>4, <2>6, <2>7, <2>8 DEF TextsInv, Matches
  <1>8. CASE Close
    <2> DEFINE i == Head(queue).idx + 1
    <2>1. Head(queue).msg = "Close" /\ tabs' = RemoveAt(tabs, i) /\ UNCHANGED readers
      BY <1>8 DEF Close, Handling
    <2>2. Passes({[msg |-> "CloseTab", name |-> tabs[i].name]})
      BY <1>8, Traffic
    <2>3. Head(queue).idx \in 0 .. Len(tabs) - 1
      BY <2>1, <2>2 DEF TabsInv, Passes
    <2>4. i \in DOMAIN tabs
      BY <2>3 DEF TabsInv, IsList
    <2> HIDE DEF i
    <2>5. Entries(tabs') \subseteq Entries(tabs)
      <3>1. Entries(tabs') = {tabs[k] : k \in DOMAIN tabs \ {i}}
        BY <2>1, <2>4, RemoveAtList DEF TabsInv
      <3> QED BY <3>1 DEF Entries
    <2>6. \A m \in Entries(queue') : m \in Entries(queue) \/ m.msg \notin Asks \cup {"FileOpen"}
      BY <2>2 DEF Passes, Asks
    <2> QED BY <2>1, <2>5, <2>6 DEF TextsInv, Matches
  <1>9. CASE Switch
    BY <1>9, Traffic, TextsKept DEF Switch, Passes
  <1>10. CASE GetCurrent
    BY <1>10, Traffic, TextsKept DEF GetCurrent, Passes
  <1>11. CASE FileNew
    <2> DEFINE m == CreateTab(Untitled(nextTab), Untitled(nextTab), Untitled(0))
    <2>1. m.text = Untitled(0) /\ m.msg = "CreateTab"
      BY DEF CreateTab
    <2> HIDE DEF m
    <2>2. Matches(m)
      BY <2>1, TextsMatch
    <2>3. Passes({m}) /\ UNCHANGED <<tabs, readers>>
      BY <1>11, Traffic DEF FileNew, m
    <2> QED BY <2>1, <2>2, <2>3, TextsKept DEF Passes
  <1>12. CASE NewExprTree
    <2> DEFINE m == CreateTab(ExprTree(nextTab), <<>>, ExprTree(0))
    <2>1. m.text = ExprTree(0) /\ m.msg = "CreateTab"
      BY DEF CreateTab
    <2> HIDE DEF m
    <2>2. Matches(m)
      BY <2>1, TextsMatch
    <2>3. Passes({m}) /\ UNCHANGED <<tabs, readers>>
      BY <1>12, Traffic DEF NewExprTree, m
    <2> QED BY <2>1, <2>2, <2>3, TextsKept DEF Passes
  <1>13. CASE FileSave
    BY <1>13, Traffic, TextsKept DEF FileSave, Passes, Msg, Asks
  <1>14. CASE FileOpen
    <2> DEFINE n == Len(readers) + 1
               f == Head(queue).file
    <2>1. /\ Len(readers) \in Nat
          /\ DOMAIN readers = 1 .. Len(readers) /\ DOMAIN readers' = 1 .. n
          /\ \A k \in DOMAIN readers : readers'[k] = readers[k]
          /\ readers'[n] = [name |-> f.name, text |-> f.text, state |-> "loading"]
      BY <1>14, ReaderAdded
    <2>2. Passes({}) /\ Head(queue).msg = "FileOpen" /\ UNCHANGED tabs
      BY <1>14, Traffic DEF FileOpen, Handling
    <2>3. f \in Files
      BY <2>2 DEF TextsInv, Passes
    <2>4. ASSUME NEW k \in DOMAIN readers'
          PROVE  \E g \in Files : readers'[k].name = g.name /\ readers'[k].text = g.text
      <3> HIDE DEF f
      <3>1. CASE k = n
        BY <2>1, <2>3, <3>1
      <3>2. CASE k # n
        <4>1. k \in DOMAIN readers
          BY <2>1, <3>2
        <4> QED BY <2>1, <4>1 DEF TextsInv
      <3> QED BY <3>1, <3>2
    <2> QED BY <2>2, <2>4 DEF TextsInv, Matches, Passes
  <1>15. CASE ClickMenu
    <2>1. UNCHANGED <<tabs, readers>>
      BY <1>15, Browser
    <2>2. \A m \in Entries(queue') : m.msg \in Menu /\ (m.msg = "FileOpen" => m.file \in Files)
      BY <1>15, Browser
    <2> QED BY <2>1, <2>2, TextsKept DEF Menu, Asks
  <1>16. CASE ClickTab
    BY <1>16, Browser, TextsKept DEF Asks
  <1>17. CASE OnLoad
    <2>1. PICK i \in 1 .. Len(readers) :
             /\ readers[i].state = "loading"
             /\ readers' = [readers EXCEPT ![i].state = "done"]
      BY <1>17 DEF OnLoad
    <2>2. /\ DOMAIN readers' = DOMAIN readers
          /\ \A k \in DOMAIN readers :
               readers'[k] = [name |-> readers[k].name, text |-> readers[k].text,
                              state |-> IF k = i THEN "done" ELSE readers[k].state]
      BY <2>1, ReaderSettles
    <2>3. \A k \in DOMAIN readers : /\ readers'[k].name = readers[k].name
                                    /\ readers'[k].text = readers[k].text
      BY <2>2
    <2>4. ASSUME NEW m \in Entries(queue')
          PROVE  m.msg = "CreateTab" /\ Matches(m)
      <3>1. channel # <<>> /\ m = CreateTab(readers[Taken].name, readers[Taken].name, readers[Taken].text)
        BY <1>17, Browser DEF Asked
      <3>2. m.msg = "CreateTab" /\ m.name = readers[Taken].name /\ m.text = readers[Taken].text
        BY <3>1 DEF CreateTab
      <3>3. Taken \in DOMAIN readers
        <4>1. Head(channel) = channel[1] /\ Head(channel) \in Entries(channel)
          BY <3>1, TailList DEF ReadersInv
        <4> QED BY <4>1 DEF Taken, TakenAt, ReadersInv
      <3>4. \E f \in Files : m.name = f.name /\ m.text = f.text
        BY <3>2, <3>3 DEF TextsInv
      <3> QED BY <3>2, <3>4, TextsMatch
    <2>5. UNCHANGED tabs
      BY <1>17 DEF OnLoad
    <2> QED BY <2>2, <2>3, <2>4, <2>5 DEF TextsInv, Matches
  <1>18. CASE LoadFails
    <2>1. PICK i \in 1 .. Len(readers) :
             /\ readers[i].state = "loading"
             /\ readers' = [readers EXCEPT ![i].state = "failed"]
      BY <1>18 DEF LoadFails
    <2>2. /\ DOMAIN readers' = DOMAIN readers
          /\ \A k \in DOMAIN readers :
               readers'[k] = [name |-> readers[k].name, text |-> readers[k].text,
                              state |-> IF k = i THEN "failed" ELSE readers[k].state]
      BY <2>1, ReaderSettles
    <2>3. \A k \in DOMAIN readers : /\ readers'[k].name = readers[k].name
                                    /\ readers'[k].text = readers[k].text
      BY <2>2
    <2>4. UNCHANGED tabs /\ Entries(queue') = {}
      BY <1>18, Browser DEF LoadFails
    <2> QED BY <2>2, <2>3, <2>4 DEF TextsInv, Matches
  <1>19. CASE UNCHANGED vars
    BY <1>19, TextsKept DEF vars
  <1> QED
    BY <1>1, <1>2, <1>3, <1>4, <1>5, <1>6, <1>7, <1>8, <1>9, <1>10, <1>11, <1>12, <1>13, <1>14,
       <1>15, <1>16, <1>17, <1>18, <1>19 DEF Next, Handle

(* A tab opened from a file never shows the text of a file of another      *)
(* name, although the name comes from the channel and the text from a      *)
(* reader that may finish at any time.                                     *)
THEOREM NamesFollowTexts == Spec => []TextsMatchNames
  <1> DEFINE I == QueueInv /\ TabsInv /\ ReadersInv /\ TextsInv
  <1>1. Init => I
    BY QueueInit, TabsInit, ReadersInit, TextsInit
  <1>2. I /\ [Next]_vars => I'
    BY QueueStep, TabsStep, ReadersStep, TextsStep
  <1>3. I => TextsMatchNames
    <2> SUFFICES ASSUME I, NEW i \in 1 .. Len(tabs) PROVE Matches(tabs[i])
      BY DEF TextsMatchNames, Matches
    <2>1. DOMAIN tabs = 1 .. Len(tabs)
      BY DEF TabsInv, IsList
    <2>2. tabs[i] \in Entries(tabs)
      BY <2>1 DEF Entries
    <2> QED BY <2>2 DEF TextsInv
  <1> HIDE DEF I
  <1> QED BY <1>1, <1>2, <1>3, PTL DEF Spec

-----------------------------------------------------------------------------
(* The order of the files.                                                 *)

(* Nothing has been read at the start.                                     *)
LEMMA OrderInit ==
  ASSUME Init
  PROVE  OrderInv
  <1>1. readers = <<>> /\ channel = <<>> /\ loads = <<>> /\ opened = <<>>
    BY DEF Init
  <1>2. IsList(<<>>) /\ Len(<<>>) = 0
    BY SingleList
  <1>3. channel = [j \in 1 .. Len(readers) - Len(loads) |-> Len(loads) + j]
    BY <1>1
  <1> QED BY <1>1, <1>2, <1>3 DEF OrderInv

(* A list that holds the numbers after m.                                  *)
LEMMA Counting ==
  ASSUME NEW w, IsList(w), NEW m \in Nat, NEW k \in Nat, Len(w) = k,
         \A j \in 1 .. k : w[j] = m + j
  PROVE  w = [j \in 1 .. k |-> m + j]
  <1>1. w \in Seq(Entries(w))
    BY DEF IsList
  <1>2. w = [j \in 1 .. Len(w) |-> w[j]]
    BY <1>1
  <1> QED BY <1>2

(* While files finish in order, every one that finished was opened, and    *)
(* the names that wait are those of the others.                            *)
LEMMA OrderStep ==
  ASSUME ReadersInv, OrderInv, [Next]_vars
  PROVE  OrderInv'
  <1> DEFINE L == Len(loads)
             R == Len(readers)
  <1>0. /\ L \in Nat /\ R \in Nat /\ DOMAIN readers = 1 .. R /\ DOMAIN loads = 1 .. L
        /\ IsList(channel) /\ IsList(loads)
    BY DEF ReadersInv, OrderInv, IsList
  <1>1. CASE UNCHANGED <<readers, channel, loads, opened>>
    BY <1>1 DEF OrderInv, InOrder
  <1>2. CASE FileOpen
    <2> DEFINE n == R + 1
    <2>1. /\ Len(readers') = n /\ DOMAIN readers' = 1 .. n
          /\ \A k \in DOMAIN readers : readers'[k] = readers[k]
          /\ channel' = Append(channel, n)
      BY <1>2, ReaderAdded
    <2>2. UNCHANGED <<loads, opened>>
      BY <1>2 DEF FileOpen
    <2> SUFFICES ASSUME InOrder'
                 PROVE  /\ opened = loads /\ L <= n
                        /\ channel' = [j \in 1 .. n - L |-> L + j]
      BY <1>0, <2>1, <2>2 DEF OrderInv
    <2>3. InOrder
      <3>1. ASSUME NEW i \in 1 .. R PROVE readers[i].state # "failed"
        <4>1. i \in 1 .. Len(readers') /\ readers'[i] = readers[i]
          BY <1>0, <2>1
        <4>2. readers'[i].state # "failed"
          BY <4>1 DEF InOrder
        <4> QED BY <4>1, <4>2
      <3> QED BY <2>2, <3>1 DEF InOrder
    <2>4. opened = loads /\ L <= R /\ channel = [j \in 1 .. R - L |-> L + j]
      BY <2>3 DEF OrderInv
    <2>5. Len(channel) = R - L
      BY <1>0, <2>4 DEF IsList
    <2> DEFINE w == Append(channel, n)
    <2>6. /\ IsList(w) /\ Len(w) = R - L + 1 /\ w[R - L + 1] = n
          /\ \A j \in 1 .. R - L : w[j] = channel[j]
      <3> HIDE DEF n
      <3> QED BY <1>0, <2>5, AppendList
    <2> HIDE DEF w
    <2>7. n - L \in Nat /\ Len(w) = n - L
      BY <1>0, <2>4, <2>6
    <2>8. ASSUME NEW j \in 1 .. n - L PROVE w[j] = L + j
      <3>1. CASE j = R - L + 1
        BY <1>0, <2>4, <2>6, <3>1
      <3>2. CASE j # R - L + 1
        <4>1. j \in 1 .. R - L
          <5>1. j \in Int /\ 1 <= j /\ j <= R + 1 - L
            BY <1>0
          <5>2. L \in Int /\ R \in Int
            BY <1>0
          <5> HIDE DEF L, R
          <5> QED BY <3>2, <5>1, <5>2
        <4>2. channel[j] = L + j
          BY <2>4, <4>1
        <4> QED BY <2>6, <4>1, <4>2
      <3> QED BY <3>1, <3>2
    <2>9. w = [j \in 1 .. n - L |-> L + j]
      <3> DEFINE k == n - L
      <3>1. k \in Nat /\ Len(w) = k /\ \A j \in 1 .. k : w[j] = L + j
        BY <2>7, <2>8
      <3> HIDE DEF k, L
      <3>2. w = [j \in 1 .. k |-> L + j]
        BY <1>0, <2>6, <3>1, Counting
      <3> QED BY <3>2 DEF k, L
    <2> QED BY <1>0, <2>1, <2>4, <2>9 DEF w
  <1>3. CASE OnLoad
    <2>1. PICK i \in 1 .. R :
             /\ readers[i].state = "loading"
             /\ readers' = [readers EXCEPT ![i].state = "done"]
             /\ loads' = Append(loads, i)
             /\ channel # <<>> =>
                   /\ channel' = RemoveAt(channel, 1)
                   /\ readers'[channel[1]].state = "done" => opened' = Append(opened, channel[1])
      BY <1>3 DEF OnLoad, TakenAt, Taken
    <2>2. /\ Len(readers') = R
          /\ \A k \in DOMAIN readers :
               readers'[k] = [name |-> readers[k].name, text |-> readers[k].text,
                              state |-> IF k = i THEN "done" ELSE readers[k].state]
      BY <2>1, ReaderSettles
    <2>2a. ASSUME NEW x \in DOMAIN readers
           PROVE  readers'[x].state = IF x = i THEN "done" ELSE readers[x].state
      <3>1. readers'[x] = [name |-> readers[x].name, text |-> readers[x].text,
                           state |-> IF x = i THEN "done" ELSE readers[x].state]
        BY <2>2
      <3> QED BY <3>1
    <2>3. /\ IsList(loads') /\ Len(loads') = L + 1 /\ loads'[L + 1] = i
          /\ \A k \in 1 .. L : loads'[k] = loads[k]
      BY <1>0, <2>1, AppendList
    <2> SUFFICES ASSUME InOrder'
                 PROVE  /\ opened' = loads' /\ L + 1 <= R
                        /\ channel' = [j \in 1 .. R - (L + 1) |-> L + 1 + j]
      BY <2>2, <2>3 DEF OrderInv
    <2>4. i = L + 1
      <3>1. L + 1 \in 1 .. Len(loads')
        BY <1>0, <2>3
      <3> QED BY <2>3, <3>1 DEF InOrder
    <2>5. InOrder
      <3>1. ASSUME NEW k \in 1 .. L PROVE loads[k] = k
        <4>1. k \in 1 .. Len(loads')
          BY <1>0, <2>3
        <4> QED BY <2>3, <4>1 DEF InOrder
      <3>2. ASSUME NEW k \in 1 .. R PROVE readers[k].state # "failed"
        <4>1. CASE k = i
          BY <2>1, <4>1
        <4>2. CASE k # i
          <5>1. readers'[k].state = readers[k].state
            <6>1. k \in DOMAIN readers
              BY <1>0
            <6> QED BY <2>2a, <4>2, <6>1
          <5>2. readers'[k].state # "failed"
            BY <2>2 DEF InOrder
          <5> QED BY <5>1, <5>2
        <4> QED BY <4>1, <4>2
      <3> QED BY <3>1, <3>2 DEF InOrder
    <2>6. opened = loads /\ L <= R /\ channel = [j \in 1 .. R - L |-> L + j]
      BY <2>5 DEF OrderInv
    <2>7. Len(channel) = R - L /\ L + 1 <= R
      BY <1>0, <2>4, <2>6 DEF IsList
    <2>8. 1 \in DOMAIN channel /\ channel # <<>> /\ channel[1] = i
      <3>1. 1 \in 1 .. R - L
        BY <1>0, <2>7
      <3>2. channel[1] = L + 1 /\ 1 \in DOMAIN channel
        BY <2>6, <3>1
      <3> QED BY <2>4, <3>2
    <2>9. opened' = loads'
      <3>1. readers'[i].state = "done"
        BY <1>0, <2>1, <2>2
      <3> QED BY <2>1, <2>6, <2>8, <3>1
    <2> DEFINE w == RemoveAt(channel, 1)
               k == R - (L + 1)
    <2>10. /\ IsList(w) /\ Len(w) = k /\ k \in Nat
           /\ \A j \in 1 .. k : w[j] = L + 1 + j
      <3>1. /\ IsList(w) /\ Len(w) = Len(channel) - 1
            /\ \A j \in 1 .. Len(channel) - 1 : w[j] = channel[IF j < 1 THEN j ELSE j + 1]
        BY <1>0, <2>8, RemoveAtList
      <3> HIDE DEF w
      <3>2. Len(w) = k /\ k \in Nat /\ Len(channel) - 1 = k
        BY <1>0, <2>7, <3>1
      <3>3. ASSUME NEW j \in 1 .. k PROVE w[j] = L + 1 + j
        <4>1. w[j] = channel[j + 1]
          BY <3>1, <3>2
        <4>2. j + 1 \in 1 .. R - L
          BY <1>0, <3>2
        <4>3. channel[j + 1] = L + (j + 1)
          BY <2>6, <4>2
        <4> QED BY <1>0, <4>1, <4>3
      <3> QED BY <3>1, <3>2, <3>3
    <2>11. w = [j \in 1 .. k |-> L + 1 + j]
      <3> DEFINE m == L + 1
      <3>1. m \in Nat /\ \A j \in 1 .. k : w[j] = m + j
        BY <1>0, <2>10
      <3> HIDE DEF m, w, k
      <3>2. w = [j \in 1 .. k |-> m + j]
        BY <2>10, <3>1, Counting
      <3> QED BY <3>2 DEF m
    <2> QED BY <2>1, <2>7, <2>8, <2>9, <2>11
  <1>4. CASE LoadFails
    <2>1. PICK i \in 1 .. R :
             /\ readers[i].state = "loading"
             /\ readers' = [readers EXCEPT ![i].state = "failed"]
      BY <1>4 DEF LoadFails
    <2>2. /\ Len(readers') = R
          /\ \A k \in DOMAIN readers :
               readers'[k] = [name |-> readers[k].name, text |-> readers[k].text,
                              state |-> IF k = i THEN "failed" ELSE readers[k].state]
      BY <2>1, ReaderSettles
    <2>3. readers'[i].state = "failed"
      BY <1>0, <2>1, <2>2
    <2>4. ~InOrder'
      BY <2>1, <2>2, <2>3 DEF InOrder
    <2>5. loads' = loads
      BY <1>4 DEF LoadFails
    <2> QED BY <1>0, <2>4, <2>5 DEF OrderInv
  <1>5. CASE Handle /\ ~FileOpen
    BY <1>1, <1>5
    DEF Handle, NavBarInit, TabbedContainerInit, CreateTabHandled, CloseTab, Registered,
        GetProofFromCurrentTab, Create, Close, Switch, GetCurrent, FileNew, NewExprTree, FileSave,
        fileVars
  <1>6. CASE ClickMenu \/ ClickTab
    BY <1>1, <1>6, Browser DEF fileVars
  <1>7. CASE UNCHANGED vars
    BY <1>1, <1>7 DEF vars
  <1> QED BY <1>2, <1>3, <1>4, <1>5, <1>6, <1>7 DEF Next

(* Files that finish in the order they were opened are all opened in a     *)
(* tab: none is dropped because the channel gave the closure of one reader *)
(* the name of another.                                                    *)
THEOREM OrderedFilesAreOpened == Spec => []ReadInOrderIsOpened
  <1>1. Init => ReadersInv /\ OrderInv
    BY ReadersInit, OrderInit
  <1>2. ReadersInv /\ OrderInv /\ [Next]_vars => ReadersInv' /\ OrderInv'
    BY ReadersStep, OrderStep
  <1>3. OrderInv => ReadInOrderIsOpened
    BY DEF OrderInv, InOrder, ReadInOrderIsOpened
  <1> QED BY <1>1, <1>2, <1>3, PTL DEF Spec

-----------------------------------------------------------------------------
(* The registered widgets.                                                 *)

(* A message that has to be alone is the first one.                        *)
LEMMA SoloIsHead ==
  ASSUME QueueInv, NEW m \in Entries(queue), m.msg \in Solo
  PROVE  m = Head(queue)
  <1>1. Len(queue) = 1 /\ IsList(queue) /\ queue # <<>>
    BY SingleList DEF QueueInv
  <1>2. /\ Entries(queue) = {Head(queue)} \cup Entries(Tail(queue))
        /\ Tail(queue) = <<>>
    BY <1>1, TailList
  <1> QED BY <1>2, SingleList

(* The new tab of Create, and the widget that registers for it.            *)
LEMMA Created ==
  ASSUME QueueInv, TabsInv, Create
  PROVE  LET h == Head(queue)
             w == IF h.registered = <<>> THEN NoWidget ELSE made + 1
             t == [name |-> h.name, widget |-> w, text |-> h.text]
             m == RegisterProofName(h.registered, w)
         IN  /\ h.msg = "Create" /\ tabs' = <<t>> \o tabs
             /\ Entries(tabs') = Entries(tabs) \cup {t}
             /\ Passes(IF h.registered = <<>> THEN {} ELSE {m})
             /\ h.registered # <<>> => m \in Entries(queue')
  <1> DEFINE h == Head(queue)
             w == IF h.registered = <<>> THEN NoWidget ELSE made + 1
             t == [name |-> h.name, widget |-> w, text |-> h.text]
             m == RegisterProofName(h.registered, w)
  <1>1. /\ h.msg = "Create" /\ queue # <<>> /\ tabs' = <<t>> \o tabs
        /\ IF h.registered = <<>> THEN SendNone ELSE Send(m)
    BY DEF Create, Handling
  <1>2. Formed(m) /\ m.msg \notin Solo
    BY DEF Formed, Solo, Asks, RegisterProofName
  <1> HIDE DEF m, t, w
  <1>3. Entries(tabs') = Entries(tabs) \cup {t}
    BY <1>1, PrependList DEF TabsInv
  <1>4. CASE h.registered = <<>>
    BY <1>1, <1>3, <1>4, HandledOnly DEF w, t, m
  <1>5. CASE h.registered # <<>>
    BY <1>1, <1>2, <1>3, <1>5, HandledAndSent DEF w, t, m
  <1> QED BY <1>4, <1>5

(* The tab that Close removes, and the message that says so.               *)
LEMMA Closed ==
  ASSUME QueueInv, TabsInv, Close
  PROVE  LET i == Head(queue).idx + 1
             m == [msg |-> "CloseTab", name |-> tabs[i].name]
         IN  /\ i \in DOMAIN tabs /\ tabs' = RemoveAt(tabs, i)
             /\ Entries(tabs') = {tabs[k] : k \in DOMAIN tabs \ {i}}
             /\ Entries(queue) = {Head(queue)} /\ Head(queue).msg = "Close"
             /\ Entries(queue') = {m}
  <1> DEFINE i == Head(queue).idx + 1
             m == [msg |-> "CloseTab", name |-> tabs[i].name]
  <1>1. Head(queue).msg = "Close" /\ queue # <<>> /\ Send(m) /\ tabs' = RemoveAt(tabs, i)
    BY DEF Close, Handling
  <1>2. Formed(m) /\ Head(queue).msg \in Solo
    BY <1>1 DEF Formed, Solo, Asks
  <1> HIDE DEF m
  <1>3. Passes({m}) /\ m \in Entries(queue')
    BY <1>1, <1>2, HandledAndSent
  <1>4. Entries(queue) = {Head(queue)} /\ Entries(queue') = {m}
    BY <1>2, <1>3 DEF Passes
  <1>5. Head(queue).idx \in 0 .. Len(tabs) - 1
    BY <1>1, <1>4 DEF TabsInv
  <1>6. i \in DOMAIN tabs
    BY <1>5 DEF TabsInv, IsList
  <1> HIDE DEF i
  <1>7. Entries(tabs') = {tabs[k] : k \in DOMAIN tabs \ {i}}
    BY <1>1, <1>6, RemoveAtList DEF TabsInv
  <1> QED BY <1>1, <1>4, <1>6, <1>7 DEF m, i

(* The widget of the start has its tab.                                    *)
LEMMA LinksInit ==
  ASSUME Init
  PROVE  LinksInv
  <1> DEFINE t == [name |-> Example, widget |-> 1, text |-> Example]
             r == RegisterProofName(Example, 1)
  <1>1. tabs = <<t>> /\ proofs = <<>>
    BY DEF Init
  <1>2. t.name = Example /\ t.widget = 1
    OBVIOUS
  <1>3. r.msg = "RegisterProofName" /\ r.name = Example /\ r.widget = 1
    BY DEF RegisterProofName
  <1> HIDE DEF t, r
  <1>4. Entries(tabs) = {t} /\ DOMAIN proofs = {}
    BY <1>1, SingleList
  <1>5. \A m \in Entries(queue) : m.msg \in {"NavBarInit", "TabbedContainerInit"} \/ m = r
    BY QueueInit DEF r
  <1> QED BY <1>2, <1>3, <1>4, <1>5 DEF LinksInv, HasTab, Asks

(* Steps that change neither tabs nor the registered widgets.              *)
LEMMA LinksKept ==
  ASSUME LinksInv, UNCHANGED <<tabs, proofs>>,
         \A m \in Entries(queue') :
            \/ m \in Entries(queue)
            \/ /\ m.msg # "RegisterProofName"
               /\ m.msg \in Asks => m.registered \in {<<>>, m.name},
         \A m \in Entries(queue) : m.msg = "CloseTab" => m \in Entries(queue')
  PROVE  LinksInv'
  BY DEF LinksInv, HasTab, Closing

(* Widgets that are registered have their tab, or that is just closed.     *)
LEMMA LinksStep ==
  ASSUME QueueInv, TabsInv, LinksInv, [Next]_vars
  PROVE  LinksInv'
  <1> USE DEF tabVars, appVars
  <1>1. CASE NavBarInit
    BY <1>1, Traffic, LinksKept DEF NavBarInit, Handling, Passes, Msg, Asks
  <1>2. CASE TabbedContainerInit
    BY <1>2, Traffic, LinksKept DEF TabbedContainerInit, Handling, Passes
  <1>3. CASE CreateTabHandled
    <2> DEFINE h == Head(queue)
               m == [h EXCEPT !.msg = "Create"]
    <2>1. Passes({m}) /\ h.msg = "CreateTab" /\ UNCHANGED <<tabs, proofs>>
      BY <1>3, Traffic DEF CreateTabHandled, Handling
    <2>2. h \in Entries(queue)
      BY <2>1 DEF Passes
    <2>3. h = [msg |-> h.msg, name |-> h.name, registered |-> h.registered, text |-> h.text]
      BY <2>1, <2>2 DEF QueueInv, Asks
    <2>4. h.registered \in {<<>>, h.name}
      BY <2>1, <2>2 DEF LinksInv, Asks
    <2>5. m.msg = "Create" /\ m.name = h.name /\ m.registered = h.registered
      <3> HIDE DEF h
      <3> QED BY <2>3
    <2> HIDE DEF m
    <2> QED BY <2>1, <2>4, <2>5, LinksKept DEF Passes
  <1>4. CASE CloseTab
    <2> DEFINE h == Head(queue)
    <2>1. /\ h.msg = "CloseTab" /\ UNCHANGED tabs
          /\ proofs' = [n \in DOMAIN proofs \ {h.name} |-> proofs[n]]
      BY <1>4 DEF CloseTab, Handling
    <2>2. Entries(queue) = {h} /\ Entries(queue') = {}
      BY <1>4, <2>1, Traffic DEF Passes, Solo
    <2> HIDE DEF h
    <2>3. ASSUME NEW n \in DOMAIN proofs' PROVE HasTab(n, proofs[n])'
      <3>1. n \in DOMAIN proofs /\ n # h.name /\ proofs'[n] = proofs[n]
        BY <2>1
      <3>2. ~Closing(n)
        BY <2>2, <3>1 DEF Closing
      <3>3. HasTab(n, proofs[n])
        BY <3>1, <3>2 DEF LinksInv
      <3> QED BY <2>1, <3>1, <3>3 DEF HasTab
    <2> QED BY <2>2, <2>3 DEF LinksInv
  <1>5. CASE Registered
    <2> DEFINE h == Head(queue)
    <2>1. /\ h.msg = "RegisterProofName" /\ UNCHANGED tabs
          /\ proofs' = [n \in DOMAIN proofs \cup {h.name} |->
                           IF n = h.name THEN h.widget ELSE proofs[n]]
      BY <1>5 DEF Registered, Handling
    <2>2. /\ Entries(queue) \subseteq Entries(queue') \cup {h} /\ h \in Entries(queue)
          /\ Entries(queue') \subseteq Entries(queue)
      BY <1>5, Traffic DEF Passes
    <2> HIDE DEF h
    <2>3. HasTab(h.name, h.widget)
      BY <2>1, <2>2 DEF LinksInv
    <2>4. ASSUME NEW n \in DOMAIN proofs' PROVE HasTab(n, proofs[n])' \/ Closing(n)'
      <3>1. CASE n = h.name
        BY <2>1, <2>3, <3>1 DEF HasTab
      <3>2. CASE n # h.name
        <4>1. n \in DOMAIN proofs /\ proofs'[n] = proofs[n]
          BY <2>1, <3>2
        <4>2. HasTab(n, proofs[n]) \/ Closing(n)
          BY <4>1 DEF LinksInv
        <4>3. Closing(n) => Closing(n)'
          BY <2>1, <2>2 DEF Closing
        <4> QED BY <2>1, <4>1, <4>2, <4>3 DEF HasTab
      <3> QED BY <3>1, <3>2
    <2>5. \A m \in Entries(queue') : m.msg = "RegisterProofName" => HasTab(m.name, m.widget)'
      BY <2>1, <2>2 DEF LinksInv, HasTab
    <2>6. \A m \in Entries(queue') : m.msg \in Asks => m.registered \in {<<>>, m.name}
      BY <2>2 DEF LinksInv
    <2> QED BY <2>4, <2>5, <2>6 DEF LinksInv
  <1>6. CASE GetProofFromCurrentTab
    BY <1>6, Traffic, LinksKept DEF GetProofFromCurrentTab, Handling, Passes, Asks
  <1>7. CASE Create
    <2> DEFINE h == Head(queue)
               w == IF h.registered = <<>> THEN NoWidget ELSE made + 1
               t == [name |-> h.name, widget |-> w, text |-> h.text]
               m == RegisterProofName(h.registered, w)
    <2>1. /\ h.msg = "Create" /\ Entries(tabs') = Entries(tabs) \cup {t}
          /\ Passes(IF h.registered = <<>> THEN {} ELSE {m})
      BY <1>7, Created
    <2>2. t.name = h.name /\ t.widget = w /\ m.name = h.registered /\ m.widget = w
      BY DEF RegisterProofName
    <2>3. m.msg = "RegisterProofName"
      BY DEF RegisterProofName
    <2> HIDE DEF w, t, m
    <2>4. /\ h \in Entries(queue) /\ Entries(queue) \subseteq Entries(queue') \cup {h}
          /\ \A x \in Entries(queue') : x \in Entries(queue) \/ (x = m /\ h.registered # <<>>)
      BY <2>1 DEF Passes
    <2>5. h.registered \in {<<>>, h.name}
      BY <2>1, <2>4 DEF LinksInv, Asks
    <2>6. ASSUME NEW n, NEW v, HasTab(n, v) PROVE HasTab(n, v)'
      BY <2>1, <2>6 DEF HasTab
    <2>7. ASSUME NEW x \in Entries(queue'), x.msg = "RegisterProofName"
          PROVE  HasTab(x.name, x.widget)'
      <3>1. CASE x \in Entries(queue)
        BY <2>6, <2>7, <3>1 DEF LinksInv
      <3>2. CASE x = m /\ h.registered # <<>>
        BY <2>1, <2>2, <2>5, <3>2 DEF HasTab
      <3> QED BY <2>4, <3>1, <3>2
    <2>8. ASSUME NEW n \in DOMAIN proofs' PROVE HasTab(n, proofs[n])' \/ Closing(n)'
      <3>1. proofs' = proofs
        BY <1>7 DEF Create
      <3>2. HasTab(n, proofs[n]) \/ Closing(n)
        BY <3>1 DEF LinksInv
      <3>3. Closing(n) => Closing(n)'
        BY <2>1, <2>4 DEF Closing
      <3>4. HasTab(n, proofs[n]) => HasTab(n, proofs[n])'
        BY <2>1, <3>1 DEF HasTab
      <3> QED BY <3>1, <3>2, <3>3, <3>4
    <2>9. \A x \in Entries(queue') : x.msg \in Asks => x.registered \in {<<>>, x.name}
      BY <2>3, <2>4 DEF LinksInv, Asks
    <2> QED BY <2>7, <2>8, <2>9 DEF LinksInv
  <1>8. CASE Close
    <2> DEFINE i == Head(queue).idx + 1
               m == [msg |-> "CloseTab", name |-> tabs[i].name]
    <2>1. /\ i \in DOMAIN tabs /\ Entries(tabs') = {tabs[k] : k \in DOMAIN tabs \ {i}}
          /\ Entries(queue) = {Head(queue)} /\ Head(queue).msg = "Close"
          /\ Entries(queue') = {m}
      BY <1>8, Closed
    <2>2. m.msg = "CloseTab" /\ m.name = tabs[i].name
      OBVIOUS
    <2> HIDE DEF m, i
    <2>3. proofs' = proofs
      BY <1>8 DEF Close
    <2>4. ASSUME NEW n \in DOMAIN proofs' PROVE HasTab(n, proofs[n])' \/ Closing(n)'
      <3>1. ~Closing(n)
        BY <2>1 DEF Closing
      <3>2. PICK t \in Entries(tabs) : t.name = n /\ t.widget = proofs[n]
        BY <2>3, <3>1 DEF LinksInv, HasTab
      <3>3. PICK k \in DOMAIN tabs : t = tabs[k]
        BY <3>2 DEF Entries
      <3>4. CASE k = i
        BY <2>1, <2>2, <3>2, <3>3, <3>4 DEF Closing
      <3>5. CASE k # i
        <4>1. t \in Entries(tabs')
          BY <2>1, <3>3, <3>5
        <4> QED BY <2>3, <3>2, <4>1 DEF HasTab
      <3> QED BY <3>4, <3>5
    <2> QED BY <2>1, <2>2, <2>4 DEF LinksInv, Asks
  <1>9. CASE Switch
    BY <1>9, Traffic, LinksKept DEF Switch, Handling, Passes
  <1>10. CASE GetCurrent
    BY <1>10, Traffic, LinksKept DEF GetCurrent, Handling, Passes
  <1>11. CASE FileNew
    BY <1>11, Traffic, LinksKept DEF FileNew, Handling, Passes, CreateTab, Asks
  <1>12. CASE NewExprTree
    BY <1>12, Traffic, LinksKept DEF NewExprTree, Handling, Passes, CreateTab, Asks
  <1>13. CASE FileSave
    BY <1>13, Traffic, LinksKept DEF FileSave, Handling, Passes, Msg, Asks
  <1>14. CASE FileOpen
    BY <1>14, Traffic, LinksKept DEF FileOpen, Handling, Passes
  <1>15. CASE ClickMenu
    <2>1. UNCHANGED <<tabs, proofs>> /\ Entries(queue) = {}
      BY <1>15, Browser
    <2>2. \A m \in Entries(queue') : m.msg \in Menu
      BY <1>15, Browser
    <2> QED BY <2>1, <2>2, LinksKept DEF Menu, Asks
  <1>16. CASE ClickTab
    BY <1>16, Browser, LinksKept DEF Asks
  <1>17. CASE OnLoad
    <2>1. UNCHANGED <<tabs, proofs>> /\ Entries(queue) = {}
      BY <1>17, Browser DEF OnLoad
    <2>2. \A m \in Entries(queue') : m.msg = "CreateTab" /\ m.registered = m.name
      BY <1>17, Browser DEF Asked, CreateTab
    <2> QED BY <2>1, <2>2, LinksKept DEF Asks
  <1>18. CASE LoadFails
    BY <1>18, Browser, LinksKept DEF LoadFails
  <1>19. CASE UNCHANGED vars
    BY <1>19, LinksKept DEF vars
  <1> QED
    BY <1>1, <1>2, <1>3, <1>4, <1>5, <1>6, <1>7, <1>8, <1>9, <1>10, <1>11, <1>12, <1>13, <1>14,
       <1>15, <1>16, <1>17, <1>18, <1>19 DEF Next, Handle

(* When no message waits, App knows only widgets that are still in a tab   *)
(* of the name they are registered for, also when tabs share a name.       *)
THEOREM NoStaleLinks == Spec => []LinksAreOpen
  <1> DEFINE I == QueueInv /\ TabsInv /\ LinksInv
  <1>1. Init => I
    BY QueueInit, TabsInit, LinksInit
  <1>2. I /\ [Next]_vars => I'
    BY QueueStep, TabsStep, LinksStep
  <1>3. I => LinksAreOpen
    <2> SUFFICES ASSUME I, Idle, NEW n \in DOMAIN proofs
                 PROVE  \E i \in 1 .. Len(tabs) : tabs[i].name = n /\ tabs[i].widget = proofs[n]
      BY DEF LinksAreOpen
    <2>1. Entries(queue) = {}
      BY SingleList DEF Idle
    <2>2. HasTab(n, proofs[n])
      BY <2>1 DEF LinksInv, Closing
    <2>3. DOMAIN tabs = 1 .. Len(tabs)
      BY DEF TabsInv, IsList
    <2> QED BY <2>2, <2>3 DEF HasTab, Entries
  <1> HIDE DEF I
  <1> QED BY <1>1, <1>2, <1>3, PTL DEF Spec

-----------------------------------------------------------------------------
(* What is saved.                                                          *)

(* The widget of the start is about to be registered.                      *)
LEMMA SavesInit ==
  ASSUME Init
  PROVE  SavesInv
  <1> DEFINE t == [name |-> Example, widget |-> 1, text |-> Example]
             r == RegisterProofName(Example, 1)
  <1>1. tabs = <<t>> /\ proofs = <<>> /\ made = 1 /\ clash = FALSE /\ saved = NothingSaved
    BY DEF Init
  <1>2. t.name = Example /\ t.widget = 1
    OBVIOUS
  <1>3. r.msg = "RegisterProofName" /\ r.name = Example /\ r.widget = 1
    BY DEF RegisterProofName
  <1>4. r \in Entries(queue)
    <2> DEFINE a == Msg("NavBarInit")
               b == Msg("TabbedContainerInit")
    <2>1. queue \in {<<a, b, r>>, <<b, a, r>>, <<b, r, a>>}
      BY DEF Init
    <2> HIDE DEF a, b, r
    <2>2. DOMAIN queue = 1 .. 3 /\ (queue[2] = r \/ queue[3] = r)
      BY <2>1
    <2> QED BY <2>2 DEF Entries
  <1> HIDE DEF t, r
  <1>5. DOMAIN tabs = {1} /\ tabs[1] = t /\ DOMAIN proofs = {}
    BY <1>1
  <1>6. \A m \in Entries(queue) : m.msg \in {"NavBarInit", "TabbedContainerInit"} \/ m = r
    BY QueueInit DEF r
  <1>7. Registers(t) /\ \A n : ~Closing(n)
    BY <1>2, <1>3, <1>4, <1>6 DEF Registers, Closing
  <1>8. Tidy
    BY <1>5, <1>7 DEF Tidy, Entries
  <1>9. SavesShownProof
    BY <1>1 DEF SavesShownProof, NothingSaved
  <1>10. /\ \A m \in Entries(queue) : m.msg = "RegisterProofName" => m.widget # NoWidget
         /\ \A m \in Entries(queue) : m.msg # "GetCurrent"
    BY <1>3, <1>6 DEF NoWidget
  <1> QED BY <1>1, <1>5, <1>8, <1>9, <1>10 DEF SavesInv

(* Steps that change neither tabs nor the registered widgets, and save     *)
(* nothing.                                                                *)
LEMMA SavesKept ==
  ASSUME SavesInv, UNCHANGED <<tabs, proofs, clash, made>>,
         saved' = saved \/ saved' = NothingSaved,
         \A m \in Entries(queue') :
            \/ m \in Entries(queue)
            \/ /\ m.msg \notin {"RegisterProofName", "CloseTab"}
               /\ m.msg = "GetCurrent" => m.proofs = proofs,
         \A m \in Entries(queue) : m.msg = "RegisterProofName" => m \in Entries(queue')
  PROVE  SavesInv'
  <1>1. SavesShownProof'
    BY DEF SavesInv, SavesShownProof, NothingSaved
  <1>2. Tidy => Tidy'
    BY DEF Tidy, Registers, Closing
  <1> QED BY <1>1, <1>2 DEF SavesInv

(* Tabs of one name are one tab.                                           *)
LEMMA OneTabPerName ==
  ASSUME Tidy, NEW s \in Entries(tabs), NEW t \in Entries(tabs), s.name = t.name
  PROVE  s = t
  BY DEF Tidy, Entries

(* Until names clash, every tab with a widget has that widget registered   *)
(* when a save asks for it.                                                *)
LEMMA SavesStep ==
  ASSUME QueueInv, TabsInv, LinksInv, SavesInv, [Next]_vars
  PROVE  SavesInv'
  <1> USE DEF tabVars, appVars
  <1>1. CASE NavBarInit
    BY <1>1, Traffic, SavesKept DEF NavBarInit, Handling, Passes, Msg
  <1>2. CASE TabbedContainerInit
    BY <1>2, Traffic, SavesKept DEF TabbedContainerInit, Handling, Passes
  <1>3. CASE CreateTabHandled
    <2> DEFINE h == Head(queue)
               m == [h EXCEPT !.msg = "Create"]
    <2>1. /\ Passes({m}) /\ h.msg = "CreateTab"
          /\ UNCHANGED <<tabs, proofs, clash, made, saved>>
      BY <1>3, Traffic DEF CreateTabHandled, Handling
    <2>2. h \in Entries(queue)
      BY <2>1 DEF Passes
    <2>3. h = [msg |-> h.msg, name |-> h.name, registered |-> h.registered, text |-> h.text]
      BY <2>1, <2>2 DEF QueueInv, Asks
    <2>4. m.msg = "Create"
      <3> HIDE DEF h
      <3> QED BY <2>3
    <2> HIDE DEF m
    <2> QED BY <2>1, <2>4, SavesKept DEF Passes
  <1>4. CASE CloseTab
    <2> DEFINE h == Head(queue)
    <2>1. /\ h.msg = "CloseTab" /\ UNCHANGED <<tabs, clash, made, saved>>
          /\ proofs' = [n \in DOMAIN proofs \ {h.name} |-> proofs[n]]
      BY <1>4 DEF CloseTab, Handling
    <2>2. Entries(queue) = {h} /\ Entries(queue') = {}
      BY <1>4, <2>1, Traffic DEF Passes, Solo
    <2> HIDE DEF h
    <2>3. ASSUME Tidy, NEW t \in Entries(tabs'), t.widget # NoWidget PROVE Registers(t)'
      <3>1. t \in Entries(tabs) /\ Registers(t) /\ ~Closing(t.name)
        BY <2>1, <2>3 DEF Tidy
      <3>2. t.name \in DOMAIN proofs /\ proofs[t.name] = t.widget
        BY <2>1, <2>2, <3>1 DEF Registers
      <3>3. t.name # h.name
        BY <2>1, <2>2, <3>1 DEF Closing
      <3>4. t.name \in DOMAIN proofs' /\ proofs'[t.name] = proofs[t.name]
        BY <2>1, <3>2, <3>3
      <3> QED BY <3>2, <3>4 DEF Registers
    <2>4. Tidy => Tidy'
      BY <2>1, <2>2, <2>3 DEF Tidy, Closing
    <2>5. \A n \in DOMAIN proofs' : proofs'[n] # NoWidget
      BY <2>1 DEF SavesInv
    <2>6. SavesShownProof'
      BY <2>1 DEF SavesInv, SavesShownProof
    <2> QED BY <2>1, <2>2, <2>4, <2>5, <2>6 DEF SavesInv
  <1>5. CASE Registered
    <2> DEFINE h == Head(queue)
    <2>1. /\ h.msg = "RegisterProofName" /\ UNCHANGED <<tabs, clash, made, saved>>
          /\ proofs' = [n \in DOMAIN proofs \cup {h.name} |->
                           IF n = h.name THEN h.widget ELSE proofs[n]]
      BY <1>5 DEF Registered, Handling
    <2>2. /\ Entries(queue) \subseteq Entries(queue') \cup {h} /\ h \in Entries(queue)
          /\ Entries(queue') \subseteq Entries(queue)
      BY <1>5, Traffic DEF Passes
    <2>3. \A m \in Entries(queue) : m.msg \notin Solo
      BY <2>1, SoloIsHead DEF Solo
    <2> HIDE DEF h
    <2>4. h.widget # NoWidget /\ HasTab(h.name, h.widget)
      BY <2>1, <2>2 DEF SavesInv, LinksInv
    <2>5. ASSUME Tidy, NEW t \in Entries(tabs'), t.widget # NoWidget PROVE Registers(t)'
      <3>1. t \in Entries(tabs) /\ Registers(t)
        BY <2>1, <2>5 DEF Tidy
      <3>2. CASE t.name = h.name
        <4>1. PICK s \in Entries(tabs) : s.name = h.name /\ s.widget = h.widget
          BY <2>4 DEF HasTab
        <4>2. s = t
          BY <2>5, <3>1, <3>2, <4>1, OneTabPerName
        <4>3. t.name \in DOMAIN proofs' /\ proofs'[t.name] = h.widget
          BY <2>1, <3>2
        <4> QED BY <4>1, <4>2, <4>3 DEF Registers
      <3>3. CASE t.name # h.name
        <4>1. CASE t.name \in DOMAIN proofs /\ proofs[t.name] = t.widget
          <5>1. t.name \in DOMAIN proofs' /\ proofs'[t.name] = proofs[t.name]
            BY <2>1, <3>3, <4>1
          <5> QED BY <4>1, <5>1 DEF Registers
        <4>2. CASE \E m \in Entries(queue) : /\ m.msg = "RegisterProofName"
                                             /\ m.name = t.name /\ m.widget = t.widget
          BY <2>2, <3>3, <4>2 DEF Registers
        <4> QED BY <3>1, <4>1, <4>2 DEF Registers
      <3> QED BY <3>2, <3>3
    <2>6. ASSUME NEW n PROVE ~Closing(n)'
      BY <2>2, <2>3 DEF Closing, Solo
    <2>7. Tidy => Tidy'
      BY <2>1, <2>5, <2>6 DEF Tidy
    <2>8. \A n \in DOMAIN proofs' : proofs'[n] # NoWidget
      BY <2>1, <2>4 DEF SavesInv
    <2>9. \A m \in Entries(queue') : m.msg # "GetCurrent"
      BY <2>2, <2>3 DEF Solo
    <2>10. \A m \in Entries(queue') : m.msg = "RegisterProofName" => m.widget # NoWidget
      BY <2>2 DEF SavesInv
    <2>11. SavesShownProof'
      BY <2>1 DEF SavesInv, SavesShownProof
    <2> QED BY <2>1, <2>7, <2>8, <2>9, <2>10, <2>11 DEF SavesInv
  <1>6. CASE GetProofFromCurrentTab
    BY <1>6, Traffic, SavesKept DEF GetProofFromCurrentTab, Handling, Passes
  <1>7. CASE Create
    <2> DEFINE h == Head(queue)
               w == IF h.registered = <<>> THEN NoWidget ELSE made + 1
               t == [name |-> h.name, widget |-> w, text |-> h.text]
               m == RegisterProofName(h.registered, w)
    <2>1. /\ h.msg = "Create" /\ tabs' = <<t>> \o tabs /\ Entries(tabs') = Entries(tabs) \cup {t}
          /\ Passes(IF h.registered = <<>> THEN {} ELSE {m})
          /\ h.registered # <<>> => m \in Entries(queue')
      BY <1>7, Created
    <2>2. /\ t.name = h.name /\ t.widget = w /\ m.name = h.registered /\ m.widget = w
          /\ m.msg = "RegisterProofName"
      BY DEF RegisterProofName
    <2>3. /\ h.registered = <<>> => w = NoWidget
          /\ h.registered # <<>> => w # NoWidget
      BY DEF NoWidget, SavesInv
    <2>4. /\ made' = made + 1 /\ UNCHANGED <<proofs, saved>>
          /\ clash' = (clash \/ \E i \in 1 .. Len(tabs) : tabs[i].name = h.name)
      BY <1>7 DEF Create
    <2> HIDE DEF w, t, m
    <2>5. /\ h \in Entries(queue) /\ Entries(queue) \subseteq Entries(queue') \cup {h}
          /\ \A x \in Entries(queue') : x \in Entries(queue) \/ (x = m /\ h.registered # <<>>)
      BY <2>1 DEF Passes
    <2>6. h.registered \in {<<>>, h.name}
      BY <2>1, <2>5 DEF LinksInv, Asks
    <2>7. \A x \in Entries(queue) : x.msg \notin Solo
      BY <2>1, SoloIsHead DEF Solo
    <2> HIDE DEF h
    <2>8. ASSUME NEW n PROVE ~Closing(n)'
      BY <2>2, <2>5, <2>7 DEF Closing, Solo
    <2>9. ASSUME Tidy, NEW x \in Entries(tabs'), x.widget # NoWidget PROVE Registers(x)'
      <3>1. CASE x = t
        BY <2>1, <2>2, <2>3, <2>6, <2>9, <3>1 DEF Registers
      <3>2. CASE x \in Entries(tabs)
        <4>1. Registers(x)
          BY <2>9, <3>2 DEF Tidy
        <4> QED BY <2>1, <2>4, <2>5, <4>1 DEF Registers
      <3> QED BY <2>1, <3>1, <3>2
    <2>10. ASSUME Tidy, ~clash', NEW i \in DOMAIN tabs', NEW j \in DOMAIN tabs',
                  tabs'[i].name = tabs'[j].name
           PROVE  i = j
      <3>1. /\ Len(tabs) \in Nat /\ DOMAIN tabs = 1 .. Len(tabs)
            /\ DOMAIN tabs' = 1 .. Len(tabs) + 1 /\ tabs'[1] = t
            /\ \A k \in 2 .. Len(tabs) + 1 : tabs'[k] = tabs[k - 1]
        BY <2>1, PrependList DEF TabsInv
      <3>2. \A k \in 1 .. Len(tabs) : tabs[k].name # t.name
        BY <2>2, <2>4, <2>10
      <3>3. ASSUME NEW k \in DOMAIN tabs', k # 1
            PROVE  k - 1 \in DOMAIN tabs /\ tabs'[k] = tabs[k - 1]
        <4>1. k \in 2 .. Len(tabs) + 1
          BY <3>1, <3>3
        <4> QED BY <3>1, <4>1
      <3>4. CASE i = 1 /\ j = 1
        BY <3>4
      <3>5. CASE i = 1 /\ j # 1
        <4>1. j - 1 \in 1 .. Len(tabs) /\ tabs'[j] = tabs[j - 1]
          BY <3>1, <3>3, <3>5
        <4> QED BY <2>10, <3>1, <3>2, <3>5, <4>1
      <3>6. CASE i # 1 /\ j = 1
        <4>1. i - 1 \in 1 .. Len(tabs) /\ tabs'[i] = tabs[i - 1]
          BY <3>1, <3>3, <3>6
        <4> QED BY <2>10, <3>1, <3>2, <3>6, <4>1
      <3>7. CASE i # 1 /\ j # 1
        <4>1. /\ i - 1 \in DOMAIN tabs /\ tabs'[i] = tabs[i - 1]
              /\ j - 1 \in DOMAIN tabs /\ tabs'[j] = tabs[j - 1]
          BY <3>3, <3>7
        <4>2. i - 1 = j - 1
          BY <2>10, <4>1 DEF Tidy
        <4> QED BY <3>1, <4>2
      <3> QED BY <3>4, <3>5, <3>6, <3>7
    <2>11. ~clash' => Tidy'
      <3>1. ~clash' => Tidy
        BY <2>4 DEF SavesInv
      <3> QED BY <2>8, <2>9, <2>10, <3>1 DEF Tidy
    <2>12. clash' \in BOOLEAN /\ made' \in Nat
      BY <2>4 DEF SavesInv
    <2>13. \A x \in Entries(queue') : x.msg # "GetCurrent"
      BY <2>2, <2>5, <2>7 DEF Solo
    <2>14. \A x \in Entries(queue') : x.msg = "RegisterProofName" => x.widget # NoWidget
      BY <2>2, <2>3, <2>5 DEF SavesInv
    <2>15. SavesShownProof'
      BY <2>4 DEF SavesInv, SavesShownProof
    <2>16. \A n \in DOMAIN proofs' : proofs'[n] # NoWidget
      BY <2>4 DEF SavesInv
    <2> QED BY <2>11, <2>12, <2>13, <2>14, <2>15, <2>16 DEF SavesInv
  <1>8. CASE Close
    <2> DEFINE i == Head(queue).idx + 1
               m == [msg |-> "CloseTab", name |-> tabs[i].name]
    <2>1. /\ i \in DOMAIN tabs /\ Entries(tabs') = {tabs[k] : k \in DOMAIN tabs \ {i}}
          /\ Entries(queue) = {Head(queue)} /\ Head(queue).msg = "Close"
          /\ Entries(queue') = {m} /\ tabs' = RemoveAt(tabs, i)
      BY <1>8, Closed
    <2>2. m.msg = "CloseTab" /\ m.name = tabs[i].name
      OBVIOUS
    <2> HIDE DEF m, i
    <2>3. UNCHANGED <<proofs, clash, made, saved>>
      BY <1>8 DEF Close
    <2>4. ASSUME Tidy, NEW t \in Entries(tabs')
          PROVE  (t.widget # NoWidget => Registers(t)') /\ ~Closing(t.name)'
      <3>1. PICK k \in DOMAIN tabs : t = tabs[k] /\ k # i
        BY <2>1
      <3>2. t.name # tabs[i].name
        BY <2>1, <2>4, <3>1 DEF Tidy
      <3>3. t \in Entries(tabs)
        BY <3>1 DEF Entries
      <3>4. t.widget # NoWidget => t.name \in DOMAIN proofs /\ proofs[t.name] = t.widget
        BY <2>1, <2>4, <3>3 DEF Tidy, Registers
      <3> QED BY <2>1, <2>2, <2>3, <3>2, <3>4 DEF Registers, Closing
    <2>5. ASSUME Tidy, NEW j \in DOMAIN tabs', NEW k \in DOMAIN tabs', tabs'[j].name = tabs'[k].name
          PROVE  j = k
      <3> DEFINE old(x) == IF x < i THEN x ELSE x + 1
      <3>1. /\ Len(tabs) \in Nat /\ DOMAIN tabs = 1 .. Len(tabs)
            /\ DOMAIN tabs' = 1 .. Len(tabs) - 1
            /\ \A x \in 1 .. Len(tabs) - 1 : tabs'[x] = tabs[old(x)]
        BY <2>1, RemoveAtList DEF TabsInv
      <3>2. /\ old(j) \in DOMAIN tabs /\ tabs'[j] = tabs[old(j)]
            /\ old(k) \in DOMAIN tabs /\ tabs'[k] = tabs[old(k)]
        BY <2>1, <3>1
      <3>3. old(j) = old(k)
        <4> HIDE DEF old
        <4> QED BY <2>5, <3>2 DEF Tidy
      <3> QED BY <2>1, <3>1, <3>3
    <2>6. Tidy => Tidy'
      BY <2>4, <2>5 DEF Tidy
    <2>7. SavesShownProof'
      BY <2>3 DEF SavesInv, SavesShownProof
    <2>8. \A n \in DOMAIN proofs' : proofs'[n] # NoWidget
      BY <2>3 DEF SavesInv
    <2> QED BY <2>1, <2>2, <2>3, <2>6, <2>7, <2>8 DEF SavesInv
  <1>9. CASE Switch
    BY <1>9, Traffic, SavesKept DEF Switch, Handling, Passes
  <1>10. CASE GetCurrent
    <2> DEFINE h == Head(queue)
    <2>1. /\ h.msg = "GetCurrent" /\ UNCHANGED <<tabs, proofs, clash, made>>
          /\ \/ saved' = saved
             \/ /\ current < Len(tabs)
                /\ LET t == tabs[current + 1]
                   IN  saved' = [widget |-> IF t.name \in DOMAIN h.proofs THEN h.proofs[t.name]
                                            ELSE NoWidget,
                                 shown |-> t.widget]
      BY <1>10 DEF GetCurrent, Handling
    <2>2. h \in Entries(queue) /\ Entries(queue) = {h} /\ Entries(queue') = {}
      BY <1>10, <2>1, Traffic DEF Passes, Solo
    <2>3. h.proofs = proofs
      BY <2>1, <2>2 DEF SavesInv
    <2> HIDE DEF h
    <2>4. CASE saved' = saved
      BY <2>1, <2>2, <2>4, SavesKept
    <2>5. CASE current < Len(tabs) /\ saved' # saved
      <3> DEFINE t == tabs[current + 1]
                 v == IF t.name \in DOMAIN proofs THEN proofs[t.name] ELSE NoWidget
      <3>1. saved' = [widget |-> v, shown |-> t.widget]
        BY <2>1, <2>3, <2>5
      <3>2. t \in Entries(tabs)
        <4>1. current + 1 \in DOMAIN tabs
          BY <2>5 DEF TabsInv, IsList
        <4> QED BY <4>1 DEF Entries
      <3> HIDE DEF t
      <3>3. ASSUME Tidy PROVE v = t.widget
        <4>1. CASE t.widget # NoWidget
          <5>1. Registers(t)
            BY <3>2, <3>3, <4>1 DEF Tidy
          <5> QED BY <2>1, <2>2, <5>1 DEF Registers
        <4>2. CASE t.widget = NoWidget /\ t.name \in DOMAIN proofs
          <5>1. ~Closing(t.name)
            BY <3>2, <3>3 DEF Tidy
          <5>2. HasTab(t.name, proofs[t.name])
            BY <4>2, <5>1 DEF LinksInv
          <5>3. PICK s \in Entries(tabs) : s.name = t.name /\ s.widget = proofs[t.name]
            BY <5>2 DEF HasTab
          <5>4. s = t
            BY <3>2, <3>3, <5>3, OneTabPerName
          <5>5. proofs[t.name] # NoWidget
            BY <4>2 DEF SavesInv
          <5> QED BY <4>2, <5>3, <5>4, <5>5
        <4>3. CASE t.widget = NoWidget /\ t.name \notin DOMAIN proofs
          BY <4>3
        <4> QED BY <4>1, <4>2, <4>3
      <3> HIDE DEF v
      <3>4. saved'.widget = v /\ saved'.shown = t.widget
        BY <3>1
      <3>5. ~clash => Tidy
        BY DEF SavesInv
      <3>6. SavesShownProof'
        BY <2>1, <3>3, <3>4, <3>5 DEF SavesShownProof
      <3>7. Tidy => Tidy'
        BY <2>1, <2>2 DEF Tidy, Registers, Closing
      <3> QED BY <2>1, <2>2, <3>6, <3>7 DEF SavesInv
    <2> QED BY <2>1, <2>4, <2>5
  <1>11. CASE FileNew
    BY <1>11, Traffic, SavesKept DEF FileNew, Handling, Passes, CreateTab
  <1>12. CASE NewExprTree
    BY <1>12, Traffic, SavesKept DEF NewExprTree, Handling, Passes, CreateTab
  <1>13. CASE FileSave
    BY <1>13, Traffic, SavesKept DEF FileSave, Handling, Passes, Msg
  <1>14. CASE FileOpen
    BY <1>14, Traffic, SavesKept DEF FileOpen, Handling, Passes
  <1>15. CASE ClickMenu
    <2>1. UNCHANGED <<tabs, proofs, clash, made>> /\ Entries(queue) = {} /\ saved' = NothingSaved
      BY <1>15, Browser
    <2>2. \A m \in Entries(queue') : m.msg \in Menu
      BY <1>15, Browser
    <2> QED BY <2>1, <2>2, SavesKept DEF Menu
  <1>16. CASE ClickTab
    BY <1>16, Browser, SavesKept
  <1>17. CASE OnLoad
    <2>1. UNCHANGED <<tabs, proofs, clash, made, saved>> /\ Entries(queue) = {}
      BY <1>17, Browser DEF OnLoad
    <2>2. \A m \in Entries(queue') : m.msg = "CreateTab"
      BY <1>17, Browser DEF Asked, CreateTab
    <2> QED BY <2>1, <2>2, SavesKept
  <1>18. CASE LoadFails
    BY <1>18, Browser, SavesKept DEF LoadFails
  <1>19. CASE UNCHANGED vars
    BY <1>19, SavesKept DEF vars
  <1> QED
    BY <1>1, <1>2, <1>3, <1>4, <1>5, <1>6, <1>7, <1>8, <1>9, <1>10, <1>11, <1>12, <1>13, <1>14,
       <1>15, <1>16, <1>17, <1>18, <1>19 DEF Next, Handle

(* As long as no two tabs had one name, saving writes the proof of the tab *)
(* that is shown, and nothing for an expression tree, although the widget  *)
(* is found by the tab's name in a copy of the registered ones.            *)
THEOREM SavesWhatIsShown == Spec => []SavesShownProof
  <1> DEFINE I == QueueInv /\ TabsInv /\ LinksInv /\ SavesInv
  <1>1. Init => I
    BY QueueInit, TabsInit, LinksInit, SavesInit
  <1>2. I /\ [Next]_vars => I'
    BY QueueStep, TabsStep, LinksStep, SavesStep
  <1>3. I => SavesShownProof
    BY DEF SavesInv
  <1> HIDE DEF I
  <1> QED BY <1>1, <1>2, <1>3, PTL DEF Spec

=============================================================================
