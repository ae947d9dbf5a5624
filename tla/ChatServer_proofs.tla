--------------------------- MODULE ChatServer_proofs ---------------------------
(***************************************************************************)
(* Proofs about the chat server, for every table size and every set of     *)
(* connections, user names and lines.                                      *)
(***************************************************************************)
EXTENDS ChatServerRoom, FiniteSetTheorems, WellFoundedInduction, TLAPS

-------------------------------------------------------------------------------
(* The inductive invariant.                                                *)

Broken == {"fin", "rst", "dead"}

\* The accept queue holds different connections, none of them in the table or
\* closed, and new_client is only called when it is not empty.
QueueOK ==
  /\ pc = "accept" => backlog # <<>>
  /\ \A i \in DOMAIN backlog : link[backlog[i]] # "new" /\ backlog[i] \notin closed
  /\ \A i, j \in DOMAIN backlog : i # j => backlog[i] # backlog[j]
  /\ \A c \in closed : link[c] # "new"

\* CountCoversSlots makes room for an accepted connection whenever new_client
\* admits it; QueueOK and DescriptorsKept carry each other.
IInv ==
  /\ TypeOK
  /\ CountCoversSlots
  /\ DescriptorsKept
  /\ QueueOK
  /\ UniqueNames
  /\ ReadNeverBlocks

-------------------------------------------------------------------------------
(* Finite sets of slots.                                                   *)

\* A nonempty set of naturals has a least element.
LEMMA Least ==
  ASSUME NEW T \in SUBSET Nat, T # {}
  PROVE  \E x \in T : \A y \in T : x <= y
<1> DEFINE R == StrictSubsetOrdering(Nat)
           F == FiniteSubsetsOf(Nat)
           I == {1 .. x : x \in T}
<1>1. IsWellFoundedOn(R, F)
  BY FS_StrictSubsetOrderingWellFounded
<1>2. I \subseteq F
  <2>1. \A x \in T : IsFiniteSet(1 .. x)
    BY FS_Interval
  <2> QED BY <2>1 DEF FiniteSubsetsOf
<1>3. I # {}
  OBVIOUS
<1>4. \E U \in I : \A V \in I : ~ (<<V, U>> \in R)
  <2> HIDE DEF R, F, I
  <2> QED BY <1>1, <1>2, <1>3, WFMin
<1>5. PICK x \in T : \A y \in T : ~ (<<1 .. y, 1 .. x>> \in R)
  BY <1>4
<1>6. ASSUME NEW y \in T, y < x PROVE <<1 .. y, 1 .. x>> \in R
  <2>1. x \in 1 .. x /\ x \notin 1 .. y
    BY <1>6
  <2>2. 1 .. y \subseteq 1 .. x
    BY <1>6
  <2>3. 1 .. y # 1 .. x
    BY <2>1
  <2> QED BY <2>2, <2>3 DEF StrictSubsetOrdering
<1>7. \A y \in T : ~ (y < x)
  BY <1>5, <1>6
<1>8. \A y \in T : x <= y
  BY <1>7
<1> QED BY <1>8

\* The table has MAXCLIENT slots, and the slots in use can be counted.
LEMMA SlotsFinite ==
  /\ IsFiniteSet(Slot) /\ Cardinality(Slot) = MAXCLIENT
  /\ IsFiniteSet(Occupied) /\ Cardinality(Occupied) \in 0 .. MAXCLIENT
<1>1. MAXCLIENT \in Nat \ {0}
  BY ChatAssumption
<1>2. IsFiniteSet(Slot) /\ Cardinality(Slot) = MAXCLIENT
  BY <1>1, FS_Interval DEF Slot
<1>3. Occupied \in SUBSET Slot
  BY DEF Occupied
<1>4. IsFiniteSet(Occupied) /\ Cardinality(Occupied) <= MAXCLIENT
  BY <1>2, <1>3, FS_Subset
<1>5. Cardinality(Occupied) \in Nat
  BY <1>4, FS_CardinalityType
<1> QED BY <1>1, <1>2, <1>4, <1>5

\* new_client always finds a slot for the client it admits, exactly one.
LEMMA SlotForClient ==
  ASSUME TypeOK, CountCoversSlots, ~Full
  PROVE  \E s \in Slot : status[s] = "NONE" /\ Taken = {s}
<1> DEFINE F == {s \in Slot : status[s] = "NONE"}
<1>1. Cardinality(Occupied) < MAXCLIENT
  BY SlotsFinite, ChatAssumption DEF TypeOK, CountCoversSlots, Full
<1>2. F # {}
  <2>1. Occupied # Slot
    BY <1>1, SlotsFinite, ChatAssumption
  <2> QED BY <2>1 DEF Occupied
<1>3. F \in SUBSET Nat
  BY DEF Slot
<1>4. PICK s \in F : \A t \in F : s <= t
  BY <1>2, <1>3, Least
<1>5. \A t \in Slot : t \in F => t >= s
  BY <1>3, <1>4
<1>6. s \in Taken
  BY <1>4, <1>5 DEF Taken, Slot
<1>7. \A t \in Taken : t = s
  <2> SUFFICES ASSUME NEW t \in Taken PROVE t = s
    OBVIOUS
  <2>1. t \in F /\ ~ (s < t)
    BY <1>4 DEF Taken
  <2>2. s <= t
    BY <1>4, <2>1
  <2>3. s \in Nat /\ t \in Nat
    BY <2>1, <1>3
  <2> QED BY <2>1, <2>2, <2>3
<1> QED BY <1>4, <1>6, <1>7

-------------------------------------------------------------------------------
(* What writing does to the links.                                         *)

LinksKept(l, k) ==
  \A c \in Conn :
    /\ k[c] = "new" <=> l[c] = "new"
    /\ l[c] \in Broken => k[c] \in Broken

\* Writes open no connection and heal none.
LEMMA DeliverLinks ==
  ASSUME NEW l \in [Conn -> Link], NEW early, NEW out, Deliver(l, early, out)
  PROVE  link' \in [Conn -> Link] /\ LinksKept(l, link')
<1>1. link' \in [Conn -> Link]
  BY DEF Deliver
<1>2. ASSUME NEW c \in Conn, NEW n, NEW k \in Survive(l[c], n)
      PROVE  /\ k = "new" <=> l[c] = "new"
             /\ l[c] \in Broken => k \in Broken
  BY <1>2 DEF Survive, Link, Broken
<1>3. \A c \in Conn : link'[c] \in Survive(l[c], Len(early[c] \o out[c]))
  BY DEF Deliver
<1> QED BY <1>1, <1>2, <1>3 DEF LinksKept

\* What is delivered consists of messages.
LEMMA DeliverSent ==
  ASSUME sent \in [Conn -> Seq(Msg)], NEW l, NEW early \in [Conn -> Seq(Msg)],
         NEW out \in [Conn -> Seq(Msg)], Deliver(l, early, out)
  PROVE  sent' \in [Conn -> Seq(Msg)]
BY DEF Deliver

-------------------------------------------------------------------------------
(* What the handlers write are messages.                                   *)

LEMMA MsgTypes ==
  /\ \A k \in {"accepted", "rejected", "registered", "nameRejected"} : Plain(k) \in Msg
  /\ \A k \in {"join", "left", "entry"}, n \in Name \cup {NoName} : About(k, n) \in Msg
  /\ \A n \in Name \cup {NoName}, t \in Seq(Piece) : Chat(n, t) \in Msg
BY DEF Plain, About, Chat, Msg

LEMMA OutTypes ==
  /\ Nothing \in [Conn -> Seq(Msg)]
  /\ \A c \in Conn, ms \in Seq(Msg) : Only(c, ms) \in [Conn -> Seq(Msg)]
  /\ \A T \in SUBSET Slot, m \in Msg : ToAll(T, m) \in [Conn -> Seq(Msg)]
BY DEF Nothing, Only, ToAll
\* A single answer to one client.
LEMMA PlainOut ==
  ASSUME NEW c \in Conn, NEW k \in {"accepted", "rejected", "registered", "nameRejected"}
  PROVE  Only(c, <<Plain(k)>>) \in [Conn -> Seq(Msg)]
<1>1. Plain(k) \in Msg
  BY MsgTypes
<1>2. <<Plain(k)>> \in Seq(Msg)
  BY <1>1
<1> QED BY <1>2, OutTypes

\* The answer to /list is a sequence of entries.
LEMMA NameListTypes ==
  ASSUME TypeOK, NEW q \in SlotOrder
  PROVE  /\ NameList(q) \in Seq(Msg)
         /\ \A i \in DOMAIN NameList(q) : NameList(q)[i].kind = "entry"
<1>1. Cardinality(Members) \in Nat
  <2>1. Members \in SUBSET Slot
    BY DEF Members
  <2> QED BY <2>1, SlotsFinite, FS_Subset, FS_CardinalityType
<1>2. \A i \in DOMAIN q : name[q[i]] \in Name \cup {NoName}
  BY DEF SlotOrder, Members, TypeOK
<1>3. DOMAIN q = 1 .. Cardinality(Members)
  BY DEF SlotOrder
<1>4. \A i \in DOMAIN q : About("entry", name[q[i]]) \in Msg
  BY <1>2, MsgTypes
<1>5. NameList(q) \in Seq(Msg)
  BY <1>1, <1>3, <1>4 DEF NameList
<1> QED BY <1>5 DEF NameList, About

\* Every answer handle_massage gives is made of messages.
LEMMA ReplyTypes ==
  ASSUME TypeOK, NEW s \in Slot, sock[s] \in Conn, NEW text \in Seq(Piece),
         NEW out \in Reply(s, text)
  PROVE  out \in [Conn -> Seq(Msg)]
<1>1. CASE text = <<ListCmd>>
  <2>1. PICK q \in SlotOrder : out = Only(sock[s], NameList(q))
    BY <1>1 DEF Reply
  <2> QED BY <2>1, NameListTypes, OutTypes
<1>2. CASE text # <<ListCmd>>
  <2>1. out = ToAll(Members, Chat(name[s], text))
    BY <1>2 DEF Reply
  <2>2. Chat(name[s], text) \in Msg
    BY MsgTypes DEF TypeOK
  <2> QED BY <2>1, <2>2, OutTypes DEF Members
<1> QED BY <1>1, <1>2

-------------------------------------------------------------------------------
(* Steps that leave the table alone.                                       *)

\* Nothing but the table, the accept queue and the closed connections matters
\* to the table's invariants, and of a link only that it has begun.
LEMMA TableFrame ==
  ASSUME TypeOK, UNCHANGED <<table, backlog, closed>>, LinksKept(link, link')
  PROVE  /\ CountCoversSlots => CountCoversSlots'
         /\ DescriptorsKept => DescriptorsKept'
         /\ UniqueNames => UniqueNames'
         /\ QueueOK /\ pc' # "accept" => QueueOK'
<1>1. Occupied' = Occupied /\ Members' = Members
  BY DEF Occupied, Members, table
<1>2. ASSUME QueueOK, pc' # "accept" PROVE QueueOK'
  <2>1. closed \subseteq Conn /\ \A i \in DOMAIN backlog : backlog[i] \in Conn
    BY DEF TypeOK
  <2> QED BY <2>1, <1>2 DEF QueueOK, LinksKept
<1>3. Accepted' = Accepted
  BY DEF Accepted, LinksKept
<1>4. UniqueNames => UniqueNames'
  BY <1>1 DEF UniqueNames, table
<1>5. DescriptorsKept => DescriptorsKept'
  BY <1>1, <1>3 DEF DescriptorsKept, table
<1>6. CountCoversSlots => CountCoversSlots'
  BY <1>1 DEF CountCoversSlots, table
<1> QED BY <1>2, <1>4, <1>5, <1>6

LEMMA SelectStep ==
  ASSUME IInv, Select
  PROVE  IInv'
<1> USE DEF IInv
<1>1. UNCHANGED <<table, backlog, link, inbox, sent, closed, peers>>
  BY DEF Select
<1>2. LinksKept(link, link')
  BY <1>1 DEF LinksKept
<1>3. ready' \subseteq Slot /\ pc' \in {"accept", "scan"}
  BY DEF Select, ReadableSlots, Occupied
<1>4. TypeOK'
  BY <1>1, <1>3 DEF TypeOK, table, peers
<1>5. QueueOK'
  BY <1>1 DEF QueueOK, Select
<1>6. ReadNeverBlocks'
  BY <1>1 DEF ReadNeverBlocks, Select, ReadableSlots, Readable, table
<1> QED BY <1>1, <1>2, <1>4, <1>5, <1>6, TableFrame

LEMMA SyscallFailsStep ==
  ASSUME IInv, SyscallFails
  PROVE  IInv'
<1> USE DEF IInv
<1>1. UNCHANGED <<table, ready, backlog, link, inbox, sent, closed, peers>> /\ pc' = "exited"
  BY DEF SyscallFails
<1>2. LinksKept(link, link')
  BY <1>1 DEF LinksKept
<1>3. TypeOK'
  BY <1>1 DEF TypeOK, table, peers
<1>4. ReadNeverBlocks'
  BY <1>1 DEF ReadNeverBlocks
<1> QED BY <1>1, <1>2, <1>3, <1>4, TableFrame

\* A handler that SIGPIPE interrupts leaves everything but what was delivered.
LEMMA KilledStep ==
  ASSUME IInv, NEW l \in [Conn -> Link], LinksKept(link, l),
         NEW early \in [Conn -> Seq(Msg)], NEW out \in [Conn -> Seq(Msg)],
         Killed(l, early, out)
  PROVE  IInv'
<1> USE DEF IInv
<1>1. /\ UNCHANGED <<table, ready, backlog, inbox, closed, peers>>
      /\ pc' = "killed" /\ link' = l
  BY DEF Killed
<1>2. sent' \in [Conn -> Seq(Msg)]
  BY DEF Killed, TypeOK
<1>3. TypeOK'
  BY <1>1, <1>2 DEF TypeOK, table, peers
<1>4. ReadNeverBlocks'
  BY <1>1 DEF ReadNeverBlocks
<1> QED BY <1>1, <1>3, <1>4, TableFrame
-------------------------------------------------------------------------------
(* The peers.                                                              *)

LEMMA ConnectStep ==
  ASSUME IInv, NEW c \in Conn, Connect(c)
  PROVE  IInv'
<1> USE DEF IInv
<1>1. /\ link[c] = "new"
      /\ link' = [link EXCEPT ![c] = "open"]
      /\ backlog' = Append(backlog, c)
      /\ UNCHANGED <<table, loop, inbox, sent, closed, peers>>
  BY DEF Connect
<1>2. backlog' \in Seq(Conn) /\ backlog' # <<>>
  <2>1. backlog \in Seq(Conn)
    BY DEF TypeOK
  <2>2. backlog' \in Seq(Conn) /\ Len(backlog') = Len(backlog) + 1
    BY <1>1, <2>1
  <2>3. Len(backlog') # 0
    BY <2>1, <2>2
  <2> QED BY <2>2, <2>3
<1>3. TypeOK'
  BY <1>1, <1>2 DEF TypeOK, table, loop, peers, Link
<1>4. /\ DOMAIN backlog = 1 .. Len(backlog) /\ Len(backlog) \in Nat
      /\ DOMAIN backlog' = 1 .. Len(backlog) + 1
      /\ backlog'[Len(backlog) + 1] = c
      /\ \A i \in DOMAIN backlog : backlog'[i] = backlog[i] /\ backlog[i] \in Conn
  BY SMTT(20), <1>1 DEF TypeOK
<1>5. \A i \in DOMAIN backlog : backlog[i] # c
  BY <1>1 DEF QueueOK
<1>6. c \notin closed
  BY <1>1 DEF QueueOK
<1>7. QueueOK'
  <2>1. (pc = "accept" => backlog # <<>>)'
    BY <1>2
  <2>2. \A i \in DOMAIN backlog' : link'[backlog'[i]] # "new" /\ backlog'[i] \notin closed'
    <3> SUFFICES ASSUME NEW i \in DOMAIN backlog'
                 PROVE  link'[backlog'[i]] # "new" /\ backlog'[i] \notin closed'
      OBVIOUS
    <3>1. CASE i \in DOMAIN backlog
      BY <3>1, <1>1, <1>4, <1>5 DEF QueueOK, TypeOK
    <3>2. CASE i = Len(backlog) + 1
      BY <3>2, <1>1, <1>4, <1>6 DEF TypeOK
    <3> QED BY <3>1, <3>2, <1>4
  <2>3. \A i, j \in DOMAIN backlog' : i # j => backlog'[i] # backlog'[j]
    BY <1>4, <1>5 DEF QueueOK
  <2>4. \A d \in closed' : link'[d] # "new"
    BY <1>1, <1>6 DEF QueueOK, TypeOK
  <2> QED BY <2>1, <2>2, <2>3, <2>4 DEF QueueOK
<1>8. Accepted' = Accepted
  <2>1. \A d \in Conn : (\A i \in DOMAIN backlog' : backlog'[i] # d)
                        <=> (d # c /\ \A i \in DOMAIN backlog : backlog[i] # d)
    BY <1>4
  <2>2. c \notin Accepted /\ \A d \in Conn \ {c} : link'[d] = link[d]
    BY <1>1 DEF Accepted, TypeOK
  <2> QED BY <2>1, <2>2 DEF Accepted
<1>9. Occupied' = Occupied /\ Members' = Members
  BY <1>1 DEF Occupied, Members, table
<1>10. DescriptorsKept' /\ UniqueNames' /\ CountCoversSlots'
  BY <1>1, <1>8, <1>9 DEF DescriptorsKept, UniqueNames, CountCoversSlots, table
<1>11. ReadNeverBlocks'
  <2>1. \A s \in Occupied : sock[s] # c
    BY <1>1 DEF DescriptorsKept, Accepted
  <2> QED BY <1>1, <2>1 DEF ReadNeverBlocks, Readable, Occupied, table, loop, TypeOK
<1> QED BY <1>3, <1>7, <1>10, <1>11

\* A peer that sends or goes away changes its own link and inbox only.
LEMMA PeerFrame ==
  ASSUME IInv, UNCHANGED <<table, loop, backlog, closed>>, LinksKept(link, link'),
         \A c \in Conn : inbox[c] # <<>> => inbox'[c] # <<>>
  PROVE  CountCoversSlots' /\ DescriptorsKept' /\ QueueOK' /\ UniqueNames' /\ ReadNeverBlocks'
<1> USE DEF IInv
<1>1. QueueOK'
  <2>1. closed \subseteq Conn /\ \A i \in DOMAIN backlog : backlog[i] \in Conn
    BY DEF TypeOK
  <2> QED BY <2>1 DEF QueueOK, LinksKept, loop
<1>2. \A c \in Conn : Readable(c) => Readable(c)'
  BY DEF Readable, LinksKept, Broken
<1>3. \A s \in Occupied : sock[s] \in Conn
  BY DEF DescriptorsKept, Accepted
<1>4. ReadNeverBlocks'
  BY <1>2, <1>3 DEF ReadNeverBlocks, Occupied, table, loop, TypeOK
<1> QED BY <1>1, <1>4, TableFrame

LEMMA SendNameStep ==
  ASSUME IInv, NEW c \in Conn, NEW u \in Username, SendName(c, u)
  PROVE  IInv'
<1> USE DEF IInv
<1>1. /\ named' = named \cup {c}
      /\ inbox' = [inbox EXCEPT ![c] = @ \o NameLine(u)]
      /\ UNCHANGED <<table, loop, backlog, link, sent, closed, typed>>
  BY DEF SendName
<1>2. NameLine(u) \in Seq(Piece)
  <2>1. u \in Piece /\ Rest \in Piece
    BY DEF Piece
  <2>2. <<u, Rest>> \in Seq(Piece) /\ <<u>> \in Seq(Piece)
    BY <2>1
  <2> QED BY <2>2 DEF NameLine
<1>3. TypeOK'
  BY <1>1, <1>2 DEF TypeOK, table, loop
<1>4. \A d \in Conn : inbox[d] # <<>> => inbox'[d] # <<>>
  <2>1. inbox[c] \in Seq(Piece)
    BY DEF TypeOK
  <2>2. inbox[c] # <<>> => inbox[c] \o NameLine(u) # <<>>
    BY <1>2, <2>1
  <2> QED BY <1>1, <2>2 DEF TypeOK
<1> QED BY <1>1, <1>3, <1>4, PeerFrame DEF LinksKept

LEMMA SendLineStep ==
  ASSUME IInv, NEW c \in Conn, NEW x \in Line, SendLine(c, x)
  PROVE  IInv'
<1> USE DEF IInv
<1>1. /\ typed[c] < MaxLines
      /\ typed' = [typed EXCEPT ![c] = @ + 1]
      /\ inbox' = [inbox EXCEPT ![c] = Append(@, x)]
      /\ UNCHANGED <<table, loop, backlog, link, sent, closed, named>>
  BY DEF SendLine
<1>2. typed' \in [Conn -> 0 .. MaxLines]
  BY <1>1, ChatAssumption DEF TypeOK
<1>3. inbox' \in [Conn -> Seq(Piece)]
  BY <1>1 DEF TypeOK, Piece
<1>4. TypeOK'
  BY <1>1, <1>2, <1>3 DEF TypeOK, table, loop
<1>5. \A d \in Conn : inbox[d] # <<>> => inbox'[d] # <<>>
  BY <1>1 DEF TypeOK, Piece
<1> QED BY <1>1, <1>4, <1>5, PeerFrame DEF LinksKept

LEMMA HangupStep ==
  ASSUME IInv, NEW c \in Conn, Hangup(c)
  PROVE  IInv'
<1> USE DEF IInv
<1>1. PICK k \in {"fin", "rst"} : link' = [link EXCEPT ![c] = k]
  BY DEF Hangup
<1>2. link[c] = "open" /\ UNCHANGED <<table, loop, backlog, inbox, sent, closed, peers>>
  BY DEF Hangup
<1>3. TypeOK'
  BY <1>1, <1>2 DEF TypeOK, table, loop, peers, Link
<1>4. link'[c] \in {"fin", "rst"} /\ \A d \in Conn \ {c} : link'[d] = link[d]
  BY <1>1 DEF TypeOK
<1>5. LinksKept(link, link')
  <2>1. ASSUME NEW d \in Conn
        PROVE  /\ link'[d] = "new" <=> link[d] = "new"
               /\ link[d] \in Broken => link'[d] \in Broken
    BY <1>2, <1>4 DEF Broken
  <2> QED BY <2>1 DEF LinksKept
<1> QED BY <1>2, <1>3, <1>5, PeerFrame
-------------------------------------------------------------------------------
(* new_client.                                                             *)

\* The connection at the head of the accept queue is new to the table; once it
\* is taken off, the queue is still in order.
LEMMA QueueHead ==
  ASSUME IInv, pc = "accept", pc' = "select", backlog' = Tail(backlog), LinksKept(link, link'),
         closed' \subseteq closed \cup {Head(backlog)}
  PROVE  /\ Head(backlog) \in Conn \ closed
         /\ backlog' \in Seq(Conn)
         /\ \A s \in Occupied : sock[s] # Head(backlog)
         /\ Accepted' = Accepted \cup {Head(backlog)}
         /\ QueueOK'
<1> USE DEF IInv
<1> DEFINE c == Head(backlog)
<1>1. backlog \in Seq(Conn) /\ backlog # <<>>
  BY DEF TypeOK, QueueOK
<1>2. /\ Len(backlog) \in Nat \ {0} /\ DOMAIN backlog = 1 .. Len(backlog)
      /\ c = backlog[1] /\ c \in Conn
  BY <1>1
<1>3. /\ backlog' \in Seq(Conn) /\ DOMAIN backlog' = 1 .. Len(backlog) - 1
      /\ \A i \in DOMAIN backlog' : i + 1 \in DOMAIN backlog /\ backlog'[i] = backlog[i + 1]
  BY <1>1, <1>2
<1>4. \A i \in DOMAIN backlog' : backlog'[i] \in Conn /\ backlog'[i] # c
  BY <1>1, <1>2, <1>3 DEF QueueOK
<1>5. \A d \in Conn : (\A i \in DOMAIN backlog : backlog[i] # d)
                      <=> (d # c /\ \A i \in DOMAIN backlog' : backlog'[i] # d)
  <2>1. \A i \in DOMAIN backlog : i = 1 \/ (i - 1 \in DOMAIN backlog' /\ backlog'[i - 1] = backlog[i])
    BY <1>2, <1>3
  <2> QED BY <1>2, <1>3, <2>1
<1>6. link[c] # "new" /\ c \notin closed
  BY <1>2 DEF QueueOK
<1>7. Accepted' = Accepted \cup {c}
  BY <1>2, <1>4, <1>5, <1>6 DEF Accepted, LinksKept
<1>8. c \notin Accepted
  BY <1>2 DEF Accepted
<1>9. \A s \in Occupied : sock[s] # c
  BY <1>8 DEF DescriptorsKept
<1>10. QueueOK'
  <2>1. \A i \in DOMAIN backlog' : link'[backlog'[i]] # "new" /\ backlog'[i] \notin closed'
    BY <1>3, <1>4 DEF QueueOK, LinksKept
  <2>2. \A i, j \in DOMAIN backlog' : i # j => backlog'[i] # backlog'[j]
    BY <1>2, <1>3 DEF QueueOK
  <2>3. \A d \in closed' : link'[d] # "new"
    BY <1>2, <1>6 DEF QueueOK, LinksKept, TypeOK
  <2> QED BY <2>1, <2>2, <2>3 DEF QueueOK
<1> QED BY <1>2, <1>3, <1>6, <1>7, <1>9, <1>10

LEMMA AcceptStep ==
  ASSUME IInv, NewClient, AcceptClient(Head(backlog))
  PROVE  IInv'
<1> USE DEF IInv
<1> DEFINE c == Head(backlog)
<1>1. /\ pc = "accept" /\ pc' = "select" /\ backlog' = Tail(backlog)
      /\ UNCHANGED <<ready, inbox, peers>>
  BY DEF NewClient
<1>2. PICK s \in Slot : status[s] = "NONE" /\ Taken = {s}
  BY SlotForClient DEF AcceptClient
<1>3. /\ ~Full
      /\ sock' = [sock EXCEPT ![s] = c]
      /\ status' = [status EXCEPT ![s] = "CONNECTING"]
      /\ client_count' = client_count + 1
      /\ Deliver(link, Nothing, Only(c, <<Plain("accepted")>>))
      /\ UNCHANGED <<name, closed>>
  BY <1>2 DEF AcceptClient, TypeOK
<1>4. link' \in [Conn -> Link] /\ LinksKept(link, link')
  BY <1>3, DeliverLinks DEF TypeOK
<1>5. /\ c \in Conn \ closed /\ backlog' \in Seq(Conn) /\ QueueOK'
      /\ \A t \in Occupied : sock[t] # c
      /\ Accepted' = Accepted \cup {c}
  BY <1>1, <1>3, <1>4, QueueHead
<1>6. sent' \in [Conn -> Seq(Msg)]
  <2>1. Only(c, <<Plain("accepted")>>) \in [Conn -> Seq(Msg)]
    BY <1>5, PlainOut
  <2> QED BY <1>3, <2>1, OutTypes, DeliverSent DEF TypeOK
<1>7. TypeOK'
  <2>1. client_count' \in 0 .. MAXCLIENT
    BY <1>3, ChatAssumption DEF Full, TypeOK
  <2> QED BY <1>1, <1>3, <1>4, <1>5, <1>6, <2>1 DEF TypeOK, peers
<1>8. Occupied' = Occupied \cup {s} /\ s \notin Occupied /\ Members' = Members
  BY <1>2, <1>3 DEF Occupied, Members, TypeOK
<1>9. CountCoversSlots'
  <2>1. Cardinality(Occupied') = Cardinality(Occupied) + 1
    BY <1>8, SlotsFinite, FS_AddElement
  <2>2. Cardinality(Occupied) <= client_count
    BY DEF CountCoversSlots
  <2>3. Cardinality(Occupied) \in Int /\ client_count \in Int
    BY SlotsFinite DEF TypeOK
  <2>4. Cardinality(Occupied') <= client_count'
    BY <1>3, <2>1, <2>2, <2>3
  <2> QED BY <2>4 DEF CountCoversSlots
<1>10. DescriptorsKept'
  <2>1. sock'[s] = c /\ \A t \in Occupied : sock'[t] = sock[t]
    BY <1>2, <1>3, <1>8 DEF TypeOK, Occupied
  <2>2. {sock'[t] : t \in Occupied'} = {sock[t] : t \in Occupied} \cup {c}
    BY <1>8, <2>1
  <2>3. Accepted' \ closed' = (Accepted \ closed) \cup {c}
    BY <1>3, <1>5
  <2>4. \A t, u \in Occupied' : t # u => sock'[t] # sock'[u]
    BY <1>5, <1>8, <2>1 DEF DescriptorsKept
  <2> QED BY <2>2, <2>3, <2>4 DEF DescriptorsKept
<1>11. UniqueNames' /\ ReadNeverBlocks'
  BY <1>1, <1>3, <1>8 DEF UniqueNames, ReadNeverBlocks
<1> QED BY <1>5, <1>7, <1>9, <1>10, <1>11

LEMMA RejectStep ==
  ASSUME IInv, NewClient, RejectClient(Head(backlog))
  PROVE  IInv'
<1> USE DEF IInv
<1> DEFINE c == Head(backlog)
<1>1. /\ pc = "accept" /\ pc' = "select" /\ backlog' = Tail(backlog)
      /\ UNCHANGED <<ready, inbox, peers>>
  BY DEF NewClient
<1>2. /\ Deliver(link, Nothing, Only(c, <<Plain("rejected")>>))
      /\ closed' = closed \cup {c}
      /\ UNCHANGED <<sock, name, status, client_count>>
  BY DEF RejectClient, table
<1>3. link' \in [Conn -> Link] /\ LinksKept(link, link')
  BY <1>2, DeliverLinks DEF TypeOK
<1>4. /\ c \in Conn \ closed /\ backlog' \in Seq(Conn) /\ QueueOK'
      /\ \A t \in Occupied : sock[t] # c
      /\ Accepted' = Accepted \cup {c}
  BY <1>1, <1>2, <1>3, QueueHead
<1>5. sent' \in [Conn -> Seq(Msg)]
  <2>1. Only(c, <<Plain("rejected")>>) \in [Conn -> Seq(Msg)]
    BY <1>4, PlainOut
  <2> QED BY <1>2, <2>1, OutTypes, DeliverSent DEF TypeOK
<1>6. TypeOK'
  BY <1>1, <1>2, <1>3, <1>4, <1>5 DEF TypeOK, peers
<1>7. Occupied' = Occupied /\ Members' = Members
  BY <1>2 DEF Occupied, Members
<1>8. DescriptorsKept'
  <2>1. Accepted' \ closed' = Accepted \ closed
    <3>1. c \notin Accepted \ closed
      BY <1>4 DEF DescriptorsKept
    <3> QED BY <1>2, <1>4, <3>1
  <2> QED BY <1>2, <1>7, <2>1 DEF DescriptorsKept
<1>9. CountCoversSlots' /\ UniqueNames' /\ ReadNeverBlocks'
  BY <1>1, <1>2, <1>7 DEF CountCoversSlots, UniqueNames, ReadNeverBlocks
<1> QED BY <1>4, <1>6, <1>8, <1>9
-------------------------------------------------------------------------------
(* The scan.                                                               *)

\* The slot s has been served and has lost neither its own input's bytes to
\* another slot nor the others theirs.
LEMMA ScanStep ==
  ASSUME IInv, pc = "scan", NEW s \in ready, status[s] # "NONE", LinksKept(link, link'),
         Scanned(s),
         \A t \in Slot \ {s} : status'[t] = status[t] /\ sock'[t] = sock[t],
         \A d \in Conn \ {sock[s]} : inbox'[d] = inbox[d]
  PROVE  ReadNeverBlocks' /\ ready' \subseteq Slot /\ pc' \in {"scan", "select"}
<1> USE DEF IInv
<1>1. ready' = ready \ {s} /\ pc' \in {"scan", "select"}
  BY DEF Scanned
<1>2. ready \subseteq Slot
  BY DEF TypeOK
<1>3. ASSUME NEW t \in ready', status'[t] # "NONE"
      PROVE  Readable(sock[t])'
  <2>1. t \in ready /\ t # s /\ t \in Slot /\ s \in Slot
    BY <1>1, <1>2
  <2>2. status[t] # "NONE" /\ sock'[t] = sock[t]
    BY <1>3, <2>1
  <2>3. t \in Occupied /\ s \in Occupied
    BY <2>1, <2>2 DEF Occupied
  <2>4. sock[t] \in Conn /\ sock[t] # sock[s]
    BY <2>1, <2>3 DEF DescriptorsKept, Accepted
  <2>5. Readable(sock[t])
    BY <2>1, <2>2 DEF ReadNeverBlocks
  <2>6. inbox'[sock[t]] = inbox[sock[t]]
    BY <2>4
  <2> QED BY <2>2, <2>4, <2>5, <2>6 DEF Readable, LinksKept, Broken
<1> QED BY <1>1, <1>2, <1>3 DEF ReadNeverBlocks

\* The slot s is given up and its connection closed.
LEMMA SlotGone ==
  ASSUME IInv, NEW s \in Occupied, LinksKept(link, link'),
         closed' = closed \cup {sock[s]},
         sock' = [sock EXCEPT ![s] = NoSock],
         status' = [status EXCEPT ![s] = "NONE"],
         \A t \in Slot \ {s} : name'[t] = name[t],
         client_count' \in {client_count, client_count - 1},
         UNCHANGED backlog, pc' # "accept"
  PROVE  /\ CountCoversSlots' /\ DescriptorsKept' /\ QueueOK' /\ UniqueNames'
         /\ client_count' \in 0 .. MAXCLIENT
         /\ sock[s] \in Conn
<1> USE DEF IInv
<1>1. s \in Slot /\ sock[s] \in Accepted \ closed /\ sock[s] \in Conn
  BY DEF DescriptorsKept, Occupied, Accepted
<1>2. Occupied' = Occupied \ {s} /\ Members' \subseteq Members \ {s}
  BY <1>1 DEF Occupied, Members, TypeOK
<1>3. Cardinality(Occupied') = Cardinality(Occupied) - 1
  BY <1>2, SlotsFinite, FS_RemoveElement
<1>4. CountCoversSlots' /\ client_count' \in 0 .. MAXCLIENT
  <2>1. Cardinality(Occupied') \in Nat
    <3>1. IsFiniteSet(Occupied')
      BY <1>2, SlotsFinite, FS_RemoveElement
    <3> QED BY <3>1, FS_CardinalityType
  <2>2. Cardinality(Occupied) \in Nat /\ Cardinality(Occupied) <= client_count
    BY SlotsFinite DEF CountCoversSlots
  <2>3. client_count \in 0 .. MAXCLIENT /\ MAXCLIENT \in Nat
    BY ChatAssumption DEF TypeOK
  <2>4. Cardinality(Occupied') <= client_count' /\ client_count' \in 0 .. MAXCLIENT
    BY <1>3, <2>1, <2>2, <2>3
  <2> QED BY <2>4 DEF CountCoversSlots
<1>5. Accepted' = Accepted
  BY DEF Accepted, LinksKept
<1>6. \A t \in Occupied' : t # s /\ t \in Occupied /\ sock'[t] = sock[t]
  BY <1>2 DEF Occupied, TypeOK
<1>7. DescriptorsKept'
  <2>1. \A t, u \in Occupied' : t # u => sock'[t] # sock'[u]
    BY <1>6 DEF DescriptorsKept
  <2>2. {sock'[t] : t \in Occupied'} = {sock[t] : t \in Occupied} \ {sock[s]}
    <3>1. \A t \in Occupied' : sock[t] # sock[s]
      BY <1>6 DEF DescriptorsKept
    <3> QED BY <1>2, <1>6, <3>1
  <2>3. Accepted' \ closed' = (Accepted \ closed) \ {sock[s]}
    BY <1>5
  <2> QED BY <2>1, <2>2, <2>3 DEF DescriptorsKept
<1>8. QueueOK'
  <2>1. closed \subseteq Conn /\ \A i \in DOMAIN backlog : backlog[i] \in Conn
    BY DEF TypeOK
  <2>2. link[sock[s]] # "new" /\ \A i \in DOMAIN backlog : backlog[i] # sock[s]
    BY <1>1 DEF Accepted
  <2> QED BY <1>1, <2>1, <2>2 DEF QueueOK, LinksKept
<1>9. UniqueNames'
  <2>1. \A t \in Members' : t \in Members /\ name'[t] = name[t]
    BY <1>2 DEF Members
  <2> QED BY <2>1 DEF UniqueNames
<1> QED BY <1>1, <1>4, <1>7, <1>8, <1>9
LEMMA DisconnectStep ==
  ASSUME IInv, pc = "scan", NEW s \in ready, s \in Occupied,
         NEW l \in [Conn -> Link], LinksKept(link, l), ClientDisconnected(s, l)
  PROVE  IInv'
<1> USE DEF IInv
<1>1. Nothing \in [Conn -> Seq(Msg)] /\ DepartureNotice(s) \in [Conn -> Seq(Msg)]
  <2>1. s \in Slot /\ About("left", name[s]) \in Msg
    BY MsgTypes DEF Occupied, TypeOK
  <2> QED BY <2>1, OutTypes DEF DepartureNotice, Members
<1>2. CASE Killed(l, Nothing, DepartureNotice(s))
  BY <1>1, <1>2, KilledStep
<1>3. CASE ~ Killed(l, Nothing, DepartureNotice(s))
  <2>1. /\ Deliver(l, Nothing, DepartureNotice(s))
        /\ closed' = closed \cup {sock[s]}
        /\ sock' = [sock EXCEPT ![s] = NoSock]
        /\ status' = [status EXCEPT ![s] = "NONE"]
        /\ client_count' = client_count - 1
        /\ Scanned(s)
        /\ UNCHANGED <<name, backlog, inbox, peers>>
    BY <1>3 DEF ClientDisconnected
  <2>2. link' \in [Conn -> Link] /\ LinksKept(link, link')
    <3>1. link' \in [Conn -> Link] /\ LinksKept(l, link')
      BY <2>1, DeliverLinks
    <3> QED BY <3>1 DEF LinksKept
  <2>3. sent' \in [Conn -> Seq(Msg)]
    BY <1>1, <2>1, DeliverSent DEF TypeOK
  <2>4. ReadNeverBlocks' /\ ready' \subseteq Slot /\ pc' \in {"scan", "select"}
    BY <2>1, <2>2, ScanStep DEF Occupied, TypeOK
  <2>5. /\ CountCoversSlots' /\ DescriptorsKept' /\ QueueOK' /\ UniqueNames'
        /\ client_count' \in 0 .. MAXCLIENT /\ sock[s] \in Conn
    BY <2>1, <2>2, <2>4, SlotGone
  <2>6. TypeOK'
    BY <2>1, <2>2, <2>3, <2>4, <2>5 DEF TypeOK, peers
  <2> QED BY <2>4, <2>5, <2>6
<1> QED BY <1>2, <1>3

\* What receive_username leaves of the input is still input.
LEMMA InboxTail ==
  ASSUME TypeOK, NEW c \in Conn, inbox[c] # <<>>, inbox' = [inbox EXCEPT ![c] = Tail(@)]
  PROVE  /\ inbox' \in [Conn -> Seq(Piece)]
         /\ \A d \in Conn \ {c} : inbox'[d] = inbox[d]
         /\ Stored[Head(inbox[c])] \in Name
<1>1. inbox[c] \in Seq(Piece)
  BY DEF TypeOK
<1>2. Tail(inbox[c]) \in Seq(Piece) /\ Head(inbox[c]) \in Piece
  BY <1>1
<1>3. Stored[Head(inbox[c])] \in Name
  BY <1>2, ChatAssumption
<1> QED BY <1>2, <1>3 DEF TypeOK

LEMMA RejectNameStep ==
  ASSUME IInv, pc = "scan", NEW s \in ready, status[s] = "CONNECTING", RejectName(s),
         inbox[sock[s]] # <<>>, inbox' = [inbox EXCEPT ![sock[s]] = Tail(@)],
         Scanned(s), UNCHANGED <<backlog, peers>>
  PROVE  IInv'
<1> USE DEF IInv
<1>1. s \in Occupied /\ s \in Slot /\ sock[s] \in Conn
  BY DEF Occupied, DescriptorsKept, Accepted, TypeOK
<1>2. /\ Deliver(link, Nothing, Only(sock[s], <<Plain("nameRejected")>>))
      /\ closed' = closed \cup {sock[s]}
      /\ sock' = [sock EXCEPT ![s] = NoSock]
      /\ name' = [name EXCEPT ![s] = NoName]
      /\ status' = [status EXCEPT ![s] = "NONE"]
      /\ UNCHANGED client_count
  BY DEF RejectName
<1>3. link' \in [Conn -> Link] /\ LinksKept(link, link')
  BY <1>2, DeliverLinks DEF TypeOK
<1>4. sent' \in [Conn -> Seq(Msg)]
  BY <1>1, <1>2, PlainOut, OutTypes, DeliverSent DEF TypeOK
<1>5. inbox' \in [Conn -> Seq(Piece)] /\ \A d \in Conn \ {sock[s]} : inbox'[d] = inbox[d]
  BY <1>1, InboxTail
<1>6. ReadNeverBlocks' /\ ready' \subseteq Slot /\ pc' \in {"scan", "select"}
  BY <1>2, <1>3, <1>5, ScanStep DEF TypeOK
<1>7. /\ CountCoversSlots' /\ DescriptorsKept' /\ QueueOK' /\ UniqueNames'
  <2>1. \A t \in Slot \ {s} : name'[t] = name[t]
    BY <1>2 DEF TypeOK
  <2> QED BY <1>1, <1>2, <1>3, <1>6, <2>1, SlotGone
<1>8. TypeOK'
  BY <1>1, <1>2, <1>3, <1>4, <1>5, <1>6 DEF TypeOK, peers
<1> QED BY <1>6, <1>7, <1>8

\* The two writes of a registration are messages.
LEMMA WelcomeTypes ==
  ASSUME TypeOK, NEW s \in Slot, sock[s] \in Conn, NEW n \in Name
  PROVE  /\ Acknowledged(s) \in [Conn -> Seq(Msg)]
         /\ JoinNotice(s, n) \in [Conn -> Seq(Msg)]
<1>1. About("join", n) \in Msg /\ Members \cup {s} \in SUBSET Slot
  BY MsgTypes DEF Members
<1> QED BY <1>1, PlainOut, OutTypes DEF Acknowledged, JoinNotice

LEMMA RegisterStep ==
  ASSUME IInv, pc = "scan", NEW s \in ready, status[s] = "CONNECTING",
         inbox[sock[s]] # <<>>, inbox' = [inbox EXCEPT ![sock[s]] = Tail(@)],
         NEW n \in Name, ~NameTaken(n), RegisterName(s, n),
         Scanned(s), UNCHANGED <<backlog, peers>>
  PROVE  IInv'
<1> USE DEF IInv
<1>1. s \in Occupied /\ s \in Slot /\ sock[s] \in Conn /\ s \notin Members
  BY DEF Occupied, DescriptorsKept, Accepted, TypeOK, Members
<1>2. /\ Deliver(link, Acknowledged(s), JoinNotice(s, n))
      /\ name' = [name EXCEPT ![s] = n]
      /\ status' = [status EXCEPT ![s] = "CONNECTED"]
      /\ UNCHANGED <<sock, client_count, closed>>
  BY DEF RegisterName
<1>3. link' \in [Conn -> Link] /\ LinksKept(link, link')
  BY <1>2, DeliverLinks DEF TypeOK
<1>4. sent' \in [Conn -> Seq(Msg)]
  BY <1>1, <1>2, WelcomeTypes, DeliverSent DEF TypeOK
<1>5. inbox' \in [Conn -> Seq(Piece)] /\ \A d \in Conn \ {sock[s]} : inbox'[d] = inbox[d]
  BY <1>1, InboxTail
<1>6. ReadNeverBlocks' /\ ready' \subseteq Slot /\ pc' \in {"scan", "select"}
  BY <1>2, <1>3, <1>5, ScanStep DEF TypeOK
<1>7. TypeOK'
  BY <1>2, <1>3, <1>4, <1>5, <1>6 DEF TypeOK, peers
<1>8. Occupied' = Occupied /\ Members' = Members \cup {s}
  BY <1>1, <1>2 DEF Occupied, Members, TypeOK
<1>9. CountCoversSlots'
  BY <1>2, <1>8 DEF CountCoversSlots
<1>10. DescriptorsKept'
  <2>1. Accepted' = Accepted
    BY <1>3 DEF Accepted, LinksKept
  <2> QED BY <1>2, <1>8, <2>1 DEF DescriptorsKept
<1>11. QueueOK'
  <2>1. closed \subseteq Conn /\ \A i \in DOMAIN backlog : backlog[i] \in Conn
    BY DEF TypeOK
  <2> QED BY <1>2, <1>3, <1>6, <2>1 DEF QueueOK, LinksKept
<1>12. UniqueNames'
  <2>1. name'[s] = n /\ \A t \in Members : t # s /\ name'[t] = name[t] /\ name[t] # n
    BY <1>1, <1>2 DEF NameTaken, TypeOK, Members
  <2> QED BY <1>8, <2>1 DEF UniqueNames
<1> QED BY <1>6, <1>7, <1>9, <1>10, <1>11, <1>12

LEMMA ReceiveUsernameStep ==
  ASSUME IInv, pc = "scan", NEW s \in ready, ReceiveUsername(s)
  PROVE  IInv'
<1> USE DEF IInv
<1> DEFINE c == sock[s]
           n == Stored[Head(inbox[c])]
<1>1. /\ status[s] = "CONNECTING" /\ s \in Slot /\ s \in Occupied /\ c \in Conn
      /\ link \in [Conn -> Link] /\ LinksKept(link, link)
  BY DEF ReceiveUsername, TypeOK, Occupied, DescriptorsKept, Accepted, LinksKept
<1>2. CASE inbox[c] = <<>>
  <2>1. ClientDisconnected(s, link)
    BY <1>2 DEF ReceiveUsername
  <2> QED BY <1>1, <2>1, DisconnectStep
<1>3. CASE inbox[c] # <<>>
  <2>1. n \in Name
    <3>1. inbox[c] \in Seq(Piece)
      BY <1>1 DEF TypeOK
    <3>2. Head(inbox[c]) \in Piece
      BY <1>3, <3>1
    <3> QED BY <3>2, ChatAssumption
  <2>2. CASE Killed(link, Acknowledged(s), JoinNotice(s, n))
    BY <1>1, <2>1, <2>2, WelcomeTypes, KilledStep
  <2>3. CASE ~ Killed(link, Acknowledged(s), JoinNotice(s, n))
    <3>1. /\ \/ NameTaken(n) /\ RejectName(s)
             \/ ~NameTaken(n) /\ RegisterName(s, n)
          /\ inbox' = [inbox EXCEPT ![c] = Tail(@)]
          /\ Scanned(s)
          /\ UNCHANGED <<backlog, peers>>
      BY <1>3, <2>3 DEF ReceiveUsername
    <3>2. CASE RejectName(s)
      BY <1>1, <1>3, <3>1, <3>2, RejectNameStep
    <3>3. CASE ~NameTaken(n) /\ RegisterName(s, n)
      BY <1>1, <1>3, <2>1, <3>1, <3>3, RegisterStep
    <3> QED BY <3>1, <3>2, <3>3
  <2> QED BY <2>2, <2>3
<1> QED BY <1>2, <1>3
LEMMA AnswerStep ==
  ASSUME IInv, pc = "scan", NEW s \in ready, status[s] = "CONNECTED",
         NEW l \in [Conn -> Link], LinksKept(link, l),
         NEW text \in Seq(Piece), NEW k \in Nat, k <= Len(inbox[sock[s]]),
         Answer(s, l, text, k)
  PROVE  IInv'
<1> USE DEF IInv
<1> DEFINE c == sock[s]
<1>1. s \in Slot /\ s \in Occupied /\ c \in Conn
  BY DEF TypeOK, Occupied, DescriptorsKept, Accepted
<1>2. PICK out \in Reply(s, text) :
        \/ /\ Deliver(l, Nothing, out)
           /\ inbox' = [inbox EXCEPT ![c] = SubSeq(@, k + 1, Len(@))]
           /\ UNCHANGED <<table, backlog, closed, peers>>
           /\ Scanned(s)
        \/ Killed(l, Nothing, out)
  BY DEF Answer
<1>3. out \in [Conn -> Seq(Msg)] /\ Nothing \in [Conn -> Seq(Msg)]
  BY <1>1, ReplyTypes, OutTypes
<1>4. CASE Killed(l, Nothing, out)
  BY <1>3, <1>4, KilledStep
<1>5. CASE ~ Killed(l, Nothing, out)
  <2>1. /\ Deliver(l, Nothing, out)
        /\ inbox' = [inbox EXCEPT ![c] = SubSeq(@, k + 1, Len(@))]
        /\ UNCHANGED <<table, backlog, closed, peers>>
        /\ Scanned(s)
    BY <1>2, <1>5
  <2>2. link' \in [Conn -> Link] /\ LinksKept(link, link')
    <3>1. link' \in [Conn -> Link] /\ LinksKept(l, link')
      BY <2>1, DeliverLinks
    <3> QED BY <3>1 DEF LinksKept
  <2>3. sent' \in [Conn -> Seq(Msg)]
    BY <1>3, <2>1, DeliverSent DEF TypeOK
  <2>4. /\ inbox' \in [Conn -> Seq(Piece)]
        /\ \A d \in Conn \ {c} : inbox'[d] = inbox[d]
    <3>1. inbox[c] \in Seq(Piece)
      BY <1>1 DEF TypeOK
    <3>2. SubSeq(inbox[c], k + 1, Len(inbox[c])) \in Seq(Piece)
      BY <3>1
    <3> QED BY <1>1, <2>1, <3>2 DEF TypeOK
  <2>5. ReadNeverBlocks' /\ ready' \subseteq Slot /\ pc' \in {"scan", "select"}
    BY <2>1, <2>2, <2>4, ScanStep DEF table
  <2>6. TypeOK'
    BY <2>1, <2>2, <2>3, <2>4, <2>5 DEF TypeOK, table, peers
  <2> QED BY <2>1, <2>2, <2>5, <2>6, TableFrame
<1> QED BY <1>4, <1>5

LEMMA HandleMessageStep ==
  ASSUME IInv, pc = "scan", NEW s \in ready, HandleMessage(s)
  PROVE  IInv'
<1> USE DEF IInv
<1> DEFINE c == sock[s]
           reset == [link EXCEPT ![c] = "dead"]
<1>1. /\ status[s] = "CONNECTED" /\ s \in Slot /\ s \in Occupied /\ c \in Conn
      /\ inbox[c] \in Seq(Piece)
  BY DEF HandleMessage, TypeOK, Occupied, DescriptorsKept, Accepted
<1>2. link \in [Conn -> Link] /\ LinksKept(link, link)
  BY DEF TypeOK, LinksKept
<1>3. ASSUME NEW k \in 1 .. MaxRead, k <= Len(inbox[c]),
             Answer(s, link, SubSeq(inbox[c], 1, k), k)
      PROVE  IInv'
  <2>1. k \in Nat /\ SubSeq(inbox[c], 1, k) \in Seq(Piece)
    BY <1>1, <1>3, ChatAssumption
  <2> QED BY <1>1, <1>2, <1>3, <2>1, AnswerStep
<1>4. CASE ClientDisconnected(s, link)
  BY <1>1, <1>2, <1>4, DisconnectStep
<1>5. CASE link[c] = "rst" /\ ReadError(s, reset)
  <2>1. reset \in [Conn -> Link] /\ LinksKept(link, reset)
    BY <1>1, <1>2, <1>5 DEF Link, LinksKept, Broken
  <2>2. CASE ClientDisconnected(s, reset)
    BY <1>1, <2>1, <2>2, DisconnectStep
  <2>3. ASSUME NEW text \in {<<Junk>>, <<ListCmd>>}, Answer(s, reset, text, 0)
        PROVE  IInv'
    <3>1. Junk \in Piece /\ ListCmd \in Piece
      BY DEF Piece
    <3>2. <<Junk>> \in Seq(Piece) /\ <<ListCmd>> \in Seq(Piece) /\ 0 <= Len(inbox[c])
      BY <1>1, <3>1
    <3> HIDE DEF reset
    <3> QED BY <1>1, <2>1, <2>3, <3>2, AnswerStep
  <2> QED BY <1>5, <2>2, <2>3 DEF ReadError
<1> QED BY <1>3, <1>4, <1>5 DEF HandleMessage

-------------------------------------------------------------------------------
(* The invariant.                                                          *)

LEMMA InitIInv == Init => IInv
<1> SUFFICES ASSUME Init PROVE IInv
  OBVIOUS
<1>1. Occupied = {} /\ Members = {} /\ backlog = <<>> /\ DOMAIN backlog = {}
  BY DEF Init, Occupied, Members
<1>2. TypeOK
  BY ChatAssumption DEF Init, TypeOK, Link
<1>3. CountCoversSlots
  BY <1>1, FS_EmptySet DEF CountCoversSlots, Init
<1>4. DescriptorsKept
  BY <1>1 DEF DescriptorsKept, Accepted, Init
<1>5. QueueOK /\ UniqueNames /\ ReadNeverBlocks
  BY <1>1 DEF QueueOK, UniqueNames, ReadNeverBlocks, Init
<1> QED BY <1>2, <1>3, <1>4, <1>5 DEF IInv

LEMMA NextIInv == IInv /\ [Next]_vars => IInv'
<1> SUFFICES ASSUME IInv, [Next]_vars PROVE IInv'
  OBVIOUS
<1>1. CASE Select
  BY <1>1, SelectStep
<1>2. CASE SyscallFails
  BY <1>2, SyscallFailsStep
<1>3. CASE NewClient
  BY <1>3, AcceptStep, RejectStep DEF NewClient
<1>4. CASE Serve
  BY <1>4, ReceiveUsernameStep, HandleMessageStep DEF Serve
<1>5. ASSUME NEW c \in Conn, Peer(c) PROVE IInv'
  BY <1>5, ConnectStep, SendNameStep, SendLineStep, HangupStep DEF Peer
<1>6. CASE UNCHANGED vars
  <2>1. /\ UNCHANGED <<table, loop, backlog, closed>>
        /\ UNCHANGED <<link, inbox, sent, peers>>
    BY <1>6 DEF vars
  <2>2. TypeOK'
    BY <2>1 DEF IInv, TypeOK, table, loop, peers
  <2> QED BY <2>1, <2>2, PeerFrame DEF IInv, LinksKept
<1> QED BY <1>1, <1>2, <1>3, <1>4, <1>5, <1>6 DEF Next, Server

\* The invariant the results below are read off from: it holds initially and
\* every step of the server or of a peer preserves it.
THEOREM Invariant == Spec => []IInv
BY InitIInv, NextIInv, PTL DEF Spec

\* Every value of the model is of its type: the counter stays within the table.
THEOREM TypeCorrect == Spec => []TypeOK
<1>1. IInv => TypeOK
  BY DEF IInv
<1> QED BY <1>1, Invariant, PTL

\* new_client never drops an accepted descriptor: client_count is never below
\* the number of slots in use.
THEOREM CountCorrect == Spec => []CountCoversSlots
<1>1. IInv => CountCoversSlots
  BY DEF IInv
<1> QED BY <1>1, Invariant, PTL

\* The open descriptors are exactly those in the table, one slot each.
THEOREM DescriptorsCorrect == Spec => []DescriptorsKept
<1>1. IInv => DescriptorsKept
  BY DEF IInv
<1> QED BY <1>1, Invariant, PTL

\* No two registered users share a name.
THEOREM NamesCorrect == Spec => []UniqueNames
<1>1. IInv => UniqueNames
  BY DEF IInv
<1> QED BY <1>1, Invariant, PTL

\* The server never blocks in read().
THEOREM ReadsCorrect == Spec => []ReadNeverBlocks
<1>1. IInv => ReadNeverBlocks
  BY DEF IInv
<1> QED BY <1>1, Invariant, PTL

\* Nothing is pending: select() returns only for its timeout of 1 s.
NothingToDo == pc = "select" /\ backlog = <<>> /\ ReadableSlots = {}

\* The server is idle only when nobody waits for it: every connection there has
\* been is closed, or its peer is there and all it has sent has been read.
\* ConnectionAnswered, SlotFreed and InputRead rest on this.
THEOREM IdleOnlyWhenDone ==
  Spec => [](NothingToDo => \A c \in Conn : \/ link[c] = "new"
                                            \/ c \in closed
                                            \/ link[c] = "open" /\ inbox[c] = <<>>)
<1>1. ASSUME IInv, NothingToDo, NEW c \in Conn, link[c] # "new", c \notin closed
      PROVE  link[c] = "open" /\ inbox[c] = <<>>
  <2>1. c \in Accepted \ closed
    BY <1>1 DEF NothingToDo, Accepted
  <2>2. PICK s \in Occupied : sock[s] = c
    BY <1>1, <2>1 DEF IInv, DescriptorsKept
  <2>3. ~Readable(c) /\ link[c] \in Link
    BY <1>1, <2>2 DEF NothingToDo, ReadableSlots, IInv, TypeOK
  <2> QED BY <1>1, <2>3 DEF Readable, Link
<1>2. IInv => (NothingToDo => \A c \in Conn : \/ link[c] = "new"
                                              \/ c \in closed
                                              \/ link[c] = "open" /\ inbox[c] = <<>>)
  BY <1>1
<1> QED BY <1>2, Invariant, PTL
-------------------------------------------------------------------------------
(* What a step may never do.                                               *)

\* Only the handlers of a slot and new_client change the table.
LEMMA TableSteps ==
  ASSUME [Next]_vars
  PROVE  \/ UNCHANGED table
         \/ AcceptClient(Head(backlog))
         \/ \E s \in ready : ReceiveUsername(s) \/ HandleMessage(s)
<1>1. CASE Select \/ SyscallFails
  BY <1>1 DEF Select, SyscallFails
<1>2. CASE NewClient
  BY <1>2 DEF NewClient, RejectClient
<1>3. CASE Serve
  BY <1>3 DEF Serve
<1>4. ASSUME NEW c \in Conn, Peer(c) PROVE UNCHANGED table
  BY <1>4 DEF Peer, Connect, SendName, SendLine, Hangup
<1>5. CASE UNCHANGED vars
  BY <1>5 DEF vars
<1> QED BY <1>1, <1>2, <1>3, <1>4, <1>5 DEF Next, Server

\* A handler of the slot s leaves the table alone or does one of three things.
LEMMA HandlerEffects ==
  ASSUME IInv, NEW s \in ready, ReceiveUsername(s) \/ HandleMessage(s)
  PROVE  LET n == Stored[Head(inbox[sock[s]])]
         IN \/ UNCHANGED table
            \/ /\ status' = [status EXCEPT ![s] = "NONE"]
               /\ sock' = [sock EXCEPT ![s] = NoSock]
               /\ \/ link[sock[s]] # "open" /\ UNCHANGED name
                  \/ /\ status[s] = "CONNECTING" /\ NameTaken(n)
                     /\ name' = [name EXCEPT ![s] = NoName]
            \/ /\ status[s] = "CONNECTING"
               /\ status' = [status EXCEPT ![s] = "CONNECTED"]
               /\ name' = [name EXCEPT ![s] = n]
               /\ UNCHANGED sock
<1>1. ASSUME NEW l, ClientDisconnected(s, l)
      PROVE  \/ UNCHANGED table
             \/ /\ status' = [status EXCEPT ![s] = "NONE"]
                /\ sock' = [sock EXCEPT ![s] = NoSock]
                /\ UNCHANGED name
  BY <1>1 DEF ClientDisconnected, Killed
<1>2. CASE ReceiveUsername(s)
  <2>1. CASE inbox[sock[s]] = <<>>
    BY <1>1, <1>2, <2>1 DEF ReceiveUsername
  <2>2. CASE inbox[sock[s]] # <<>>
    BY <1>2, <2>2 DEF ReceiveUsername, RejectName, RegisterName, Killed
  <2> QED BY <2>1, <2>2
<1>3. CASE HandleMessage(s)
  <2>1. ASSUME NEW l, NEW text, NEW k, Answer(s, l, text, k)
        PROVE  UNCHANGED table
    BY <2>1 DEF Answer, Killed
  <2>2. \/ UNCHANGED table
        \/ link[sock[s]] # "open" /\ \E l : ClientDisconnected(s, l)
    BY <1>3, <2>1 DEF HandleMessage, ReadError
  <2> QED BY <1>1, <2>2
<1> QED BY <1>2, <1>3

\* A slot keeps its connection while it is in use, and a member its name.
THEOREM SlotsStable == Spec => SlotStable
<1>1. IInv /\ [Next]_vars => [KeepsSlots]_vars
  <2> SUFFICES ASSUME IInv, [Next]_vars PROVE KeepsSlots
    OBVIOUS
  <2>1. TypeOK
    BY DEF IInv
  <2>2. CASE UNCHANGED table
    BY <2>2 DEF KeepsSlots, table
  <2>3. CASE AcceptClient(Head(backlog))
    BY <2>1, <2>3 DEF KeepsSlots, AcceptClient, Taken, Occupied, TypeOK
  <2>4. ASSUME NEW s \in ready, ReceiveUsername(s) \/ HandleMessage(s)
        PROVE  KeepsSlots
    <3>1. s \in Slot
      BY <2>1 DEF TypeOK
    <3> QED BY <2>1, <2>2, <2>4, <3>1, HandlerEffects DEF KeepsSlots, Occupied, TypeOK
  <2> QED BY <2>2, <2>3, <2>4, TableSteps
<1> QED BY <1>1, Invariant, PTL DEF Spec, SlotStable

\* A live client is evicted only when another member has its name.
THEOREM ClientsKept == Spec => LiveClientKept
<1>1. IInv /\ [Next]_vars => [EvictsOnlyDuplicates]_vars
  <2> SUFFICES ASSUME IInv, [Next]_vars PROVE EvictsOnlyDuplicates
    OBVIOUS
  <2>1. TypeOK
    BY DEF IInv
  <2>2. CASE UNCHANGED table
    BY <2>2 DEF EvictsOnlyDuplicates, table, Occupied
  <2>3. CASE AcceptClient(Head(backlog))
    BY <2>1, <2>3 DEF EvictsOnlyDuplicates, AcceptClient, Taken, Occupied, TypeOK
  <2>4. ASSUME NEW s \in ready, ReceiveUsername(s) \/ HandleMessage(s)
        PROVE  EvictsOnlyDuplicates
    <3>1. s \in Slot
      BY <2>1 DEF TypeOK
    <3> QED BY <2>1, <2>2, <2>4, <3>1, HandlerEffects
            DEF EvictsOnlyDuplicates, Occupied, TypeOK, NameTaken
  <2> QED BY <2>2, <2>3, <2>4, TableSteps
<1> QED BY <1>1, Invariant, PTL DEF Spec, LiveClientKept

-------------------------------------------------------------------------------
(* What writing delivers.                                                  *)

\* A connection is broken, or not, to a handler as it was before; read() may
\* have taken the error of a reset one.
SameOpen(l) == \A c \in Conn : l[c] = "open" <=> link[c] = "open"

\* Each open connection is delivered what is written to it, and stays open.
LEMMA DeliverAt ==
  ASSUME TypeOK, NEW l \in [Conn -> Link], NEW early \in [Conn -> Seq(Msg)],
         NEW out \in [Conn -> Seq(Msg)], Deliver(l, early, out), NEW c \in Conn
  PROVE  /\ link'[c] = "open" <=> l[c] = "open"
         /\ l[c] = "open" => sent'[c] = sent[c] \o early[c] \o out[c]
         /\ l[c] # "open" => sent'[c] = sent[c]
<1>1. link'[c] \in Survive(l[c], Len(early[c] \o out[c]))
  BY DEF Deliver
<1>2. link'[c] = "open" <=> l[c] = "open"
  BY <1>1 DEF Survive, Link
<1> QED BY <1>2 DEF Deliver

\* An answer to one client.
LEMMA OnlyAt ==
  ASSUME TypeOK, NEW l \in [Conn -> Link], NEW c \in Conn, NEW w \in Seq(Msg),
         Deliver(l, Nothing, Only(c, w))
  PROVE  /\ \A d \in Conn : link'[d] = "open" <=> l[d] = "open"
         /\ \A d \in Conn \ {c} : sent'[d] = sent[d]
         /\ l[c] = "open" => sent'[c] = sent[c] \o w
         /\ l[c] # "open" => sent'[c] = sent[c]
<1>1. Nothing \in [Conn -> Seq(Msg)] /\ Only(c, w) \in [Conn -> Seq(Msg)]
  BY OutTypes
<1>2. ASSUME NEW d \in Conn
      PROVE  /\ link'[d] = "open" <=> l[d] = "open"
             /\ l[d] = "open" => sent'[d] = sent[d] \o Nothing[d] \o Only(c, w)[d]
             /\ l[d] # "open" => sent'[d] = sent[d]
  BY <1>1, DeliverAt
<1>3. ASSUME NEW d \in Conn PROVE sent[d] \o Nothing[d] = sent[d] /\ sent[d] \o <<>> = sent[d]
  BY DEF Nothing, TypeOK
<1>4. Only(c, w)[c] = w /\ \A d \in Conn \ {c} : Only(c, w)[d] = <<>>
  BY DEF Only
<1> QED BY <1>2, <1>3, <1>4

\* Every open connection is delivered early, and those of F the message m.
Share(F, m, c) == IF c \in F THEN <<m>> ELSE <<>>

Spread(l, early, F, m) ==
  \A c \in Conn :
    /\ l[c] # "open" => sent'[c] = sent[c]
    /\ l[c] = "open" => sent'[c] = sent[c] \o early[c] \o Share(F, m, c)

\* A message to the slots of T, after what early holds.
LEMMA ToAllSpread ==
  ASSUME TypeOK, NEW l \in [Conn -> Link], NEW early \in [Conn -> Seq(Msg)],
         NEW T \in SUBSET Slot, NEW m \in Msg, Deliver(l, early, ToAll(T, m))
  PROVE  /\ \A c \in Conn : link'[c] = "open" <=> l[c] = "open"
         /\ Spread(l, early, {sock[s] : s \in T}, m)
<1> DEFINE out == ToAll(T, m)
<1>1. out \in [Conn -> Seq(Msg)]
  BY OutTypes
<1>2. \A c \in Conn : out[c] = Share({sock[s] : s \in T}, m, c)
  BY DEF ToAll, Share
<1> HIDE DEF out
<1>3. ASSUME NEW c \in Conn
      PROVE  /\ link'[c] = "open" <=> l[c] = "open"
             /\ l[c] = "open" => sent'[c] = sent[c] \o early[c] \o out[c]
             /\ l[c] # "open" => sent'[c] = sent[c]
  <2>1. Deliver(l, early, out)
    BY DEF out
  <2> QED BY <1>1, <2>1, DeliverAt
<1> QED BY <1>2, <1>3 DEF Spread

\* The same for the handler that SIGPIPE interrupts: only some of T are served.
LEMMA KilledSpread ==
  ASSUME TypeOK, NEW l, NEW early \in [Conn -> Seq(Msg)],
         NEW T \in SUBSET Slot, NEW m \in Msg, Killed(l, early, ToAll(T, m))
  PROVE  \E F \in SUBSET {sock[s] : s \in T} : Spread(l, early, F, m)
<1>1. PICK f \in Occupied :
        sent' = [c \in Conn |->
                   IF l[c] # "open" THEN sent[c]
                   ELSE sent[c] \o early[c] \o
                          IF \E s \in Occupied : s < f /\ sock[s] = c
                          THEN ToAll(T, m)[c] ELSE <<>>]
  BY DEF Killed
<1> DEFINE F == {c \in Conn : /\ \E s \in Occupied : s < f /\ sock[s] = c
                              /\ \E s \in T : sock[s] = c}
<1>2. F \in SUBSET {sock[s] : s \in T}
  OBVIOUS
<1>3. \A c \in Conn : ToAll(T, m)[c] = IF \E s \in T : sock[s] = c THEN <<m>> ELSE <<>>
  BY DEF ToAll
<1>4. ASSUME NEW c \in Conn
      PROVE  /\ l[c] # "open" => sent'[c] = sent[c]
             /\ l[c] = "open" => sent'[c] = sent[c] \o early[c] \o Share(F, m, c)
  <2>1. (IF \E s \in Occupied : s < f /\ sock[s] = c THEN ToAll(T, m)[c] ELSE <<>>)
          = Share(F, m, c)
    BY <1>3 DEF Share
  <2> QED BY <1>1, <2>1
<1> HIDE DEF F
<1>5. Spread(l, early, F, m)
  BY <1>4 DEF Spread
<1> QED BY <1>2, <1>5

-------------------------------------------------------------------------------
(* The order in which a peer is told things.                               *)

\* What a member has been told.
Greeted(m) ==
  /\ Len(m) > 2
  /\ SubSeq(m, 1, 2) = <<Plain("accepted"), Plain("registered")>>
  /\ m[3].kind = "join"
  /\ \A i \in 3 .. Len(m) : m[i].kind \in {"join", "left", "chat", "entry"}

\* What a slot implies about what its connection has been told.
Told(s) ==
  IF status[s] = "CONNECTING" THEN sent[sock[s]] = <<Plain("accepted")>>
  ELSE Greeted(sent[sock[s]])

\* Nothing is said to a connection before it is accepted; from then on its slot
\* says how far the handshake has come, unless its peer is gone.
HandshakeInv ==
  /\ HandshakeOrder
  /\ \A c \in Conn : c \notin Accepted => sent[c] = <<>>
  /\ pc # "killed" => \A s \in Occupied : link[sock[s]] = "open" => Told(s)

LEMMA GreetedGrows ==
  ASSUME NEW m \in Seq(Msg), NEW w \in Seq(Msg), Greeted(m),
         \A i \in DOMAIN w : w[i].kind \in {"join", "left", "chat", "entry"}
  PROVE  Greeted(m \o w)
<1>1. /\ Len(m \o w) = Len(m) + Len(w) /\ Len(m) \in Nat /\ Len(w) \in Nat
      /\ \A i \in 1 .. Len(m) : (m \o w)[i] = m[i]
      /\ \A i \in Len(m) + 1 .. Len(m) + Len(w) :
           i - Len(m) \in DOMAIN w /\ (m \o w)[i] = w[i - Len(m)]
  OBVIOUS
<1>2. Len(m) > 2 /\ m[3].kind = "join"
  BY DEF Greeted
<1>3. SubSeq(m \o w, 1, 2) = SubSeq(m, 1, 2)
  BY <1>1, <1>2
<1>4. ASSUME NEW i \in 3 .. Len(m \o w)
      PROVE  (m \o w)[i].kind \in {"join", "left", "chat", "entry"}
  <2>1. CASE i <= Len(m)
    BY <1>1, <1>4, <2>1 DEF Greeted
  <2>2. CASE i > Len(m)
    BY <1>1, <1>4, <2>2
  <2> QED BY <1>1, <2>1, <2>2
<1>5. Len(m \o w) > 2 /\ (m \o w)[3] = m[3]
  BY <1>1, <1>2
<1> QED BY <1>2, <1>3, <1>4, <1>5 DEF Greeted

\* A second message after a first.
LEMMA Pair ==
  ASSUME NEW m \in Seq(Msg), NEW x, m = <<x>>, NEW y \in Msg
  PROVE  m \o <<y>> = <<x, y>>
<1> DEFINE u == m \o <<y>>
<1>1. Len(m) = 1 /\ m[1] = x
  OBVIOUS
<1>2. u \in Seq(Msg) /\ Len(u) = 2 /\ u[1] = x /\ u[2] = y
  BY <1>1
<1> HIDE DEF u
<1>3. u = <<u[1], u[2]>>
  BY <1>2
<1> QED BY <1>2, <1>3 DEF u

\* The messages of a registration complete the handshake.
LEMMA NewlyGreeted ==
  ASSUME NEW m \in Seq(Msg), m = <<Plain("accepted")>>, NEW n \in Name
  PROVE  Greeted(m \o <<Plain("registered")>> \o <<About("join", n)>>)
<1> DEFINE r == Plain("registered")
           j == About("join", n)
           w == m \o <<r>> \o <<j>>
<1>1. r \in Msg /\ j \in Msg /\ j.kind = "join"
  BY MsgTypes DEF About
<1>2. Len(m) = 1 /\ m[1] = Plain("accepted")
  OBVIOUS
<1> HIDE DEF r, j
<1>3. m \o <<r>> \in Seq(Msg) /\ Len(m \o <<r>>) = 2
      /\ (m \o <<r>>)[1] = m[1] /\ (m \o <<r>>)[2] = r
  BY <1>1, <1>2
<1>4. w \in Seq(Msg) /\ Len(w) = 3 /\ w[1] = m[1] /\ w[2] = r /\ w[3] = j
  BY <1>1, <1>2, <1>3
<1> HIDE DEF w
<1>5. SubSeq(w, 1, 2) = <<Plain("accepted"), r>>
  <2>1. /\ SubSeq(w, 1, 2) \in Seq(Msg) /\ Len(SubSeq(w, 1, 2)) = 2
        /\ SubSeq(w, 1, 2)[1] = w[1] /\ SubSeq(w, 1, 2)[2] = w[2]
    BY <1>4
  <2>2. \A u \in Seq(Msg) : Len(u) = 2 => u = <<u[1], u[2]>>
    OBVIOUS
  <2> QED BY <1>2, <1>4, <2>1, <2>2
<1>6. \A i \in 3 .. Len(w) : w[i].kind = "join"
  BY <1>1, <1>4
<1>7. Greeted(w)
  BY <1>1, <1>4, <1>5, <1>6 DEF Greeted, r
<1> QED BY <1>7 DEF w, r, j

\* The disjunction of HandshakeOrder for one connection.
InOrder(m) ==
  \/ m \in {<<>>, <<Plain("accepted")>>} \cup Refused
  \/ /\ m = <<Plain("accepted"), Plain("registered")>>
     /\ pc = "killed"
  \/ Greeted(m)

LEMMA OrderIs ==
  /\ HandshakeOrder <=> \A c \in Conn : InOrder(sent[c])
  /\ HandshakeOrder' <=> \A c \in Conn : InOrder(sent[c])'
<1>1. \A x, y : Len(<<x, y>>) = 2
  OBVIOUS
<1>2. HandshakeOrder <=> \A c \in Conn : InOrder(sent[c])
  <2>1. \A m : m = <<Plain("accepted"), Plain("registered")>> => Len(m) = 2
    BY <1>1
  <2> QED BY ONLY <2>1, Zenon DEF HandshakeOrder, InOrder, Greeted
<1>3. HandshakeOrder' <=> \A c \in Conn : InOrder(sent[c])'
  <2>1. \A m : m = <<Plain("accepted"), Plain("registered")>> => Len(m) = 2
    BY <1>1
  <2> QED BY ONLY <2>1, Zenon DEF HandshakeOrder, InOrder, Greeted
<1> QED BY <1>2, <1>3

\* A step that says nothing to a slot's connection, or what the slot then
\* stands for.
LEMMA HandshakeKept ==
  ASSUME HandshakeInv, pc = "killed" => pc' = "killed",
         Accepted \subseteq Accepted',
         \A c \in Conn : sent'[c] = sent[c] \/ (InOrder(sent[c])' /\ c \in Accepted'),
         pc' # "killed" => \A s \in Occupied' : link'[sock'[s]] = "open" =>
           \/ /\ s \in Occupied /\ link[sock[s]] = "open"
              /\ sock'[s] = sock[s] /\ status'[s] = status[s] /\ sent'[sock[s]] = sent[sock[s]]
           \/ Told(s)'
  PROVE  HandshakeInv'
<1>1. HandshakeOrder'
  <2>1. \A c \in Conn : InOrder(sent[c])
    BY OrderIs DEF HandshakeInv
  <2>2. ASSUME NEW c \in Conn, sent'[c] = sent[c] PROVE InOrder(sent[c])'
    <3>1. InOrder(sent[c])
      BY <2>1
    <3> QED BY <2>2, <3>1 DEF InOrder, Refused, Greeted, Plain
  <2> QED BY <2>2, OrderIs
<1>2. \A c \in Conn : c \notin Accepted' => sent'[c] = <<>>
  BY DEF HandshakeInv
<1>3. ASSUME pc' # "killed", NEW s \in Occupied', link'[sock'[s]] = "open"
      PROVE  Told(s)'
  BY <1>3 DEF HandshakeInv, Told
<1> QED BY <1>1, <1>2, <1>3 DEF HandshakeInv

\* The connection of a slot, and of no other, while the server runs.
LEMMA SlotSocket ==
  ASSUME IInv, NEW s \in Occupied
  PROVE  /\ s \in Slot /\ sock[s] \in Conn /\ sock[s] \in Accepted
         /\ link[sock[s]] # "new" /\ \A t \in Occupied : sock[t] = sock[s] => t = s
BY DEF IInv, DescriptorsKept, Accepted, Occupied

\* Steps in which nothing is said and no slot is taken.
LEMMA SilentHandshake ==
  ASSUME IInv, HandshakeInv, pc = "killed" => pc' = "killed", sent' = sent,
         Accepted \subseteq Accepted',
         \A c \in Conn : link'[c] = "open" /\ link[c] # "open" => link[c] = "new",
         \A s \in Slot : status'[s] = "NONE" \/ (status'[s] = status[s] /\ sock'[s] = sock[s])
  PROVE  HandshakeInv'
<1>1. ASSUME NEW s \in Occupied', link'[sock'[s]] = "open"
      PROVE  /\ s \in Occupied /\ link[sock[s]] = "open"
             /\ sock'[s] = sock[s] /\ status'[s] = status[s] /\ sent'[sock[s]] = sent[sock[s]]
  <2>1. s \in Slot /\ status'[s] # "NONE"
    BY DEF Occupied
  <2>2. s \in Occupied /\ sock'[s] = sock[s] /\ status'[s] = status[s]
    BY <2>1 DEF Occupied
  <2>3. link[sock[s]] = "open"
    BY <1>1, <2>2, SlotSocket
  <2> QED BY <2>2, <2>3
<1> QED BY <1>1, HandshakeKept

LEMMA PeerHandshake ==
  ASSUME IInv, HandshakeInv, NEW c \in Conn, Peer(c)
  PROVE  HandshakeInv'
<1>1. UNCHANGED <<table, loop, sent>>
  BY DEF Peer, Connect, SendName, SendLine, Hangup
<1>2. CASE Connect(c)
  <2>1. Accepted \subseteq Accepted'
    <3>1. /\ link[c] = "new" /\ link' = [link EXCEPT ![c] = "open"]
          /\ backlog' = Append(backlog, c) /\ backlog \in Seq(Conn)
      BY <1>2 DEF Connect, IInv, TypeOK
    <3>2. \A i \in DOMAIN backlog' : (i \in DOMAIN backlog /\ backlog'[i] = backlog[i]) \/ backlog'[i] = c
      BY <3>1
    <3>3. c \notin Accepted
      BY <3>1 DEF Accepted
    <3> QED BY <3>1, <3>2, <3>3 DEF Accepted, IInv, TypeOK
  <2>2. \A d \in Conn : link'[d] = "open" /\ link[d] # "open" => link[d] = "new"
    BY <1>2 DEF Connect, IInv, TypeOK
  <2> QED BY <1>1, <2>1, <2>2, SilentHandshake DEF table, loop
<1>3. CASE ~ Connect(c)
  <2>1. backlog' = backlog /\ LinksKept(link, link')
    BY <1>3 DEF Peer, SendName, SendLine, Hangup, LinksKept, IInv, TypeOK, Broken
  <2>2. \A d \in Conn : link'[d] = "open" => link[d] = "open"
    BY <1>3 DEF Peer, SendName, SendLine, Hangup, IInv, TypeOK
  <2>3. Accepted' = Accepted
    BY <2>1 DEF Accepted, LinksKept
  <2> QED BY <1>1, <2>2, <2>3, SilentHandshake DEF table, loop
<1> QED BY <1>2, <1>3

\* What SIGPIPE interrupts was written to a broken connection, so an answer to
\* one client has then been delivered to nobody.
LEMMA KilledOnly ==
  ASSUME IInv, NEW l \in [Conn -> Link], NEW s \in Occupied, NEW w \in Seq(Msg),
         Killed(l, Nothing, Only(sock[s], w))
  PROVE  sent' = sent
<1> DEFINE out == Only(sock[s], w)
           writes(t) == Len(Nothing[sock[t]] \o out[sock[t]])
<1>1. PICK f \in Occupied :
        /\ MayDie(l[sock[f]], writes(f))
        /\ sent' = [c \in Conn |->
                      IF l[c] # "open" THEN sent[c]
                      ELSE sent[c] \o Nothing[c] \o
                             IF \E t \in Occupied : t < f /\ sock[t] = c THEN out[c] ELSE <<>>]
  BY DEF Killed
<1>2. /\ \A t \in Occupied : sock[t] \in Conn
      /\ out[sock[s]] = w /\ \A d \in Conn \ {sock[s]} : out[d] = <<>>
      /\ \A d \in Conn : Nothing[d] = <<>>
  BY SlotSocket DEF Only, Nothing
<1> HIDE DEF out
<1>3. sock[f] = sock[s]
  <2>1. CASE sock[f] # sock[s]
    <3>1. out[sock[f]] = <<>> /\ Nothing[sock[f]] = <<>>
      BY <1>2, <2>1
    <3>2. Len(<<>> \o <<>>) = 0
      OBVIOUS
    <3>3. writes(f) = 0
      BY <3>1, <3>2
    <3> QED BY <1>1, <3>3 DEF MayDie
  <2> QED BY <2>1
<1>4. l[sock[s]] # "open"
  <2>1. l[sock[f]] # "open"
    BY <1>1 DEF MayDie
  <2> QED BY <1>3, <2>1
<1>5. ASSUME NEW c \in Conn PROVE sent'[c] = sent[c]
  <2>1. CASE l[c] # "open"
    BY <1>1, <2>1
  <2>2. CASE l[c] = "open"
    <3>1. out[c] = <<>> /\ Nothing[c] = <<>> /\ sent[c] \in Seq(Msg)
      BY <1>2, <1>4, <2>2 DEF IInv, TypeOK
    <3>2. sent'[c] = sent[c] \o <<>> \o <<>>
      BY <1>1, <2>2, <3>1
    <3> QED BY <3>1, <3>2
  <2> QED BY <2>1, <2>2
<1>6. DOMAIN sent' = Conn /\ sent' = [c \in Conn |-> sent'[c]]
  BY <1>1
<1>7. sent = [c \in Conn |-> sent[c]]
  BY DEF IInv, TypeOK
<1> QED BY <1>5, <1>6, <1>7

\* The connections accepted so far remain so while the queue does.
LEMMA AcceptedKept ==
  ASSUME LinksKept(link, link'), backlog' = backlog
  PROVE  Accepted' = Accepted
BY DEF Accepted, LinksKept

\* What the members are told after a broadcast, or after a part of it.
LEMMA BroadcastHandshake ==
  ASSUME IInv, HandshakeInv, pc # "killed",
         LinksKept(link, link'), \A c \in Conn : link'[c] = "open" => link[c] = "open",
         backlog' = backlog, NEW S \in SUBSET Members, NEW w \in Seq(Msg),
         \A i \in DOMAIN w : w[i].kind \in {"join", "left", "chat", "entry"},
         \A c \in Conn :
           \/ sent'[c] = sent[c]
           \/ /\ link[c] = "open" /\ \E s \in S : sock[s] = c
              /\ sent'[c] = sent[c] \o w,
         \A s \in Slot : status'[s] = "NONE" \/ (status'[s] = status[s] /\ sock'[s] = sock[s])
  PROVE  HandshakeInv'
<1>1. Accepted' = Accepted
  BY AcceptedKept
<1>2. ASSUME NEW s \in Members PROVE s \in Occupied /\ sock[s] \in Conn /\ sock[s] \in Accepted
  <2>1. s \in Occupied
    BY DEF Members, Occupied
  <2> QED BY <2>1, SlotSocket
<1>3. ASSUME NEW s \in Members, link[sock[s]] = "open" PROVE Greeted(sent[sock[s]] \o w)
  <2>1. Told(s) /\ status[s] # "CONNECTING"
    BY <1>2, <1>3 DEF HandshakeInv, Members
  <2>2. Greeted(sent[sock[s]]) /\ sent[sock[s]] \in Seq(Msg)
    BY <1>2, <2>1 DEF Told, IInv, TypeOK
  <2> QED BY <2>2, GreetedGrows
<1>4. ASSUME NEW c \in Conn
      PROVE  sent'[c] = sent[c] \/ (InOrder(sent[c])' /\ c \in Accepted')
  <2>1. CASE sent'[c] # sent[c]
    <3>1. PICK s \in S : sock[s] = c
      BY <2>1
    <3>2. Greeted(sent'[c]) /\ c \in Accepted'
      BY <1>1, <1>2, <1>3, <2>1, <3>1
    <3> QED BY <3>2 DEF InOrder, Greeted, Plain
  <2> QED BY <2>1
<1>5. ASSUME NEW s \in Occupied', link'[sock'[s]] = "open"
      PROVE  \/ /\ s \in Occupied /\ link[sock[s]] = "open"
                /\ sock'[s] = sock[s] /\ status'[s] = status[s] /\ sent'[sock[s]] = sent[sock[s]]
             \/ Told(s)'
  <2>1. s \in Slot /\ status'[s] # "NONE"
    BY DEF Occupied
  <2>2. s \in Occupied /\ status'[s] = status[s] /\ sock'[s] = sock[s]
    BY <2>1 DEF Occupied
  <2>3. sock[s] \in Conn /\ link[sock[s]] = "open" /\ \A t \in Occupied : sock[t] = sock[s] => t = s
    BY <1>5, <2>2, SlotSocket
  <2>4. CASE sent'[sock[s]] # sent[sock[s]]
    <3>1. PICK t \in S : sock[t] = sock[s]
      BY <2>3, <2>4
    <3>2. s \in Members
      BY <1>2, <2>3, <3>1
    <3>3. Greeted(sent'[sock[s]]) /\ status[s] # "CONNECTING"
      BY <1>3, <2>3, <2>4, <3>2 DEF Members
    <3> QED BY <2>2, <3>3 DEF Told, Greeted, Plain
  <2> QED BY <2>2, <2>3, <2>4
<1> QED BY <1>1, <1>4, <1>5, HandshakeKept

\* A handler's broadcast to members, whether it returns or is interrupted.
LEMMA ToMembersHandshake ==
  ASSUME IInv, HandshakeInv, pc # "killed",
         NEW l \in [Conn -> Link], LinksKept(link, l), SameOpen(l),
         NEW S \in SUBSET Members, NEW m \in Msg, m.kind \in {"join", "left", "chat"},
         \/ /\ Deliver(l, Nothing, ToAll(S, m))
            /\ \A s \in Slot : status'[s] = "NONE" \/ (status'[s] = status[s] /\ sock'[s] = sock[s])
            /\ backlog' = backlog
         \/ Killed(l, Nothing, ToAll(S, m))
  PROVE  HandshakeInv'
<1>1. /\ S \in SUBSET Slot /\ Nothing \in [Conn -> Seq(Msg)]
      /\ ToAll(S, m) \in [Conn -> Seq(Msg)] /\ TypeOK
  BY OutTypes DEF Members, IInv
<1>2. /\ LinksKept(link, link') /\ backlog' = backlog
      /\ \A c \in Conn : link'[c] = "open" => link[c] = "open"
      /\ \A s \in Slot : status'[s] = "NONE" \/ (status'[s] = status[s] /\ sock'[s] = sock[s])
  <2>1. CASE Killed(l, Nothing, ToAll(S, m))
    BY <2>1 DEF Killed, table, SameOpen
  <2>2. CASE Deliver(l, Nothing, ToAll(S, m)) /\ ~Killed(l, Nothing, ToAll(S, m))
    <3>1. LinksKept(l, link')
      BY <2>2, DeliverLinks
    <3>2. \A c \in Conn : link'[c] = "open" <=> l[c] = "open"
      BY <1>1, <2>2, DeliverAt
    <3>3. LinksKept(link, link')
      BY <3>1 DEF LinksKept
    <3> QED BY <2>2, <3>2, <3>3 DEF SameOpen
  <2> QED BY <2>1, <2>2
<1>3. ASSUME NEW c \in Conn
      PROVE  \/ sent'[c] = sent[c]
             \/ /\ link[c] = "open" /\ \E s \in S : sock[s] = c
                /\ sent'[c] = sent[c] \o <<m>>
  <2>1. /\ sent[c] \o Nothing[c] \o <<m>> = sent[c] \o <<m>>
        /\ sent[c] \o Nothing[c] \o <<>> = sent[c]
    BY <1>1 DEF Nothing, TypeOK
  <2>2. PICK F \in SUBSET {sock[s] : s \in S} : Spread(l, Nothing, F, m)
    BY <1>1, ToAllSpread, KilledSpread
  <2>3. /\ l[c] # "open" => sent'[c] = sent[c]
        /\ l[c] = "open" => sent'[c] = sent[c] \o Nothing[c] \o Share(F, m, c)
    BY <2>2 DEF Spread
  <2> QED BY <2>1, <2>2, <2>3 DEF SameOpen, Share
<1>4. <<m>> \in Seq(Msg) /\ \A i \in DOMAIN <<m>> : <<m>>[i].kind \in {"join", "left", "chat", "entry"}
  OBVIOUS
<1> QED BY <1>2, <1>3, <1>4, BroadcastHandshake

LEMMA DisconnectHandshake ==
  ASSUME IInv, HandshakeInv, pc = "scan", NEW s \in Occupied,
         NEW l \in [Conn -> Link], LinksKept(link, l), SameOpen(l), ClientDisconnected(s, l)
  PROVE  HandshakeInv'
<1>1. s \in Slot
  BY DEF Occupied
<1>2. \/ Killed(l, Nothing, DepartureNotice(s))
      \/ /\ Deliver(l, Nothing, DepartureNotice(s))
         /\ \A t \in Slot : status'[t] = "NONE" \/ (status'[t] = status[t] /\ sock'[t] = sock[t])
         /\ backlog' = backlog
  BY <1>1 DEF ClientDisconnected, IInv, TypeOK
<1>3. PICK S \in SUBSET Members : DepartureNotice(s) = ToAll(S, About("left", name[s]))
  <2>1. Nothing = ToAll({}, About("left", name[s]))
    BY DEF Nothing, ToAll
  <2> QED BY <2>1 DEF DepartureNotice
<1>4. About("left", name[s]) \in Msg /\ About("left", name[s]).kind = "left"
  BY <1>1, MsgTypes DEF IInv, TypeOK, About
<1> QED BY <1>2, <1>3, <1>4, ToMembersHandshake

LEMMA RejectNameHandshake ==
  ASSUME IInv, HandshakeInv, pc = "scan", NEW s \in Occupied, status[s] = "CONNECTING",
         RejectName(s), backlog' = backlog, pc' \in {"scan", "select"}
  PROVE  HandshakeInv'
<1> DEFINE c == sock[s]
           w == <<Plain("nameRejected")>>
<1>1. /\ s \in Slot /\ c \in Conn /\ c \in Accepted
      /\ \A t \in Occupied : sock[t] = c => t = s
  BY SlotSocket
<1>2. /\ Deliver(link, Nothing, Only(c, w)) /\ link \in [Conn -> Link] /\ TypeOK
      /\ sock' = [sock EXCEPT ![s] = NoSock]
      /\ status' = [status EXCEPT ![s] = "NONE"]
  BY DEF RejectName, IInv, TypeOK
<1>3. w \in Seq(Msg)
  BY MsgTypes
<1> HIDE DEF c
<1>4. /\ \A d \in Conn : link'[d] = "open" <=> link[d] = "open"
      /\ \A d \in Conn \ {c} : sent'[d] = sent[d]
      /\ link[c] = "open" => sent'[c] = sent[c] \o w
      /\ link[c] # "open" => sent'[c] = sent[c]
  <2> HIDE DEF w
  <2> QED BY <1>1, <1>2, <1>3, OnlyAt
<1>5. LinksKept(link, link')
  BY <1>2, DeliverLinks
<1>6. Accepted' = Accepted
  BY <1>5, AcceptedKept
<1>7. ASSUME NEW d \in Conn PROVE sent'[d] = sent[d] \/ (InOrder(sent[d])' /\ d \in Accepted)
  <2>1. CASE d = c /\ link[c] = "open"
    <3>1. sent[c] = <<Plain("accepted")>>
      BY <2>1 DEF HandshakeInv, Told, c
    <3>2. sent'[d] = <<Plain("accepted"), Plain("nameRejected")>>
      BY <1>4, <2>1, <3>1
    <3>3. sent'[d] \in Refused
      BY <3>2 DEF Refused
    <3> QED BY <1>1, <2>1, <3>3 DEF InOrder, Refused, Plain
  <2> QED BY <1>4, <2>1
<1>8. ASSUME NEW t \in Occupied'
      PROVE  /\ t \in Occupied /\ sock'[t] = sock[t] /\ status'[t] = status[t]
             /\ sent'[sock[t]] = sent[sock[t]] /\ sock[t] \in Conn
  <2>1. t \in Slot /\ t # s
    BY <1>1, <1>2 DEF Occupied, TypeOK
  <2>2. t \in Occupied /\ sock'[t] = sock[t] /\ status'[t] = status[t]
    BY <1>1, <1>2, <2>1 DEF Occupied, TypeOK
  <2>3. sock[t] \in Conn \ {c}
    BY <1>1, <2>1, <2>2, SlotSocket
  <2> QED BY <1>4, <2>2, <2>3
<1>9. \A d \in Conn : sent'[d] = sent[d] \/ (InOrder(sent[d])' /\ d \in Accepted')
  BY <1>6, <1>7
<1>10. \A t \in Occupied' : link'[sock'[t]] = "open" =>
         /\ t \in Occupied /\ link[sock[t]] = "open"
         /\ sock'[t] = sock[t] /\ status'[t] = status[t] /\ sent'[sock[t]] = sent[sock[t]]
  BY <1>4, <1>8
<1> QED BY <1>6, <1>9, <1>10, HandshakeKept

\* The writes of a registration, all of them or those before SIGPIPE.
LEMMA RegisterHandshake ==
  ASSUME IInv, HandshakeInv, pc = "scan", NEW s \in Occupied, status[s] = "CONNECTING",
         NEW n \in Name, backlog' = backlog,
         \/ RegisterName(s, n) /\ pc' # "killed"
         \/ Killed(link, Acknowledged(s), JoinNotice(s, n))
  PROVE  HandshakeInv'
<1> DEFINE c == sock[s]
           r == Plain("registered")
           j == About("join", n)
           S == Members \cup {s}
<1>1. /\ s \in Slot /\ c \in Conn /\ c \in Accepted /\ s \notin Members
      /\ \A t \in Occupied : sock[t] = c => t = s
  BY SlotSocket DEF Members
<1>2. /\ TypeOK /\ link \in [Conn -> Link] /\ j \in Msg /\ r \in Msg /\ S \in SUBSET Slot
      /\ Acknowledged(s) \in [Conn -> Seq(Msg)]
      /\ JoinNotice(s, n) \in [Conn -> Seq(Msg)] /\ JoinNotice(s, n) = ToAll(S, j)
  BY <1>1, WelcomeTypes, MsgTypes DEF IInv, TypeOK, Members, JoinNotice
<1>3. Acknowledged(s)[c] = <<r>> /\ \A d \in Conn \ {c} : Acknowledged(s)[d] = <<>>
  BY <1>1 DEF Acknowledged, Only
<1>4. /\ LinksKept(link, link') /\ \A d \in Conn : link'[d] = "open" <=> link[d] = "open"
      /\ sock' = sock
      /\ \A t \in Slot \ {s} : status'[t] = status[t]
      /\ status'[s] \in {status[s], "CONNECTED"} /\ (pc' # "killed" => status'[s] = "CONNECTED")
  <2>1. CASE RegisterName(s, n) /\ pc' # "killed"
    <3>1. Deliver(link, Acknowledged(s), JoinNotice(s, n))
      BY <2>1 DEF RegisterName
    <3>2. LinksKept(link, link') /\ \A d \in Conn : link'[d] = "open" <=> link[d] = "open"
      BY <1>2, <3>1, DeliverLinks, DeliverAt
    <3> QED BY <1>1, <2>1, <3>2 DEF RegisterName, IInv, TypeOK
  <2>2. CASE Killed(link, Acknowledged(s), JoinNotice(s, n))
    BY <2>2 DEF Killed, table, LinksKept
  <2> QED BY <2>1, <2>2
<1>5. \E F \in SUBSET {sock[t] : t \in S} :
        /\ pc' # "killed" => F = {sock[t] : t \in S}
        /\ Spread(link, Acknowledged(s), F, j)
  <2>1. CASE RegisterName(s, n) /\ pc' # "killed"
    <3>1. Deliver(link, Acknowledged(s), ToAll(S, j))
      BY <1>2, <2>1 DEF RegisterName
    <3> HIDE DEF S, j
    <3>2. Spread(link, Acknowledged(s), {sock[t] : t \in S}, j)
      BY <1>2, <3>1, ToAllSpread
    <3> QED BY <3>2
  <2>2. CASE Killed(link, Acknowledged(s), JoinNotice(s, n))
    <3>1. Killed(link, Acknowledged(s), ToAll(S, j)) /\ pc' = "killed"
      BY <1>2, <2>2 DEF Killed
    <3> HIDE DEF S, j
    <3>2. \E F \in SUBSET {sock[t] : t \in S} : Spread(link, Acknowledged(s), F, j)
      BY <1>2, <3>1, KilledSpread
    <3> QED BY <3>1, <3>2
  <2> QED BY <2>1, <2>2
<1>6. PICK F \in SUBSET {sock[t] : t \in S} :
        /\ pc' # "killed" => F = {sock[t] : t \in S}
        /\ Spread(link, Acknowledged(s), F, j)
  BY <1>5
<1> HIDE DEF c, r, j
<1>7. ASSUME link[c] = "open"
      PROVE  IF c \in F THEN Greeted(sent'[c])
             ELSE sent'[c] = <<Plain("accepted"), r>>
  <2>1. sent[c] = <<Plain("accepted")>>
    BY <1>7 DEF HandshakeInv, Told, c
  <2>2. sent'[c] = sent[c] \o <<r>> \o Share(F, j, c)
    BY <1>1, <1>3, <1>6, <1>7 DEF Spread
  <2>3. sent[c] \in Seq(Msg)
    BY <1>1, <1>2 DEF TypeOK
  <2>4. CASE c \in F
    <3>1. sent'[c] = sent[c] \o <<r>> \o <<j>>
      BY <2>2, <2>4 DEF Share
    <3>2. Greeted(sent[c] \o <<r>> \o <<j>>)
      BY <2>1, <2>3, NewlyGreeted DEF r, j
    <3> QED BY <2>4, <3>1, <3>2
  <2>5. CASE c \notin F
    <3>1. sent'[c] = sent[c] \o <<r>> \o <<>>
      BY <2>2, <2>5 DEF Share
    <3>2. sent[c] \o <<r>> \o <<>> = sent[c] \o <<r>>
      BY <1>2, <2>3
    <3>3. sent'[c] = <<Plain("accepted"), r>>
      BY <1>2, <2>1, <2>3, <3>1, <3>2, Pair
    <3> QED BY <2>5, <3>3
  <2> QED BY <2>4, <2>5
<1>8. ASSUME NEW d \in Conn \ {c}, sent'[d] # sent[d]
      PROVE  /\ Greeted(sent'[d]) /\ d \in Accepted
             /\ \E t \in Members : sock[t] = d
  <2>1. link[d] = "open" /\ sent'[d] = sent[d] \o <<>> \o Share(F, j, d)
    BY <1>3, <1>6, <1>8 DEF Spread
  <2>2. sent[d] \in Seq(Msg) /\ sent[d] \o <<>> = sent[d]
    BY <1>2 DEF TypeOK
  <2>3. d \in F /\ sent'[d] = sent[d] \o <<j>>
    BY <1>8, <2>1, <2>2 DEF Share
  <2>4. PICK t \in S : sock[t] = d
    BY <2>3
  <2>5. t \in Members /\ t \in Occupied /\ status[t] # "CONNECTING"
    BY <2>4 DEF Members, Occupied, c
  <2>6. Greeted(sent[d])
    BY <2>1, <2>4, <2>5 DEF HandshakeInv, Told
  <2>7. <<j>> \in Seq(Msg) /\ \A i \in DOMAIN <<j>> : <<j>>[i].kind \in {"join", "left", "chat", "entry"}
    BY <1>2 DEF j, About
  <2>8. Greeted(sent[d] \o <<j>>)
    BY <2>2, <2>6, <2>7, GreetedGrows
  <2> QED BY <2>3, <2>4, <2>5, <2>8, SlotSocket
<1>9. Accepted' = Accepted
  BY <1>4, AcceptedKept
<1>10. ASSUME NEW d \in Conn
       PROVE  sent'[d] = sent[d] \/ (InOrder(sent[d])' /\ d \in Accepted')
  <2>1. CASE d # c /\ sent'[d] # sent[d]
    <3>1. Greeted(sent'[d]) /\ d \in Accepted'
      BY <1>8, <1>9, <2>1
    <3> QED BY <3>1 DEF InOrder, Greeted, Plain
  <2>2. CASE d = c /\ link[c] = "open"
    <3>1. CASE c \in F
      <4>1. Greeted(sent'[c])
        BY <1>7, <2>2, <3>1
      <4> QED BY <1>1, <1>9, <2>2, <4>1 DEF InOrder, Greeted, Plain
    <3>2. CASE c \notin F
      <4>1. pc' = "killed" /\ sent'[c] = <<Plain("accepted"), r>>
        <5>1. s \in S /\ sock[s] = c
          BY DEF c
        <5> QED BY <1>6, <1>7, <2>2, <3>2, <5>1
      <4> QED BY <1>1, <1>9, <2>2, <4>1 DEF InOrder, r, Plain
    <3> QED BY <3>1, <3>2
  <2>3. CASE link[d] # "open"
    BY <1>6, <2>3 DEF Spread
  <2> QED BY <2>1, <2>2, <2>3
<1>11. ASSUME pc' # "killed", NEW t \in Occupied', link'[sock'[t]] = "open"
       PROVE  \/ /\ t \in Occupied /\ link[sock[t]] = "open"
                 /\ sock'[t] = sock[t] /\ status'[t] = status[t] /\ sent'[sock[t]] = sent[sock[t]]
              \/ Told(t)'
  <2>1. t \in Occupied
    BY <1>1, <1>4 DEF Occupied
  <2>2. sock[t] \in Conn /\ sock'[t] = sock[t] /\ link[sock[t]] = "open" /\ t \in Slot
    BY <1>4, <1>11, <2>1, SlotSocket
  <2>3. CASE t = s
    <3>1. c \in F /\ sock[t] = c /\ sock'[t] = c /\ status'[t] = "CONNECTED"
      BY <1>4, <1>6, <1>11, <2>2, <2>3 DEF c
    <3>2. Greeted(sent'[c])
      BY <1>7, <2>2, <3>1
    <3> QED BY <3>1, <3>2 DEF Told, Greeted, Plain
  <2>4. CASE t # s
    <3>1. status'[t] = status[t] /\ sock[t] # c
      BY <1>1, <1>4, <2>1, <2>2, <2>4
    <3>2. CASE sent'[sock[t]] # sent[sock[t]]
      <4>1. PICK u \in Members : sock[u] = sock[t]
        BY <1>8, <2>2, <3>1, <3>2
      <4>2. u \in Occupied
        BY DEF Members, Occupied
      <4>3. u = t
        BY <2>1, <4>1, <4>2, SlotSocket
      <4>4. Greeted(sent'[sock[t]]) /\ status[t] # "CONNECTING"
        BY <1>8, <2>2, <3>1, <3>2, <4>3 DEF Members
      <4> QED BY <2>2, <3>1, <4>4 DEF Told, Greeted, Plain
    <3> QED BY <2>1, <2>2, <3>1, <3>2
  <2> QED BY <2>3, <2>4
<1> QED BY <1>9, <1>10, <1>11, HandshakeKept

\* Where the handlers find the server and what they leave behind.
LEMMA ScannedTo == \A s : Scanned(s) => pc' \in {"scan", "select"}
BY DEF Scanned

LEMMA AnswerHandshake ==
  ASSUME IInv, HandshakeInv, pc = "scan", NEW s \in Members,
         NEW l \in [Conn -> Link], LinksKept(link, l), SameOpen(l),
         NEW text \in Seq(Piece), NEW k \in Nat, Answer(s, l, text, k)
  PROVE  HandshakeInv'
<1>1. PICK out \in Reply(s, text) :
        \/ Deliver(l, Nothing, out) /\ UNCHANGED <<table, backlog>>
        \/ Killed(l, Nothing, out)
  BY DEF Answer
<1>2. s \in Occupied /\ s \in Slot /\ sock[s] \in Conn /\ TypeOK
  BY SlotSocket DEF Members, Occupied, IInv
<1>3. CASE text # <<ListCmd>>
  <2>1. out = ToAll(Members, Chat(name[s], text))
    BY <1>1, <1>3 DEF Reply
  <2>2. Chat(name[s], text) \in Msg /\ Chat(name[s], text).kind = "chat"
    BY <1>2, MsgTypes DEF TypeOK, Chat
  <2> QED BY <1>1, <2>1, <2>2, ToMembersHandshake DEF table
<1>4. CASE text = <<ListCmd>>
  <2>1. PICK q \in SlotOrder : out = Only(sock[s], NameList(q))
    BY <1>1, <1>4 DEF Reply
  <2> DEFINE w == NameList(q)
  <2>2. w \in Seq(Msg) /\ \A i \in DOMAIN w : w[i].kind \in {"join", "left", "chat", "entry"}
    BY <1>2, NameListTypes
  <2> HIDE DEF w
  <2>3. CASE Killed(l, Nothing, out)
    <3>1. sent' = sent
      BY <1>2, <2>1, <2>2, <2>3, KilledOnly DEF w
    <3>2. link' = l /\ pc' = "killed" /\ UNCHANGED <<table, backlog>>
      BY <2>3 DEF Killed
    <3>3. Accepted' = Accepted
      BY <3>2, AcceptedKept
    <3> QED BY <3>1, <3>2, <3>3, SilentHandshake DEF table, SameOpen
  <2>4. CASE Deliver(l, Nothing, out) /\ UNCHANGED <<table, backlog>>
    <3>1. Deliver(l, Nothing, Only(sock[s], w))
      BY <2>1, <2>4 DEF w
    <3>2. /\ \A d \in Conn : link'[d] = "open" <=> l[d] = "open"
          /\ \A d \in Conn \ {sock[s]} : sent'[d] = sent[d]
          /\ l[sock[s]] = "open" => sent'[sock[s]] = sent[sock[s]] \o w
          /\ l[sock[s]] # "open" => sent'[sock[s]] = sent[sock[s]]
      BY <1>2, <2>2, <3>1, OnlyAt
    <3>3. LinksKept(link, link')
      <4>1. LinksKept(l, link')
        BY <3>1, DeliverLinks
      <4> QED BY <4>1 DEF LinksKept
    <3>4. \A c \in Conn :
            \/ sent'[c] = sent[c]
            \/ /\ link[c] = "open" /\ \E t \in {s} : sock[t] = c
               /\ sent'[c] = sent[c] \o w
      BY <1>2, <3>2 DEF SameOpen
    <3>5. \A c \in Conn : link'[c] = "open" => link[c] = "open"
      BY <3>2 DEF SameOpen
    <3>6. \A t \in Slot : status'[t] = status[t] /\ sock'[t] = sock[t]
      BY <2>4 DEF table
    <3>7. {s} \in SUBSET Members /\ backlog' = backlog
      BY <2>4
    <3> QED BY <2>2, <3>3, <3>4, <3>5, <3>6, <3>7, BroadcastHandshake
  <2> QED BY <1>1, <2>3, <2>4
<1> QED BY <1>3, <1>4

LEMMA ServeHandshake ==
  ASSUME IInv, HandshakeInv, pc = "scan", NEW s \in ready, ReceiveUsername(s) \/ HandleMessage(s)
  PROVE  HandshakeInv'
<1> DEFINE c == sock[s]
           n == Stored[Head(inbox[c])]
           reset == [link EXCEPT ![c] = "dead"]
<1>1. s \in Slot /\ s \in Occupied /\ c \in Conn /\ inbox[c] \in Seq(Piece)
  <2>1. s \in Slot /\ s \in Occupied
    BY DEF IInv, TypeOK, Occupied, ReceiveUsername, HandleMessage
  <2> QED BY <2>1, SlotSocket DEF IInv, TypeOK
<1>2. link \in [Conn -> Link] /\ LinksKept(link, link) /\ SameOpen(link)
  BY DEF IInv, TypeOK, LinksKept, SameOpen
<1>3. CASE ReceiveUsername(s)
  <2>1. CASE inbox[c] = <<>>
    <3>1. ClientDisconnected(s, link)
      BY <1>3, <2>1 DEF ReceiveUsername
    <3> QED BY <1>1, <1>2, <3>1, DisconnectHandshake
  <2>2. CASE inbox[c] # <<>>
    <3>1. n \in Name /\ status[s] = "CONNECTING"
      <4>1. Head(inbox[c]) \in Piece
        BY <1>1, <2>2
      <4> QED BY <1>3, <4>1, ChatAssumption DEF ReceiveUsername
    <3>2. \/ RejectName(s) /\ Scanned(s) /\ backlog' = backlog
          \/ RegisterName(s, n) /\ Scanned(s) /\ backlog' = backlog
          \/ Killed(link, Acknowledged(s), JoinNotice(s, n)) /\ backlog' = backlog
      BY <1>3, <2>2 DEF ReceiveUsername, Killed
    <3> HIDE DEF n
    <3>3. CASE RejectName(s) /\ Scanned(s) /\ backlog' = backlog
      BY <1>1, <3>1, <3>3, ScannedTo, RejectNameHandshake
    <3>4. CASE RegisterName(s, n) /\ Scanned(s) /\ backlog' = backlog
      <4>1. pc' # "killed"
        BY <3>4, ScannedTo
      <4> QED BY <1>1, <3>1, <3>4, <4>1, RegisterHandshake
    <3>5. CASE Killed(link, Acknowledged(s), JoinNotice(s, n)) /\ backlog' = backlog
      BY <1>1, <3>1, <3>5, RegisterHandshake
    <3> QED BY <3>2, <3>3, <3>4, <3>5
  <2> QED BY <2>1, <2>2
<1>4. CASE HandleMessage(s)
  <2>1. s \in Members
    BY <1>1, <1>4 DEF HandleMessage, Members
  <2>2. ASSUME NEW k \in 1 .. MaxRead, Answer(s, link, SubSeq(inbox[c], 1, k), k), k <= Len(inbox[c])
        PROVE  HandshakeInv'
    <3>1. k \in Nat /\ SubSeq(inbox[c], 1, k) \in Seq(Piece)
      BY <1>1, <2>2, ChatAssumption
    <3> QED BY <1>2, <2>1, <2>2, <3>1, AnswerHandshake
  <2>3. CASE ClientDisconnected(s, link)
    BY <1>1, <1>2, <2>3, DisconnectHandshake
  <2>4. CASE link[c] = "rst" /\ ReadError(s, reset)
    <3>1. reset \in [Conn -> Link] /\ LinksKept(link, reset) /\ SameOpen(reset)
      BY <1>1, <1>2, <2>4 DEF Link, LinksKept, Broken, SameOpen
    <3>2. CASE ClientDisconnected(s, reset)
      BY <1>1, <3>1, <3>2, DisconnectHandshake
    <3>3. ASSUME NEW text \in {<<Junk>>, <<ListCmd>>}, Answer(s, reset, text, 0)
          PROVE  HandshakeInv'
      <4>1. Junk \in Piece /\ ListCmd \in Piece
        BY DEF Piece
      <4>2. <<Junk>> \in Seq(Piece) /\ <<ListCmd>> \in Seq(Piece)
        BY <4>1
      <4> HIDE DEF reset
      <4> QED BY <2>1, <3>1, <3>3, <4>2, AnswerHandshake
    <3> QED BY <2>4, <3>2, <3>3 DEF ReadError
  <2> QED BY <1>4, <2>2, <2>3, <2>4 DEF HandleMessage
<1> QED BY <1>3, <1>4

\* new_client tells the connection it takes off the queue ACCEPTED or REJECTED,
\* and has told it nothing before.
LEMMA NewClientHandshake ==
  ASSUME IInv, HandshakeInv, NewClient
  PROVE  HandshakeInv'
<1> DEFINE c == Head(backlog)
<1>1. /\ pc = "accept" /\ pc' = "select" /\ backlog' = Tail(backlog)
      /\ link \in [Conn -> Link] /\ TypeOK /\ CountCoversSlots
      /\ AcceptClient(c) \/ RejectClient(c)
  BY DEF NewClient, IInv, TypeOK
<1>2. PICK k \in {"accepted", "rejected"} :
        /\ Deliver(link, Nothing, Only(c, <<Plain(k)>>))
        /\ closed' \subseteq closed \cup {c}
        /\ \/ k = "accepted" /\ \E s \in Slot : /\ status[s] = "NONE"
                                                /\ sock' = [sock EXCEPT ![s] = c]
                                                /\ status' = [status EXCEPT ![s] = "CONNECTING"]
           \/ k = "rejected" /\ UNCHANGED table
  <2>1. CASE RejectClient(c)
    BY <2>1 DEF RejectClient
  <2>2. CASE AcceptClient(c)
    <3>1. PICK s \in Slot : status[s] = "NONE" /\ Taken = {s}
      BY <1>1, <2>2, SlotForClient DEF AcceptClient
    <3>2. /\ sock' = [sock EXCEPT ![s] = c] /\ status' = [status EXCEPT ![s] = "CONNECTING"]
          /\ Deliver(link, Nothing, Only(c, <<Plain("accepted")>>)) /\ UNCHANGED closed
      BY <1>1, <2>2, <3>1 DEF AcceptClient, TypeOK
    <3> HIDE DEF c
    <3> QED BY <3>1, <3>2
  <2> QED BY <1>1, <2>1, <2>2
<1>3. LinksKept(link, link')
  BY <1>1, <1>2, DeliverLinks
<1>4. c \in Conn /\ Accepted' = Accepted \cup {c} /\ \A s \in Occupied : sock[s] # c
  BY <1>1, <1>2, <1>3, QueueHead
<1>5. c \notin Accepted
  <2>1. backlog # <<>> /\ backlog \in Seq(Conn)
    BY <1>1 DEF IInv, QueueOK, TypeOK
  <2>2. 1 \in DOMAIN backlog /\ backlog[1] = c
    BY <2>1
  <2> QED BY <2>2 DEF Accepted
<1> HIDE DEF c
<1>6. <<Plain(k)>> \in Seq(Msg)
  BY MsgTypes
<1>7. /\ \A d \in Conn : link'[d] = "open" <=> link[d] = "open"
      /\ \A d \in Conn \ {c} : sent'[d] = sent[d]
      /\ link[c] = "open" => sent'[c] = sent[c] \o <<Plain(k)>>
      /\ link[c] # "open" => sent'[c] = sent[c]
  BY <1>1, <1>2, <1>4, <1>6, OnlyAt
<1>8. sent[c] = <<>> /\ (link[c] = "open" => sent'[c] = <<Plain(k)>>)
  <2>1. sent[c] = <<>>
    BY <1>4, <1>5 DEF HandshakeInv
  <2>2. <<>> \o <<Plain(k)>> = <<Plain(k)>>
    BY <1>6
  <2> QED BY <1>7, <2>1, <2>2
<1>9. ASSUME NEW d \in Conn PROVE sent'[d] = sent[d] \/ (InOrder(sent[d])' /\ d \in Accepted')
  <2>1. CASE d = c /\ link[c] = "open"
    BY <1>4, <1>8, <2>1 DEF InOrder, Refused, Plain
  <2> QED BY <1>7, <2>1
<1>10. ASSUME NEW s \in Occupied', link'[sock'[s]] = "open"
       PROVE  \/ /\ s \in Occupied /\ link[sock[s]] = "open"
                 /\ sock'[s] = sock[s] /\ status'[s] = status[s] /\ sent'[sock[s]] = sent[sock[s]]
              \/ Told(s)'
  <2>1. s \in Slot /\ status'[s] # "NONE"
    BY DEF Occupied
  <2>2. CASE s \in Occupied
    <3>1. sock'[s] = sock[s] /\ status'[s] = status[s]
      BY <1>2, <2>1, <2>2 DEF Occupied, table, IInv, TypeOK
    <3>2. sock[s] \in Conn \ {c}
      BY <1>4, <2>2, SlotSocket
    <3> QED BY <1>7, <1>10, <2>2, <3>1, <3>2
  <2>3. CASE s \notin Occupied
    <3>1. k = "accepted" /\ sock'[s] = c /\ status'[s] = "CONNECTING"
      BY <1>2, <2>1, <2>3 DEF Occupied, table, IInv, TypeOK
    <3>2. sent'[c] = <<Plain("accepted")>>
      BY <1>4, <1>7, <1>8, <1>10, <3>1
    <3> QED BY <3>1, <3>2 DEF Told, Plain
  <2> QED BY <2>2, <2>3
<1> QED BY <1>1, <1>4, <1>9, <1>10, HandshakeKept

LEMMA NextHandshake ==
  ASSUME IInv, HandshakeInv, [Next]_vars
  PROVE  HandshakeInv'
<1>1. CASE Select \/ SyscallFails \/ UNCHANGED vars
  <2>1. UNCHANGED <<table, backlog, link, sent>> /\ (pc = "killed" => pc' = "killed")
    BY <1>1 DEF Select, SyscallFails, vars, loop
  <2>2. LinksKept(link, link') /\ \A c \in Conn : link'[c] = link[c]
    BY <2>1 DEF LinksKept
  <2>3. Accepted' = Accepted
    BY <2>1, <2>2, AcceptedKept
  <2> QED BY <2>1, <2>2, <2>3, SilentHandshake DEF table
<1>2. CASE NewClient
  BY <1>2, NewClientHandshake
<1>3. CASE Serve
  BY <1>3, ServeHandshake DEF Serve
<1>4. ASSUME NEW c \in Conn, Peer(c) PROVE HandshakeInv'
  BY <1>4, PeerHandshake
<1> QED BY <1>1, <1>2, <1>3, <1>4 DEF Next, Server

\* Nothing is said before the acceptance; then the status of a slot says what its
\* connection has been told.
THEOREM HandshakeInvariant == Spec => []HandshakeInv
<1>1. Init => HandshakeInv
  BY DEF Init, HandshakeInv, HandshakeOrder, Occupied
<1>2. IInv /\ HandshakeInv /\ [Next]_vars => HandshakeInv'
  BY NextHandshake
<1> QED BY <1>1, <1>2, Invariant, PTL DEF Spec

\* Whatever connects, breaks or is interrupted, every peer is told ACCEPTED
\* first, REGISTERED before any broadcast, its own join notice before anything
\* else is said, and nothing after a rejection.
THEOREM HandshakeCorrect == Spec => []HandshakeOrder
<1>1. HandshakeInv => HandshakeOrder
  BY DEF HandshakeInv
<1> QED BY <1>1, HandshakeInvariant, PTL

-------------------------------------------------------------------------------
(* The server keeps the promise of ChatRoom: what the room's variables are *)
(* made of.                                                                *)

\* A function from the keys of M to what the entry with that key holds.
LEMMA Keyed ==
  ASSUME NEW M, NEW k, NEW v, \A s, t \in M : s # t => k[s] # k[t]
  PROVE  \A s \in M : v[CHOOSE t \in M : k[t] = k[s]] = v[s]
<1> SUFFICES ASSUME NEW s \in M PROVE (CHOOSE t \in M : k[t] = k[s]) = s
  OBVIOUS
<1>1. \E t \in M : k[t] = k[s]
  OBVIOUS
<1>2. (CHOOSE t \in M : k[t] = k[s]) \in M /\ k[CHOOSE t \in M : k[t] = k[s]] = k[s]
  BY <1>1
<1> QED BY <1>2

Sockets(S) == {sock[s] : s \in S}

\* The users in the room are the sockets of the members, under their names.
LEMMA WhoFacts ==
  ASSUME DescriptorsKept
  PROVE  /\ DOMAIN Who = Sockets(Members) /\ Who = [c \in Sockets(Members) |-> Who[c]]
         /\ \A s \in Members : Who[sock[s]] = name[s]
<1>1. \A s, t \in Members : s # t => sock[s] # sock[t]
  BY DEF DescriptorsKept, Members, Occupied
<1>2. \A s \in Members : Who[sock[s]] = name[CHOOSE t \in Members : sock[t] = sock[s]]
  BY DEF Who, SlotOf
<1>3. \A s \in Members : name[CHOOSE t \in Members : sock[t] = sock[s]] = name[s]
  BY <1>1, Keyed
<1> QED BY <1>2, <1>3 DEF Who, Sockets

LEMMA WhoFactsNext ==
  ASSUME DescriptorsKept'
  PROVE  /\ DOMAIN Who' = Sockets(Members)' /\ Who' = [c \in Sockets(Members)' |-> Who'[c]]
         /\ \A s \in Members' : Who'[sock'[s]] = name'[s]
<1>1. \A s, t \in Members' : s # t => sock'[s] # sock'[t]
  BY DEF DescriptorsKept, Members, Occupied
<1>2. \A s \in Members' : Who'[sock'[s]] = name'[CHOOSE t \in Members' : sock'[t] = sock'[s]]
  BY DEF Who, SlotOf
<1>3. \A s \in Members' : name'[CHOOSE t \in Members' : sock'[t] = sock'[s]] = name'[s]
  BY <1>1, Keyed
<1> QED BY <1>2, <1>3 DEF Who, Sockets

\* Nobody enters or leaves when the members' slots stay as they are.
LEMMA WhoKept ==
  ASSUME DescriptorsKept, DescriptorsKept', Members' = Members,
         \A s \in Members : sock'[s] = sock[s] /\ name'[s] = name[s]
  PROVE  Who' = Who
<1>1. Sockets(Members)' = Sockets(Members)
  BY DEF Sockets
<1>2. ASSUME NEW c \in Sockets(Members) PROVE Who'[c] = Who[c]
  <2>1. PICK s \in Members : c = sock[s]
    BY DEF Sockets
  <2> QED BY <2>1, WhoFacts, WhoFactsNext
<1> QED BY <1>1, <1>2, WhoFacts, WhoFactsNext

\* Writing drives nobody away and brings nobody back.
LEMMA GoneKept ==
  ASSUME LinksKept(link, link'), \A c \in Conn : link'[c] = "open" <=> link[c] = "open"
  PROVE  Gone' = Gone
BY DEF Gone, LinksKept

\* A broadcast is an announcement in the room to those it reached.
LEMMA SpreadAnnounces ==
  ASSUME IInv, TypeOK', NEW l, SameOpen(l), NEW early \in [Conn -> Seq(Msg)],
         \A c \in Conn : link[c] = "new" => early[c] = <<>>,
         NEW F \in SUBSET Sockets(Occupied), NEW m, Spread(l, early, F, m)
  PROVE  Room!Announce(F, early, m)
<1>1. ASSUME NEW c \in Conn
      PROVE  sent'[c] = IF c \in Gone THEN sent[c] ELSE sent[c] \o early[c] \o Share(F, m, c)
  <2>1. CASE link[c] = "open"
    BY <2>1 DEF Spread, SameOpen, Gone
  <2>2. CASE link[c] = "new"
    <3>1. c \notin F
      BY <2>2, SlotSocket DEF Sockets
    <3>2. sent[c] \o early[c] \o Share(F, m, c) = sent[c]
      BY <2>2, <3>1 DEF Share, IInv, TypeOK
    <3> QED BY <2>2, <3>2 DEF Spread, SameOpen, Gone
  <2>3. CASE link[c] \notin {"open", "new"}
    BY <2>3 DEF Spread, SameOpen, Gone
  <2> QED BY <2>1, <2>2, <2>3
<1>2. sent' = [c \in Conn |-> sent'[c]]
  BY DEF TypeOK
<1>3. sent' = [c \in Conn |-> IF c \in Gone THEN sent[c]
                              ELSE sent[c] \o early[c] \o Share(F, m, c)]
  BY <1>1, <1>2
<1> QED BY <1>3, Zenon DEF Room!Announce, Share

\* An answer to one client is a whisper, or is heard by nobody.
LEMMA OnlyWhispers ==
  ASSUME TypeOK, TypeOK', NEW c \in Conn, NEW w \in Seq(Msg),
         \A i \in DOMAIN w : w[i].kind \notin {"join", "left", "chat"},
         \A d \in Conn \ {c} : sent'[d] = sent[d],
         link[c] = "open" => sent'[c] = sent[c] \o w,
         link[c] # "open" => sent'[c] = sent[c],
         Who' = Who, Gone' = Gone, ~Stopped, ~Stopped'
  PROVE  [Room!Next]_(Room!vars)
<1>1. CASE link[c] = "open"
  <2> DEFINE m == sent[c]
  <2>1. m \in Seq(Msg) /\ sent'[c] = m \o w /\ c \notin Gone
    BY <1>1 DEF TypeOK, Gone
  <2> HIDE DEF m
  <2>2. /\ Len(m \o w) = Len(m) + Len(w) /\ Len(m) \in Nat /\ Len(w) \in Nat
        /\ \A i \in Len(m) + 1 .. Len(m) + Len(w) :
             i - Len(m) \in DOMAIN w /\ (m \o w)[i] = w[i - Len(m)]
    BY <2>1
  <2>3. SubSeq(m \o w, 1, Len(m)) = m
    BY <2>1
  <2>4. Room!Whisper(c)
    <3>1. \A i \in Len(m) + 1 .. Len(m \o w) : (m \o w)[i].kind \notin Room!Events
      BY <2>2 DEF Room!Events
    <3>2. Len(m \o w) >= Len(m)
      BY <2>2
    <3> QED BY <2>1, <2>3, <3>1, <3>2 DEF Room!Whisper, m
  <2> QED BY <2>4 DEF Room!Next, Room!InRoom
<1>2. CASE link[c] # "open"
  <2>1. sent' = sent
    BY <1>2 DEF TypeOK
  <2> QED BY <2>1 DEF Room!vars
<1> QED BY <1>1, <1>2

-------------------------------------------------------------------------------
(* Each step of the server or of a peer is a step of the room, or none.    *)

\* A broadcast that returns reaches all of T, one that SIGPIPE interrupts some.
LEMMA ToAllAnnounces ==
  ASSUME IInv, IInv', NEW l \in [Conn -> Link], SameOpen(l), LinksKept(link, l),
         NEW early \in [Conn -> Seq(Msg)],
         \A c \in Conn : link[c] = "new" => early[c] = <<>>,
         NEW T \in SUBSET Occupied, NEW m \in Msg
  PROVE  /\ Deliver(l, early, ToAll(T, m)) =>
              Room!Announce(Sockets(T), early, m) /\ Gone' = Gone
         /\ Killed(l, early, ToAll(T, m)) =>
              /\ \E F \in SUBSET Sockets(T) : Room!Announce(F, early, m)
              /\ Gone' = Gone /\ Who' = Who /\ Stopped'
<1>1. TypeOK /\ TypeOK' /\ T \in SUBSET Slot /\ Sockets(T) \in SUBSET Sockets(Occupied)
  BY DEF IInv, Occupied, Sockets
<1>2. ASSUME Deliver(l, early, ToAll(T, m))
      PROVE  Room!Announce(Sockets(T), early, m) /\ Gone' = Gone
  <2>1. /\ \A c \in Conn : link'[c] = "open" <=> l[c] = "open"
        /\ Spread(l, early, Sockets(T), m)
    BY <1>1, <1>2, ToAllSpread DEF Sockets
  <2>2. LinksKept(l, link') /\ LinksKept(link, link')
    <3>1. ToAll(T, m) \in [Conn -> Seq(Msg)]
      BY <1>1, OutTypes
    <3>2. LinksKept(l, link')
      BY <1>2, <3>1, DeliverLinks
    <3> QED BY <3>2 DEF LinksKept
  <2>3. Gone' = Gone
    BY <2>1, <2>2, GoneKept DEF SameOpen
  <2> QED BY <1>1, <2>1, <2>3, SpreadAnnounces
<1>3. ASSUME Killed(l, early, ToAll(T, m))
      PROVE  /\ \E F \in SUBSET Sockets(T) : Room!Announce(F, early, m)
             /\ Gone' = Gone /\ Who' = Who /\ Stopped'
  <2>1. PICK F \in SUBSET Sockets(T) : Spread(l, early, F, m)
    BY <1>1, <1>3, KilledSpread DEF Sockets
  <2>2. F \in SUBSET Sockets(Occupied)
    BY <1>1
  <2>3. Room!Announce(F, early, m)
    BY <1>1, <2>1, <2>2, SpreadAnnounces
  <2>4. link' = l /\ UNCHANGED table /\ pc' = "killed"
    BY <1>3 DEF Killed
  <2>5. Gone' = Gone
    BY <2>4, GoneKept DEF SameOpen
  <2>6. Who' = Who
    BY <2>4 DEF Who, SlotOf, Members, table
  <2> QED BY <2>3, <2>4, <2>5, <2>6 DEF Stopped
<1> QED BY <1>2, <1>3

\* Silence says nothing early.
LEMMA SilentEarly ==
  /\ Nothing \in [Conn -> Seq(Msg)] /\ Nothing = Room!Silence
  /\ \A c \in Conn : Nothing[c] = <<>>
BY OutTypes DEF Nothing, Room!Silence

\* A member is a user in the room, under the name of its slot.
LEMMA MemberInside ==
  ASSUME IInv, NEW s \in Members
  PROVE  /\ s \in Slot /\ s \in Occupied /\ sock[s] \in Conn /\ sock[s] \in Room!Inside
         /\ Who[sock[s]] = name[s] /\ Room!Inside = Sockets(Members)
         /\ Sockets(Members \ {s}) = Room!Inside \ {sock[s]}
<1>1. s \in Occupied /\ Members \subseteq Occupied
  BY DEF Members, Occupied
<1>2. Room!Inside = Sockets(Members) /\ Who[sock[s]] = name[s]
  BY WhoFacts DEF IInv, Room!Inside
<1>3. \A t \in Members : sock[t] = sock[s] => t = s
  BY <1>1, SlotSocket
<1> QED BY <1>1, <1>2, <1>3, SlotSocket DEF Sockets

\* A disconnection takes a member out of the room, and says so to the others.
LEMMA DisconnectRoom ==
  ASSUME IInv, IInv', pc = "scan", NEW s \in Occupied, link[sock[s]] \notin {"new", "open"},
         NEW l \in [Conn -> Link], LinksKept(link, l), SameOpen(l), ClientDisconnected(s, l)
  PROVE  [Room!Next]_(Room!vars)
<1> DEFINE c == sock[s]
           e == About("left", name[s])
<1>1. /\ s \in Slot /\ c \in Conn /\ c \in Gone /\ ~Stopped /\ TypeOK
      /\ \A t \in Occupied : sock[t] = c => t = s
  BY SlotSocket DEF Gone, Stopped, IInv
<1>2. e \in Msg
  BY <1>1, MsgTypes DEF TypeOK
<1>3. \/ /\ Deliver(l, Nothing, DepartureNotice(s))
         /\ sock' = [sock EXCEPT ![s] = NoSock]
         /\ status' = [status EXCEPT ![s] = "NONE"]
         /\ UNCHANGED name
         /\ ~Stopped'
      \/ Killed(l, Nothing, DepartureNotice(s))
  BY ScannedTo DEF ClientDisconnected, Stopped
<1>4. CASE s \in Members
  <2>1. /\ c \in Room!Inside /\ Who[c] = name[s] /\ Room!Inside = Sockets(Members)
        /\ Sockets(Members \ {s}) = Room!Inside \ {c}
    BY <1>4, MemberInside
  <2>2. DepartureNotice(s) = ToAll(Members \ {s}, e) /\ Members \ {s} \in SUBSET Occupied
    BY <1>4 DEF DepartureNotice, Members, Occupied
  <2>3. e = Room!Left(Who[c])
    BY <2>1 DEF Room!Left, About
  <2> HIDE DEF e, c
  <2>4. CASE Killed(l, Nothing, DepartureNotice(s))
    <3>1. PICK F \in SUBSET Sockets(Members \ {s}) : Room!Announce(F, Nothing, e)
      BY <1>2, <2>2, <2>4, SilentEarly, ToAllAnnounces
    <3>2. Gone' = Gone /\ Who' = Who /\ Stopped'
      BY <1>2, <2>2, <2>4, SilentEarly, ToAllAnnounces
    <3>3. \E H \in SUBSET (Room!Inside \ {c}) : Room!Announce(H, Room!Silence, Room!Left(Who[c]))
      BY <2>1, <2>3, <3>1, SilentEarly
    <3>4. Room!Close
      BY <2>1, <3>2, <3>3 DEF Room!Close
    <3> QED BY <1>1, <3>4 DEF Room!Next
  <2>5. CASE /\ Deliver(l, Nothing, DepartureNotice(s))
             /\ sock' = [sock EXCEPT ![s] = NoSock]
             /\ status' = [status EXCEPT ![s] = "NONE"]
             /\ UNCHANGED name
             /\ ~Stopped'
    <3>1. Room!Announce(Sockets(Members \ {s}), Nothing, e) /\ Gone' = Gone
      BY <1>2, <2>2, <2>5, SilentEarly, ToAllAnnounces
    <3>2. Room!Announce(Room!Inside \ {c}, Room!Silence, Room!Left(Who[c]))
      BY <2>1, <2>3, <3>1, SilentEarly
    <3>3. Members' = Members \ {s} /\ \A t \in Members \ {s} : sock'[t] = sock[t] /\ name'[t] = name[t]
      BY <1>1, <2>5 DEF Members, TypeOK
    <3>4. Sockets(Members)' = Room!Inside \ {c}
      <4>1. Sockets(Members)' = {sock'[t] : t \in Members \ {s}}
        BY <3>3 DEF Sockets
      <4>2. {sock'[t] : t \in Members \ {s}} = {sock[t] : t \in Members \ {s}}
        BY <3>3
      <4> QED BY <2>1, <4>1, <4>2 DEF Sockets
    <3>5. ASSUME NEW d \in Room!Inside \ {c} PROVE Who'[d] = Who[d]
      <4>1. PICK t \in Members \ {s} : d = sock[t]
        BY <2>1, <3>5 DEF Sockets
      <4>2. Who[sock[t]] = name[t] /\ Who'[sock'[t]] = name'[t]
        BY <3>3, WhoFacts, WhoFactsNext DEF IInv
      <4> QED BY <3>3, <4>1, <4>2
    <3>6. Who' = [d \in Room!Inside \ {c} |-> Who[d]]
      BY <3>4, <3>5, WhoFactsNext DEF IInv
    <3>7. Room!Leave(c)
      BY <1>1, <2>1, <2>5, <3>1, <3>2, <3>6 DEF Room!Leave, c
    <3> QED BY <1>1, <3>7 DEF Room!Next, Room!InRoom, c
  <2> QED BY <1>3, <2>4, <2>5
<1>5. CASE s \notin Members
  <2>1. DepartureNotice(s) = ToAll({}, e)
    BY <1>1, <1>5 DEF DepartureNotice, Members, Nothing, ToAll
  <2> HIDE DEF e
  <2>2. ASSUME NEW F, F \in SUBSET Sockets({}), Room!Announce(F, Nothing, e)
        PROVE  sent' = sent
    <3>1. \A d \in Conn : sent'[d] = sent[d]
      <4>1. F = {}
        BY <2>2 DEF Sockets
      <4>2. \A d \in Conn : sent[d] \o <<>> \o <<>> = sent[d]
        BY <1>1 DEF TypeOK
      <4>3. \A d \in Conn : sent'[d] = IF d \in Gone THEN sent[d] ELSE sent[d] \o Nothing[d] \o <<>>
        BY <2>2, <4>1, Zenon DEF Room!Announce
      <4> QED BY <4>2, <4>3, SilentEarly
    <3> QED BY <3>1 DEF IInv, TypeOK
  <2>3. CASE Killed(l, Nothing, DepartureNotice(s))
    <3>1. sent' = sent /\ Gone' = Gone /\ Who' = Who /\ Stopped'
      <4>1. {} \in SUBSET Occupied
        OBVIOUS
      <4> QED BY <1>2, <2>1, <2>2, <2>3, <4>1, SilentEarly, ToAllAnnounces
    <3>2. Room!Close
      BY <3>1 DEF Room!Close
    <3> QED BY <1>1, <3>2 DEF Room!Next
  <2>4. CASE /\ Deliver(l, Nothing, DepartureNotice(s))
             /\ sock' = [sock EXCEPT ![s] = NoSock]
             /\ status' = [status EXCEPT ![s] = "NONE"]
             /\ UNCHANGED name
             /\ ~Stopped'
    <3>1. sent' = sent /\ Gone' = Gone
      <4>1. {} \in SUBSET Occupied /\ Sockets({}) \in SUBSET Sockets({})
        OBVIOUS
      <4> QED BY <1>2, <2>1, <2>2, <2>4, <4>1, SilentEarly, ToAllAnnounces
    <3>2. Members' = Members /\ \A t \in Members : sock'[t] = sock[t] /\ name'[t] = name[t]
      BY <1>1, <1>5, <2>4 DEF Members, TypeOK
    <3>3. Who' = Who
      BY <3>2, WhoKept DEF IInv
    <3> QED BY <1>1, <2>4, <3>1, <3>3 DEF Room!vars
  <2> QED BY <1>3, <2>3, <2>4
<1> QED BY <1>4, <1>5

\* A registration lets the newcomer enter, who hears of it with the others.
LEMMA RegisterRoom ==
  ASSUME IInv, IInv', pc = "scan", NEW s \in Occupied, status[s] = "CONNECTING",
         NEW n \in Name, ~NameTaken(n),
         \/ RegisterName(s, n) /\ ~Stopped'
         \/ Killed(link, Acknowledged(s), JoinNotice(s, n))
  PROVE  [Room!Next]_(Room!vars)
<1> DEFINE c == sock[s]
           e == About("join", n)
           S == Members \cup {s}
<1>1. /\ s \in Slot /\ c \in Conn /\ ~Stopped /\ TypeOK /\ link[c] # "new"
      /\ \A t \in Occupied : sock[t] = c => t = s
  BY SlotSocket DEF Stopped, IInv
<1>2. s \notin Members /\ Members \subseteq Occupied /\ S \in SUBSET Occupied
  BY DEF Members, Occupied
<1>3. /\ e \in Msg /\ e = Room!Join(n) /\ JoinNotice(s, n) = ToAll(S, e)
      /\ link \in [Conn -> Link] /\ SameOpen(link) /\ LinksKept(link, link)
  BY MsgTypes DEF Room!Join, About, JoinNotice, SameOpen, LinksKept, IInv, TypeOK
<1>4. /\ Acknowledged(s) \in [Conn -> Seq(Msg)] /\ Acknowledged(s) = Room!Greeting(c)
      /\ \A d \in Conn : link[d] = "new" => Acknowledged(s)[d] = <<>>
  <2>1. Acknowledged(s) \in [Conn -> Seq(Msg)]
    BY <1>1, WelcomeTypes
  <2> QED BY <1>1, <2>1 DEF Acknowledged, Only, Room!Greeting, Room!Welcome, Plain
<1>5. /\ Room!Inside = Sockets(Members) /\ Sockets(S) = Room!Inside \cup {c} /\ c \notin Room!Inside
      /\ n \notin Room!Names
  <2>1. Room!Inside = Sockets(Members) /\ \A t \in Members : Who[sock[t]] = name[t]
    BY WhoFacts DEF IInv, Room!Inside
  <2>2. c \notin Sockets(Members) /\ Sockets(S) = Sockets(Members) \cup {c}
    BY <1>1, <1>2 DEF Sockets
  <2>3. \A d \in Sockets(Members) : Who[d] # n
    BY <2>1 DEF Sockets, NameTaken
  <2> QED BY <2>1, <2>2, <2>3 DEF Room!Names
<1> HIDE DEF e, c, S
<1>6. CASE Killed(link, Acknowledged(s), JoinNotice(s, n))
  <2>1. PICK F \in SUBSET Sockets(S) : Room!Announce(F, Acknowledged(s), e)
    BY <1>2, <1>3, <1>4, <1>6, ToAllAnnounces
  <2>2. Gone' = Gone /\ Who' = Who /\ Stopped'
    BY <1>2, <1>3, <1>4, <1>6, ToAllAnnounces
  <2>3. \E H \in SUBSET (Room!Inside \cup {c}) : Room!Announce(H, Room!Greeting(c), Room!Join(n))
    BY <1>3, <1>4, <1>5, <2>1
  <2>4. c \in Conn \ Room!Inside /\ n \in Name \ Room!Names
    BY <1>1, <1>5
  <2>5. Room!Close
    BY <2>2, <2>3, <2>4 DEF Room!Close
  <2> QED BY <1>1, <2>5 DEF Room!Next
<1>7. CASE RegisterName(s, n) /\ ~Stopped'
  <2>1. /\ Deliver(link, Acknowledged(s), ToAll(S, e))
        /\ name' = [name EXCEPT ![s] = n]
        /\ status' = [status EXCEPT ![s] = "CONNECTED"]
        /\ sock' = sock
    BY <1>3, <1>7 DEF RegisterName
  <2>2. Room!Announce(Room!Inside \cup {c}, Room!Greeting(c), Room!Join(n)) /\ Gone' = Gone
    <3>1. Room!Announce(Sockets(S), Acknowledged(s), e) /\ Gone' = Gone
      BY <1>2, <1>3, <1>4, <2>1, ToAllAnnounces
    <3> QED BY <1>3, <1>4, <1>5, <3>1
  <2>3. /\ Members' = S
        /\ name'[s] = n /\ \A t \in Members : name'[t] = name[t]
    BY <1>1, <1>2, <2>1 DEF Members, TypeOK, S
  <2>4. Sockets(Members)' = Room!Inside \cup {c}
    BY <1>5, <2>1, <2>3 DEF Sockets
  <2>5. ASSUME NEW d \in Room!Inside \cup {c} PROVE Who'[d] = IF d = c THEN n ELSE Who[d]
    <3>1. \A t \in Members' : Who'[sock[t]] = name'[t]
      BY <2>1, WhoFactsNext DEF IInv
    <3>2. CASE d = c
      <4>1. s \in Members' /\ sock[s] = d
        BY <2>3, <3>2 DEF S, c
      <4> QED BY <2>3, <3>1, <3>2, <4>1
    <3>3. CASE d # c
      <4>1. PICK t \in Members : d = sock[t]
        BY <1>5, <2>5, <3>3 DEF Sockets
      <4>2. t \in Members' /\ Who[sock[t]] = name[t]
        BY <2>3, WhoFacts DEF IInv, S
      <4> QED BY <2>3, <3>1, <3>3, <4>1, <4>2
    <3> QED BY <3>2, <3>3
  <2>6. Who' = [d \in Room!Inside \cup {c} |-> IF d = c THEN n ELSE Who[d]]
    BY <2>4, <2>5, WhoFactsNext DEF IInv
  <2>7. Room!Enter(c, n)
    BY <1>1, <1>5, <1>7, <2>2, <2>6 DEF Room!Enter
  <2> QED BY <1>1, <2>7 DEF Room!Next, Room!InRoom
<1> QED BY <1>6, <1>7

\* A refused name is told to the one who asked, and to nobody in the room.
LEMMA RejectNameRoom ==
  ASSUME IInv, IInv', pc = "scan", NEW s \in Occupied, status[s] = "CONNECTING",
         RejectName(s), ~Stopped'
  PROVE  [Room!Next]_(Room!vars)
<1> DEFINE c == sock[s]
           w == <<Plain("nameRejected")>>
<1>1. s \in Slot /\ c \in Conn /\ ~Stopped /\ TypeOK /\ TypeOK' /\ s \notin Members
  BY SlotSocket DEF Stopped, IInv, Members
<1>2. /\ Deliver(link, Nothing, Only(c, w)) /\ link \in [Conn -> Link]
      /\ sock' = [sock EXCEPT ![s] = NoSock]
      /\ name' = [name EXCEPT ![s] = NoName]
      /\ status' = [status EXCEPT ![s] = "NONE"]
  BY DEF RejectName, IInv, TypeOK
<1>3. w \in Seq(Msg) /\ \A i \in DOMAIN w : w[i].kind \notin {"join", "left", "chat"}
  BY MsgTypes DEF Plain
<1> HIDE DEF c, w
<1>4. /\ \A d \in Conn : link'[d] = "open" <=> link[d] = "open"
      /\ \A d \in Conn \ {c} : sent'[d] = sent[d]
      /\ link[c] = "open" => sent'[c] = sent[c] \o w
      /\ link[c] # "open" => sent'[c] = sent[c]
  BY <1>1, <1>2, <1>3, OnlyAt
<1>5. Gone' = Gone
  BY <1>2, <1>4, DeliverLinks, GoneKept
<1>6. Members' = Members /\ \A t \in Members : sock'[t] = sock[t] /\ name'[t] = name[t]
  BY <1>1, <1>2 DEF Members, TypeOK
<1>7. Who' = Who
  BY <1>6, WhoKept DEF IInv
<1> QED BY <1>1, <1>3, <1>4, <1>5, <1>7, OnlyWhispers

\* What one read() can return.
Said == UNION {[1 .. k -> Piece] : k \in 1 .. MaxRead}

LEMMA SaidTypes == Said \subseteq Seq(Piece)
BY ChatAssumption DEF Said

\* What a member says is heard by everybody in the room; the list it asks for,
\* by itself.
LEMMA AnswerRoom ==
  ASSUME IInv, IInv', pc = "scan", NEW s \in Members,
         NEW l \in [Conn -> Link], LinksKept(link, l), SameOpen(l),
         NEW text \in Said,
         NEW k \in Nat, Answer(s, l, text, k)
  PROVE  [Room!Next]_(Room!vars)
<1> DEFINE c == sock[s]
           e == Chat(name[s], text)
<1>1. /\ s \in Occupied /\ s \in Slot /\ c \in Conn /\ ~Stopped /\ TypeOK /\ TypeOK'
      /\ c \in Room!Inside /\ Who[c] = name[s] /\ Room!Inside = Sockets(Members)
  BY MemberInside DEF IInv, Stopped
<1>2. PICK out \in Reply(s, text) :
        \/ Deliver(l, Nothing, out) /\ UNCHANGED table /\ ~Stopped'
        \/ Killed(l, Nothing, out)
  BY ScannedTo DEF Answer, Stopped
<1>3. CASE text # <<ListCmd>>
  <2>1. out = ToAll(Members, e) /\ Members \in SUBSET Occupied
    BY <1>2, <1>3 DEF Reply, Members, Occupied
  <2>2. e \in Msg /\ e = Room!Chat(Who[c], text)
    BY <1>1, MsgTypes, SaidTypes DEF Room!Chat, Chat, TypeOK
  <2> HIDE DEF e, c
  <2>3. CASE Killed(l, Nothing, out)
    <3>1. \E F \in SUBSET Sockets(Members) : Room!Announce(F, Nothing, e)
      BY <2>1, <2>2, <2>3, SilentEarly, ToAllAnnounces
    <3>2. Gone' = Gone /\ Who' = Who /\ Stopped'
      BY <2>1, <2>2, <2>3, SilentEarly, ToAllAnnounces
    <3>3. \E F \in SUBSET Room!Inside : Room!Announce(F, Room!Silence, Room!Chat(Who[c], text))
      BY <1>1, <2>2, <3>1, SilentEarly
    <3>4. Room!Close
      BY <1>1, <3>2, <3>3 DEF Room!Close, Said
    <3> QED BY <1>1, <3>4 DEF Room!Next
  <2>4. CASE Deliver(l, Nothing, out) /\ UNCHANGED table /\ ~Stopped'
    <3>1. Room!Announce(Sockets(Members), Nothing, e) /\ Gone' = Gone
      BY <2>1, <2>2, <2>4, SilentEarly, ToAllAnnounces
    <3>2. Room!Announce(Room!Inside, Room!Silence, Room!Chat(Who[c], text))
      BY <1>1, <2>2, <3>1, SilentEarly
    <3>3. Who' = Who
      BY <2>4 DEF Who, SlotOf, Members, table
    <3>4. Room!Speak(c, text)
      BY <1>1, <2>4, <3>1, <3>2, <3>3 DEF Room!Speak
    <3> QED BY <1>1, <3>4 DEF Room!Next, Room!InRoom, Said
  <2> QED BY <1>2, <2>3, <2>4
<1>4. CASE text = <<ListCmd>>
  <2>1. PICK q \in SlotOrder : out = Only(c, NameList(q))
    BY <1>2, <1>4 DEF Reply
  <2> DEFINE w == NameList(q)
  <2>2. w \in Seq(Msg) /\ \A i \in DOMAIN w : w[i].kind \notin {"join", "left", "chat"}
    BY <1>1, NameListTypes
  <2> HIDE DEF w
  <2>3. CASE Killed(l, Nothing, out)
    <3>1. sent' = sent
      BY <1>1, <2>1, <2>2, <2>3, KilledOnly DEF w
    <3>2. link' = l /\ UNCHANGED table /\ pc' = "killed"
      BY <2>3 DEF Killed
    <3>3. Gone' = Gone /\ Who' = Who /\ Stopped'
      BY <3>2, GoneKept DEF SameOpen, Who, SlotOf, Members, table, Stopped
    <3>4. Room!Close
      BY <3>1, <3>3 DEF Room!Close, Said
    <3> QED BY <1>1, <3>4 DEF Room!Next
  <2>4. CASE Deliver(l, Nothing, out) /\ UNCHANGED table /\ ~Stopped'
    <3>1. Deliver(l, Nothing, Only(c, w))
      BY <2>1, <2>4 DEF w
    <3> HIDE DEF c
    <3>2. /\ \A d \in Conn : link'[d] = "open" <=> l[d] = "open"
          /\ \A d \in Conn \ {c} : sent'[d] = sent[d]
          /\ l[c] = "open" => sent'[c] = sent[c] \o w
          /\ l[c] # "open" => sent'[c] = sent[c]
      BY <1>1, <2>2, <3>1, OnlyAt
    <3>3. LinksKept(link, link')
      <4>1. LinksKept(l, link')
        BY <3>1, DeliverLinks
      <4> QED BY <4>1 DEF LinksKept
    <3>4. Gone' = Gone /\ Who' = Who
      BY <2>4, <3>2, <3>3, GoneKept DEF SameOpen, Who, SlotOf, Members, table
    <3>5. /\ link[c] = "open" => sent'[c] = sent[c] \o w
          /\ link[c] # "open" => sent'[c] = sent[c]
      BY <1>1, <3>2 DEF SameOpen
    <3> QED BY <1>1, <2>2, <2>4, <3>2, <3>4, <3>5, OnlyWhispers
  <2> QED BY <1>2, <2>3, <2>4
<1> QED BY <1>3, <1>4

LEMMA ServeRoom ==
  ASSUME IInv, IInv', pc = "scan", NEW s \in ready, ReceiveUsername(s) \/ HandleMessage(s)
  PROVE  [Room!Next]_(Room!vars)
<1> DEFINE c == sock[s]
           n == Stored[Head(inbox[c])]
           reset == [link EXCEPT ![c] = "dead"]
<1>1. s \in Slot /\ s \in Occupied /\ c \in Conn /\ inbox[c] \in Seq(Piece)
  <2>1. s \in Slot /\ s \in Occupied
    BY DEF IInv, TypeOK, Occupied, ReceiveUsername, HandleMessage
  <2> QED BY <2>1, SlotSocket DEF IInv, TypeOK
<1>2. link \in [Conn -> Link] /\ LinksKept(link, link) /\ SameOpen(link)
  BY DEF IInv, TypeOK, LinksKept, SameOpen
<1>3. CASE ReceiveUsername(s)
  <2>1. CASE inbox[c] = <<>>
    <3>1. ClientDisconnected(s, link) /\ link[c] \notin {"new", "open"}
      BY <1>3, <2>1 DEF ReceiveUsername
    <3> QED BY <1>1, <1>2, <3>1, DisconnectRoom
  <2>2. CASE inbox[c] # <<>>
    <3>1. n \in Name /\ status[s] = "CONNECTING"
      <4>1. Head(inbox[c]) \in Piece
        BY <1>1, <2>2
      <4> QED BY <1>3, <4>1, ChatAssumption DEF ReceiveUsername
    <3>2. \/ RejectName(s) /\ Scanned(s)
          \/ ~NameTaken(n) /\ RegisterName(s, n) /\ Scanned(s)
          \/ ~NameTaken(n) /\ Killed(link, Acknowledged(s), JoinNotice(s, n))
      BY <1>3, <2>2 DEF ReceiveUsername
    <3>3. Scanned(s) => ~Stopped'
      BY ScannedTo DEF Stopped
    <3> HIDE DEF n
    <3> QED BY <1>1, <3>1, <3>2, <3>3, RejectNameRoom, RegisterRoom
  <2> QED BY <2>1, <2>2
<1>4. CASE HandleMessage(s)
  <2>1. s \in Members
    BY <1>1, <1>4 DEF HandleMessage, Members
  <2>2. ASSUME NEW k \in 1 .. MaxRead, k <= Len(inbox[c]), Answer(s, link, SubSeq(inbox[c], 1, k), k)
        PROVE  [Room!Next]_(Room!vars)
    <3> DEFINE text == SubSeq(inbox[c], 1, k)
    <3>1. k \in Nat /\ text \in Seq(Piece) /\ text \in [1 .. k -> Piece]
      <4>1. k \in Nat /\ k >= 1 /\ k <= Len(inbox[c]) /\ inbox[c] \in Seq(Piece)
        BY <1>1, <2>2, ChatAssumption
      <4>2. text \in Seq(Piece) /\ Len(text) = k
        BY <4>1
      <4>3. \A u \in Seq(Piece) : u \in [1 .. Len(u) -> Piece]
        OBVIOUS
      <4> QED BY <4>1, <4>2, <4>3
    <3>2. text \in Said
      BY <2>2, <3>1 DEF Said
    <3> HIDE DEF text
    <3>3. Answer(s, link, text, k)
      BY <2>2 DEF text
    <3> QED BY <1>2, <2>1, <3>1, <3>2, <3>3, AnswerRoom
  <2>3. CASE link[c] \in {"fin", "dead"} /\ ClientDisconnected(s, link)
    BY <1>1, <1>2, <2>3, DisconnectRoom
  <2>4. CASE link[c] = "rst" /\ ReadError(s, reset)
    <3>1. reset \in [Conn -> Link] /\ LinksKept(link, reset) /\ SameOpen(reset)
      BY <1>1, <1>2, <2>4 DEF Link, LinksKept, Broken, SameOpen
    <3>2. CASE ClientDisconnected(s, reset)
      <4> HIDE DEF reset
      <4> QED BY <1>1, <2>4, <3>1, <3>2, DisconnectRoom
    <3>3. ASSUME NEW text \in {<<Junk>>, <<ListCmd>>}, Answer(s, reset, text, 0)
          PROVE  [Room!Next]_(Room!vars)
      <4>1. Junk \in Piece /\ ListCmd \in Piece /\ 1 \in 1 .. MaxRead
        BY ChatAssumption DEF Piece
      <4>2. /\ <<Junk>> \in Seq(Piece) /\ <<ListCmd>> \in Seq(Piece)
            /\ <<Junk>> \in [1 .. 1 -> Piece] /\ <<ListCmd>> \in [1 .. 1 -> Piece]
        BY <4>1
      <4>3. text \in Said
        BY <4>1, <4>2 DEF Said
      <4> HIDE DEF reset
      <4> QED BY <2>1, <3>1, <3>3, <4>3, AnswerRoom
    <3> QED BY <2>4, <3>2, <3>3 DEF ReadError
  <2> QED BY <1>4, <2>2, <2>3, <2>4 DEF HandleMessage
<1> QED BY <1>3, <1>4

\* What new_client says is heard by the connection it takes off the queue.
LEMMA NewClientRoom ==
  ASSUME IInv, IInv', NewClient
  PROVE  [Room!Next]_(Room!vars)
<1> DEFINE c == Head(backlog)
<1>1. /\ link \in [Conn -> Link] /\ TypeOK /\ TypeOK' /\ ~Stopped /\ ~Stopped'
      /\ AcceptClient(c) \/ RejectClient(c)
  BY DEF NewClient, IInv, TypeOK, Stopped
<1>2. c \in Conn
  <2>1. backlog # <<>> /\ backlog \in Seq(Conn)
    BY DEF NewClient, IInv, QueueOK, TypeOK
  <2> QED BY <2>1
<1>3. PICK k \in {"accepted", "rejected"} : Deliver(link, Nothing, Only(c, <<Plain(k)>>))
  <2>1. CASE AcceptClient(c)
    <3>1. Taken # {}
      BY <2>1, SlotForClient DEF AcceptClient, IInv
    <3> QED BY <2>1, <3>1 DEF AcceptClient
  <2> QED BY <1>1, <2>1 DEF RejectClient
<1>4. Members' = Members /\ \A t \in Members : sock'[t] = sock[t] /\ name'[t] = name[t]
  BY <1>1 DEF AcceptClient, RejectClient, Taken, Members, table, TypeOK
<1> DEFINE w == <<Plain(k)>>
<1>5. w \in Seq(Msg) /\ \A i \in DOMAIN w : w[i].kind \notin {"join", "left", "chat"}
  BY MsgTypes DEF Plain
<1> HIDE DEF c
<1>6. /\ \A d \in Conn : link'[d] = "open" <=> link[d] = "open"
      /\ \A d \in Conn \ {c} : sent'[d] = sent[d]
      /\ link[c] = "open" => sent'[c] = sent[c] \o w
      /\ link[c] # "open" => sent'[c] = sent[c]
  <2>1. Deliver(link, Nothing, Only(c, w))
    BY <1>3
  <2> HIDE DEF w
  <2> QED BY <1>1, <1>2, <1>5, <2>1, OnlyAt
<1>7. Gone' = Gone
  BY <1>1, <1>3, <1>6, DeliverLinks, GoneKept
<1>8. Who' = Who
  BY <1>4, WhoKept DEF IInv
<1> HIDE DEF w
<1> QED BY <1>1, <1>2, <1>5, <1>6, <1>7, <1>8, OnlyWhispers

LEMMA PeerRoom ==
  ASSUME IInv, NEW c \in Conn, Peer(c)
  PROVE  [Room!Next]_(Room!vars)
<1>1. UNCHANGED <<table, loop, sent>>
  BY DEF Peer, Connect, SendName, SendLine, Hangup
<1>2. Who' = Who /\ Stopped' = Stopped
  BY <1>1 DEF Who, SlotOf, Members, table, Stopped, loop
<1>3. CASE Hangup(c)
  <2>1. Gone' = Gone \cup {c}
    BY <1>3 DEF Hangup, Gone, IInv, TypeOK
  <2>2. Room!Go(c)
    BY <1>1, <1>2, <2>1 DEF Room!Go
  <2> QED BY <2>2 DEF Room!Next
<1>4. CASE ~Hangup(c)
  <2>1. Gone' = Gone
    BY <1>4 DEF Peer, Connect, SendName, SendLine, Gone, IInv, TypeOK
  <2> QED BY <1>1, <1>2, <2>1 DEF Room!vars
<1> QED BY <1>3, <1>4

LEMMA RoomStep ==
  ASSUME IInv, IInv', [Next]_vars
  PROVE  [Room!Next]_(Room!vars)
<1>1. CASE Select \/ UNCHANGED vars
  <2>1. UNCHANGED <<table, link, sent>> /\ Stopped' = Stopped
    BY <1>1 DEF Select, vars, loop, Stopped
  <2>2. Who' = Who /\ Gone' = Gone
    BY <2>1 DEF Who, SlotOf, Members, table, Gone
  <2> QED BY <2>1, <2>2 DEF Room!vars
<1>2. CASE SyscallFails
  <2>1. UNCHANGED <<table, link, sent>> /\ Stopped' /\ ~Stopped
    BY <1>2 DEF SyscallFails, Stopped
  <2>2. Who' = Who /\ Gone' = Gone
    BY <2>1 DEF Who, SlotOf, Members, table, Gone
  <2>3. Room!Close
    BY <2>1, <2>2 DEF Room!Close
  <2> QED BY <2>1, <2>3 DEF Room!Next
<1>3. CASE NewClient
  BY <1>3, NewClientRoom
<1>4. CASE Serve
  BY <1>4, ServeRoom DEF Serve
<1>5. ASSUME NEW c \in Conn, Peer(c) PROVE [Room!Next]_(Room!vars)
  BY <1>5, PeerRoom
<1> QED BY <1>1, <1>2, <1>3, <1>4, <1>5 DEF Next, Server

\* The chat server is a room: its members hear the same events in the same
\* order, each from its own arrival on, however connections break while
\* handlers write.
THEOREM ImplementsRoom == Spec => RefinesRoom
<1>1. Init => Room!Init
  <2> SUFFICES ASSUME Init PROVE Room!Init
    OBVIOUS
  <2>1. Members = {} /\ Gone = {} /\ ~Stopped /\ sent = [c \in Conn |-> <<>>]
    BY DEF Init, Members, Gone, Stopped
  <2>2. Who = [c \in {} |-> NoName]
    BY <2>1 DEF Who
  <2> QED BY <2>1, <2>2 DEF Room!Init
<1>2. IInv /\ IInv' /\ [Next]_vars => [Room!Next]_(Room!vars)
  BY RoomStep
<1> QED BY <1>1, <1>2, Invariant, PTL DEF Spec, RefinesRoom, Room!Spec
-------------------------------------------------------------------------------
(* What each user reads is a coherent story.  The argument is about the room   *)
(* the server implements, not about the server: the steps are those of         *)
(* ChatRoom.                                                                   *)

\* Each message of kind k about n is followed by one of kind a about n.
Answered(m, n, k, a) ==
  \A i \in DOMAIN m : m[i].kind = k /\ m[i].name = n => \E j \in i + 1 .. Len(m) : m[j] = About(a, n)

\* The story in m ends with the names N in the room.
Knows(m, N) ==
  \A n \in Name \cup {NoName} :
    IF n \in N THEN Answered(m, n, "left", "join") ELSE Answered(m, n, "join", "left")

Eventless(m) == \A i \in DOMAIN m : m[i].kind \notin {"join", "left", "chat"}

\* What StoryCoherent says of one connection.
Coherent(m) ==
  \A i, j \in DOMAIN m :
    LET between(k) == \E x \in i + 1 .. j - 1 : m[x] = About(k, m[i].name)
        same == i < j /\ m[i].name = m[j].name
    IN /\ same /\ m[i].kind = "left" /\ m[j].kind \in {"chat", "left"} => between("join")
       /\ same /\ m[i].kind = "join" /\ m[j].kind = "join" => between("left")

\* StoryCoherent is not inductive by itself: that the next event fits needs the
\* users who can still hear to know who is in the room, and the others to have
\* heard of nobody.
StoryInv ==
  /\ StoryCoherent
  /\ ~Stopped => \A c \in Conn \ Gone :
       IF c \in Room!Inside THEN Knows(sent[c], Room!Names) ELSE Eventless(sent[c])

\* The event e can follow the story m.
Fits(m, e) ==
  /\ e.kind \in {"chat", "left"} => Answered(m, e.name, "left", "join")
  /\ e.kind = "join" => Answered(m, e.name, "join", "left")

LEMMA Joined ==
  ASSUME NEW m \in Seq(Msg), NEW w \in Seq(Msg)
  PROVE  /\ m \o w \in Seq(Msg) /\ Len(m \o w) = Len(m) + Len(w) /\ DOMAIN (m \o w) = 1 .. Len(m) + Len(w)
         /\ DOMAIN m = 1 .. Len(m) /\ DOMAIN w = 1 .. Len(w) /\ Len(m) \in Nat /\ Len(w) \in Nat
         /\ \A i \in 1 .. Len(m) : (m \o w)[i] = m[i]
         /\ \A i \in 1 .. Len(m) + Len(w) : i > Len(m) => i - Len(m) \in DOMAIN w /\ (m \o w)[i] = w[i - Len(m)]
OBVIOUS

\* Messages that are not about n's coming or going leave nothing to answer.
LEMMA AnsweredKept ==
  ASSUME NEW m \in Seq(Msg), NEW w \in Seq(Msg), NEW n, NEW k, NEW a,
         Answered(m, n, k, a), \A i \in DOMAIN w : ~(w[i].kind = k /\ w[i].name = n)
  PROVE  Answered(m \o w, n, k, a)
<1> DEFINE v == m \o w
<1>1. /\ DOMAIN v = 1 .. Len(v) /\ Len(v) >= Len(m) /\ Len(m) \in Nat /\ Len(v) \in Nat
      /\ DOMAIN m = 1 .. Len(m)
      /\ \A i \in 1 .. Len(m) : v[i] = m[i]
      /\ \A i \in 1 .. Len(v) : i > Len(m) => i - Len(m) \in DOMAIN w /\ v[i] = w[i - Len(m)]
  BY Joined
<1> HIDE DEF v
<1>2. ASSUME NEW i \in DOMAIN v, v[i].kind = k, v[i].name = n
      PROVE  \E j \in i + 1 .. Len(v) : v[j] = About(a, n)
  <2>1. i \in 1 .. Len(m) /\ m[i] = v[i]
    BY <1>1, <1>2
  <2>2. PICK j \in i + 1 .. Len(m) : m[j] = About(a, n)
    BY <1>1, <1>2, <2>1 DEF Answered
  <2> QED BY <1>1, <2>1, <2>2
<1> QED BY <1>2 DEF Answered, v

LEMMA AnsweredNow ==
  ASSUME NEW m \in Seq(Msg), NEW n, NEW k, NEW a, k # a, About(a, n) \in Msg
  PROVE  Answered(m \o <<About(a, n)>>, n, k, a)
<1> DEFINE e == About(a, n)
           v == m \o <<e>>
<1>1. e.kind # k
  BY DEF About
<1> HIDE DEF e
<1>2. /\ DOMAIN v = 1 .. Len(m) + 1 /\ Len(v) = Len(m) + 1 /\ Len(m) \in Nat
      /\ v[Len(m) + 1] = e
  BY DEF e
<1> HIDE DEF v
<1>3. ASSUME NEW i \in DOMAIN v, v[i].kind = k
      PROVE  \E j \in i + 1 .. Len(v) : v[j] = e
  BY <1>1, <1>2, <1>3
<1> QED BY <1>3 DEF Answered, v, e

\* Whoever has heard of nobody has nothing left to be told.
LEMMA EventlessKnows ==
  ASSUME NEW m \in Seq(Msg), Eventless(m)
  PROVE  \A n, a : Answered(m, n, "left", a) /\ Answered(m, n, "join", a)
BY DEF Eventless, Answered

LEMMA EventlessJoined ==
  ASSUME NEW m \in Seq(Msg), NEW w \in Seq(Msg), Eventless(m), Eventless(w)
  PROVE  Eventless(m \o w)
BY Joined DEF Eventless

LEMMA QuietCoherent ==
  ASSUME NEW m \in Seq(Msg), NEW w \in Seq(Msg), Coherent(m), Eventless(w)
  PROVE  Coherent(m \o w)
<1> DEFINE v == m \o w
<1>1. /\ DOMAIN v = 1 .. Len(v) /\ Len(v) >= Len(m) /\ Len(m) \in Nat /\ Len(v) \in Nat
      /\ DOMAIN m = 1 .. Len(m)
      /\ \A i \in 1 .. Len(m) : v[i] = m[i]
      /\ \A i \in 1 .. Len(v) : i > Len(m) => i - Len(m) \in DOMAIN w /\ v[i] = w[i - Len(m)]
  BY Joined
<1> HIDE DEF v
<1>2. \A i \in DOMAIN v : v[i].kind \in {"join", "left", "chat"} => i \in DOMAIN m /\ v[i] = m[i]
  BY <1>1 DEF Eventless
<1>3. ASSUME NEW i \in DOMAIN m, NEW j \in DOMAIN m, NEW k,
             \E x \in i + 1 .. j - 1 : m[x] = About(k, m[i].name)
      PROVE  \E x \in i + 1 .. j - 1 : v[x] = About(k, v[i].name)
  BY <1>1, <1>3
<1>4. ASSUME NEW i \in DOMAIN v, NEW j \in DOMAIN v, i < j, v[i].name = v[j].name,
             v[i].kind = "left", v[j].kind \in {"chat", "left"}
      PROVE  \E x \in i + 1 .. j - 1 : v[x] = About("join", v[i].name)
  <2>1. i \in DOMAIN m /\ j \in DOMAIN m /\ v[i] = m[i] /\ v[j] = m[j]
    BY <1>2, <1>4
  <2>2. \E x \in i + 1 .. j - 1 : m[x] = About("join", m[i].name)
    BY <1>4, <2>1 DEF Coherent
  <2> QED BY <1>3, <2>1, <2>2
<1>5. ASSUME NEW i \in DOMAIN v, NEW j \in DOMAIN v, i < j, v[i].name = v[j].name,
             v[i].kind = "join", v[j].kind = "join"
      PROVE  \E x \in i + 1 .. j - 1 : v[x] = About("left", v[i].name)
  <2>1. i \in DOMAIN m /\ j \in DOMAIN m /\ v[i] = m[i] /\ v[j] = m[j]
    BY <1>2, <1>5
  <2>2. \E x \in i + 1 .. j - 1 : m[x] = About("left", m[i].name)
    BY <1>5, <2>1 DEF Coherent
  <2> QED BY <1>3, <2>1, <2>2
<1>6. Coherent(v)
  BY <1>4, <1>5 DEF Coherent
<1> QED BY <1>6 DEF v

LEMMA EventCoherent ==
  ASSUME NEW m \in Seq(Msg), NEW e \in Msg, Coherent(m), Fits(m, e)
  PROVE  Coherent(m \o <<e>>)
<1> DEFINE v == m \o <<e>>
           l == Len(m) + 1
<1>1. /\ DOMAIN v = 1 .. l /\ l - 1 = Len(m) /\ l \in Nat /\ v[l] = e
      /\ DOMAIN m = 1 .. l - 1
      /\ \A i \in 1 .. l - 1 : v[i] = m[i]
  OBVIOUS
<1>2. l - 1 = Len(m)
  BY <1>1
<1> HIDE DEF v, l
<1>3. ASSUME NEW i \in DOMAIN v, NEW j \in DOMAIN v, i < j, v[i].name = v[j].name,
             v[i].kind = "left", v[j].kind \in {"chat", "left"}
      PROVE  \E x \in i + 1 .. j - 1 : v[x] = About("join", v[i].name)
  <2>1. i \in DOMAIN m /\ v[i] = m[i]
    BY <1>1, <1>3
  <2>2. CASE j = l
    <3>1. v[j] = e
      BY <1>1, <2>2
    <3>2. PICK x \in i + 1 .. Len(m) : m[x] = About("join", e.name)
      BY <1>3, <2>1, <3>1 DEF Fits, Answered
    <3> QED BY <1>1, <1>2, <1>3, <2>1, <2>2, <3>1, <3>2
  <2>3. CASE j # l
    <3>1. j \in DOMAIN m /\ v[j] = m[j]
      BY <1>1, <2>3
    <3>2. PICK x \in i + 1 .. j - 1 : m[x] = About("join", m[i].name)
      BY <1>3, <2>1, <3>1 DEF Coherent
    <3> QED BY <1>1, <2>1, <3>1, <3>2
  <2> QED BY <2>2, <2>3
<1>4. ASSUME NEW i \in DOMAIN v, NEW j \in DOMAIN v, i < j, v[i].name = v[j].name,
             v[i].kind = "join", v[j].kind = "join"
      PROVE  \E x \in i + 1 .. j - 1 : v[x] = About("left", v[i].name)
  <2>1. i \in DOMAIN m /\ v[i] = m[i]
    BY <1>1, <1>4
  <2>2. CASE j = l
    <3>1. v[j] = e
      BY <1>1, <2>2
    <3>2. PICK x \in i + 1 .. Len(m) : m[x] = About("left", e.name)
      BY <1>4, <2>1, <3>1 DEF Fits, Answered
    <3> QED BY <1>1, <1>2, <1>4, <2>1, <2>2, <3>1, <3>2
  <2>3. CASE j # l
    <3>1. j \in DOMAIN m /\ v[j] = m[j]
      BY <1>1, <2>3
    <3>2. PICK x \in i + 1 .. j - 1 : m[x] = About("left", m[i].name)
      BY <1>4, <2>1, <3>1 DEF Coherent
    <3> QED BY <1>1, <2>1, <3>1, <3>2
  <2> QED BY <2>2, <2>3
<1>5. Coherent(v)
  BY <1>3, <1>4 DEF Coherent
<1> QED BY <1>5 DEF v

\* What follows m in m2.
LEMMA Follows ==
  ASSUME NEW m \in Seq(Msg), NEW m2 \in Seq(Msg), Len(m2) >= Len(m), SubSeq(m2, 1, Len(m)) = m,
         \A i \in Len(m) + 1 .. Len(m2) : m2[i].kind \notin {"join", "left", "chat"}
  PROVE  \E w \in Seq(Msg) : m2 = m \o w /\ Eventless(w)
<1> DEFINE w == SubSeq(m2, Len(m) + 1, Len(m2))
<1>1. Len(m) \in Nat /\ Len(m2) \in Nat
  OBVIOUS
<1>2. /\ w \in Seq(Msg) /\ Len(w) = Len(m2) - Len(m) /\ DOMAIN w = 1 .. Len(m2) - Len(m)
      /\ \A i \in 1 .. Len(m2) - Len(m) : w[i] = m2[Len(m) + i]
  BY <1>1
<1>3. \A i \in 1 .. Len(m) : m2[i] = m[i]
  BY <1>1
<1> HIDE DEF w
<1>4. Eventless(w)
  <2>1. ASSUME NEW i \in DOMAIN w PROVE w[i].kind \notin {"join", "left", "chat"}
    <3>1. Len(m) + i \in Len(m) + 1 .. Len(m2) /\ w[i] = m2[Len(m) + i]
      BY SMTT(20), <1>1, <1>2
    <3> QED BY <3>1
  <2> QED BY <2>1 DEF Eventless
<1>5. m2 = m \o w
  <2> DEFINE v == m \o w
  <2>1. v \in Seq(Msg) /\ Len(v) = Len(m2)
    BY <1>1, <1>2
  <2>2. ASSUME NEW i \in 1 .. Len(m2) PROVE v[i] = m2[i]
    <3>1. CASE i <= Len(m)
      <4>1. i \in 1 .. Len(m) /\ v[i] = m[i]
        BY <1>1, <1>2, <3>1
      <4> QED BY <1>3, <4>1
    <3>2. CASE i > Len(m)
      <4>1. i - Len(m) \in 1 .. Len(m2) - Len(m) /\ v[i] = w[i - Len(m)]
        BY <1>1, <1>2, <3>2
      <4>2. Len(m) + (i - Len(m)) = i
        BY <1>1
      <4> QED BY <1>2, <4>1, <4>2
    <3>3. i <= Len(m) \/ i > Len(m)
      BY <1>1
    <3> QED BY <3>1, <3>2, <3>3
  <2> HIDE DEF v
  <2>3. \A a, b \in Seq(Msg) : Len(a) = Len(b) /\ (\A i \in 1 .. Len(b) : a[i] = b[i]) => a = b
    OBVIOUS
  <2>4. v = m2
    BY <2>1, <2>2, <2>3
  <2> QED BY <2>4 DEF v
<1> QED BY <1>2, <1>4, <1>5

LEMMA StoryOf == StoryCoherent <=> \A c \in Conn : Coherent(sent[c])
BY DEF StoryCoherent, Coherent

\* A room that is open announces an event that fits what everybody knows.
LEMMA Announced ==
  ASSUME StoryInv, TypeOK, ~Stopped, NEW e \in Msg,
         \/ e.kind \in {"chat", "left"} /\ e.name \in Room!Names
         \/ e.kind = "join" /\ e.name \notin Room!Names,
         NEW B \in [Conn -> Seq(Msg)], \A c \in Conn : Eventless(B[c]),
         NEW F, Room!Announce(F, B, e)
  PROVE  /\ StoryCoherent'
         /\ \A c \in Conn \ Gone :
              /\ sent'[c] = (sent[c] \o B[c]) \o (IF c \in F THEN <<e>> ELSE <<>>)
              /\ sent[c] \o B[c] \in Seq(Msg) /\ sent[c] \in Seq(Msg)
<1>1. \A c \in Conn : sent[c] \in Seq(Msg) /\ Coherent(sent[c])
  BY StoryOf DEF StoryInv, TypeOK
<1>2. \A c \in Conn :
        /\ c \in Gone => sent'[c] = sent[c]
        /\ c \notin Gone => sent'[c] = (sent[c] \o B[c]) \o (IF c \in F THEN <<e>> ELSE <<>>)
  BY Zenon DEF Room!Announce
<1>3. e.name \in Name \cup {NoName}
  BY DEF Msg
<1>4. ASSUME NEW c \in Conn \ Gone
      PROVE  Coherent(sent'[c]) /\ sent[c] \o B[c] \in Seq(Msg)
  <2> DEFINE m == sent[c]
             w == B[c]
  <2>1. m \in Seq(Msg) /\ w \in Seq(Msg) /\ Coherent(m) /\ Eventless(w)
    BY <1>1
  <2>2. sent'[c] = (m \o w) \o (IF c \in F THEN <<e>> ELSE <<>>)
    BY <1>2
  <2>3. Fits(m, e)
    <3>1. CASE c \in Room!Inside
      <4>1. Knows(m, Room!Names)
        BY <3>1 DEF StoryInv
      <4>2. /\ e.name \in Room!Names => Answered(m, e.name, "left", "join")
            /\ e.name \notin Room!Names => Answered(m, e.name, "join", "left")
        BY <1>3, <4>1 DEF Knows
      <4> QED BY <4>2 DEF Fits
    <3>2. CASE c \notin Room!Inside
      <4>1. Eventless(m)
        BY <3>2 DEF StoryInv
      <4> QED BY <2>1, <4>1, EventlessKnows DEF Fits
    <3> QED BY <3>1, <3>2
  <2> HIDE DEF m, w
  <2>4. Fits(m \o w, e)
    <3>1. \A i \in DOMAIN w : w[i].kind # "left" /\ w[i].kind # "join"
      BY <2>1 DEF Eventless
    <3> QED BY <2>1, <2>3, <3>1, AnsweredKept DEF Fits
  <2>5. m \o w \in Seq(Msg) /\ Coherent(m \o w)
    BY <2>1, QuietCoherent
  <2>6. Coherent((m \o w) \o <<e>>)
    BY <2>4, <2>5, EventCoherent
  <2>7. (m \o w) \o <<>> = m \o w
    BY <2>5
  <2> QED BY <2>2, <2>5, <2>6, <2>7 DEF m, w
<1>5. \A c \in Conn : Coherent(sent'[c])
  BY <1>1, <1>2, <1>4
<1>6. StoryCoherent'
  BY <1>5 DEF StoryCoherent, Coherent
<1> QED BY <1>1, <1>2, <1>4, <1>6

\* What somebody in the room knows after an announcement.
LEMMA KnowsNext ==
  ASSUME NEW m \in Seq(Msg), NEW w \in Seq(Msg), Eventless(w), NEW N, NEW M, NEW e \in Msg,
         Knows(m, N) \/ Eventless(m),
         \/ e.kind = "chat" /\ M = N
         \/ e = About("join", e.name) /\ M = N \cup {e.name}
         \/ e = About("left", e.name) /\ M = N \ {e.name}
  PROVE  Knows((m \o w) \o <<e>>, M)
<1> DEFINE v == m \o w
<1>1. v \in Seq(Msg)
  OBVIOUS
<1>2. \A i \in DOMAIN w : w[i].kind # "left" /\ w[i].kind # "join"
  BY DEF Eventless
<1>3. \A n, k, a : k \in {"left", "join"} /\ Answered(m, n, k, a) => Answered(v, n, k, a)
  BY <1>2, AnsweredKept
<1>4. <<e>> \in Seq(Msg) /\ DOMAIN <<e>> = {1} /\ <<e>>[1] = e
  OBVIOUS
<1> HIDE DEF v
<1>5. \A n, k, a : Answered(v, n, k, a) /\ ~(e.kind = k /\ e.name = n) => Answered(v \o <<e>>, n, k, a)
  BY <1>1, <1>4, AnsweredKept
<1>6. \A k, a : k # a /\ e = About(a, e.name) => Answered(v \o <<e>>, e.name, k, a)
  BY <1>1, AnsweredNow
<1>7. About("join", e.name).kind = "join" /\ About("left", e.name).kind = "left"
  BY DEF About
<1>8. ASSUME NEW n \in Name \cup {NoName}
      PROVE  IF n \in M THEN Answered(v \o <<e>>, n, "left", "join")
             ELSE Answered(v \o <<e>>, n, "join", "left")
  <2>1. IF n \in N THEN Answered(v, n, "left", "join") ELSE Answered(v, n, "join", "left")
    <3>1. IF n \in N THEN Answered(m, n, "left", "join") ELSE Answered(m, n, "join", "left")
      BY EventlessKnows DEF Knows
    <3> QED BY <1>3, <3>1
  <2>2. CASE n = e.name /\ e.kind \in {"join", "left"}
    BY <1>6, <1>7, <2>2
  <2>3. CASE n # e.name \/ e.kind \notin {"join", "left"}
    <3>1. n \in M <=> n \in N
      BY <1>7, <2>3
    <3>2. \A k \in {"left", "join"} : ~(e.kind = k /\ e.name = n)
      BY <2>3
    <3> QED BY <1>5, <2>1, <3>1, <3>2
  <2> QED BY <2>2, <2>3
<1>9. Knows(v \o <<e>>, M)
  BY <1>8 DEF Knows
<1> QED BY <1>9 DEF v

\* The members' names and the room's.
LEMMA RoomNames ==
  ASSUME IInv
  PROVE  /\ Room!Inside \subseteq Conn
         /\ \A c \in Room!Inside : Who[c] \in Name \cup {NoName} /\ Who[c] \in Room!Names
         /\ \A c, d \in Room!Inside : Who[c] = Who[d] => c = d
<1>1. /\ Room!Inside = {sock[s] : s \in Members} /\ \A s \in Members : Who[sock[s]] = name[s]
      /\ \A s \in Members : sock[s] \in Conn /\ name[s] \in Name \cup {NoName}
  <2>1. \A s \in Members : s \in Slot /\ sock[s] \in Conn /\ Who[sock[s]] = name[s] /\ Room!Inside = Sockets(Members)
    BY MemberInside
  <2>2. Room!Inside = Sockets(Members)
    BY WhoFacts DEF IInv, Room!Inside
  <2>3. \A s \in Slot : name[s] \in Name \cup {NoName}
    BY DEF IInv, TypeOK
  <2> QED BY <2>1, <2>2, <2>3 DEF Sockets
<1>2. \A c \in Room!Inside : \E s \in Members : c = sock[s] /\ Who[c] = name[s]
  BY <1>1
<1>3. \A c, d \in Room!Inside : Who[c] = Who[d] => c = d
  BY <1>2 DEF IInv, UniqueNames
<1> QED BY <1>1, <1>2, <1>3 DEF Room!Names

LEMMA SilentRoom ==
  /\ Room!Silence \in [Conn -> Seq(Msg)] /\ \A c \in Conn : Eventless(Room!Silence[c])
  /\ \A c, d \in Conn : Eventless(Room!Greeting(c)[d])
  /\ \A c \in Conn : Room!Greeting(c) \in [Conn -> Seq(Msg)]
<1>1. Room!Welcome \in Msg /\ Room!Welcome.kind = "registered"
  BY DEF Msg, Room!Welcome
<1>2. \A c, d \in Conn : Room!Greeting(c)[d] \in {<<Room!Welcome>>, <<>>}
  BY DEF Room!Greeting
<1>3. <<Room!Welcome>> \in Seq(Msg) /\ Eventless(<<Room!Welcome>>) /\ <<>> \in Seq(Msg) /\ Eventless(<<>>)
  BY <1>1 DEF Eventless
<1> QED BY <1>2, <1>3 DEF Room!Silence, Room!Greeting

LEMMA StoryStep ==
  ASSUME IInv, IInv', StoryInv, [Next]_vars
  PROVE  StoryInv'
<1>1. TypeOK /\ TypeOK' /\ [Room!Next]_(Room!vars)
  BY RoomStep DEF IInv
<1>2. CASE UNCHANGED Room!vars
  <2>1. Who' = Who /\ Gone' = Gone /\ sent' = sent /\ (~Stopped)' = ~Stopped
    BY <1>2 DEF Room!vars
  <2>2. Room!Inside' = Room!Inside /\ Room!Names' = Room!Names
    BY <2>1 DEF Room!Inside, Room!Names
  <2> QED BY <2>1, <2>2 DEF StoryInv, StoryCoherent
<1>3. ASSUME NEW c \in Conn, Room!Go(c) PROVE StoryInv'
  BY <1>3 DEF StoryInv, StoryCoherent, Room!Go, Room!Inside, Room!Names
<1>4. CASE ~Stopped /\ Room!Close
  <2>1. Stopped'
    BY <1>4 DEF Room!Close
  <2>2. CASE UNCHANGED sent
    BY <2>1, <2>2 DEF StoryInv, StoryCoherent
  <2>3. ASSUME NEW c \in Conn \ Room!Inside, NEW n \in Name \ Room!Names, NEW F,
               Room!Announce(F, Room!Greeting(c), Room!Join(n))
        PROVE  StoryInv'
    <3>1. Room!Join(n) \in Msg /\ Room!Join(n).kind = "join" /\ Room!Join(n).name = n
      BY DEF Room!Join, Msg
    <3>2. StoryCoherent'
      BY <1>1, <1>4, <2>3, <3>1, SilentRoom, Announced
    <3> QED BY <2>1, <3>2 DEF StoryInv
  <2>4. ASSUME NEW c \in Room!Inside, NEW e \in {Room!Left(Who[c])} \cup {Room!Chat(Who[c], t) : t \in Said},
               NEW F, Room!Announce(F, Room!Silence, e)
        PROVE  StoryInv'
    <3>1. e \in Msg /\ e.kind \in {"chat", "left"} /\ e.name \in Room!Names
      <4>1. Who[c] \in Name \cup {NoName} /\ Who[c] \in Room!Names
        BY RoomNames
      <4>2. /\ Room!Left(Who[c]) \in Msg /\ Room!Left(Who[c]).kind = "left"
            /\ Room!Left(Who[c]).name = Who[c]
        BY <4>1 DEF Room!Left, Msg
      <4>3. \A t \in Said : /\ Room!Chat(Who[c], t) \in Msg /\ Room!Chat(Who[c], t).kind = "chat"
                           /\ Room!Chat(Who[c], t).name = Who[c]
        BY <4>1, SaidTypes DEF Room!Chat, Msg
      <4> QED BY <4>1, <4>2, <4>3
    <3>2. StoryCoherent'
      BY <1>1, <1>4, <2>4, <3>1, SilentRoom, Announced
    <3> QED BY <2>1, <3>2 DEF StoryInv
  <2> QED BY <1>4, <2>2, <2>3, <2>4 DEF Room!Close, Said
<1>5. ASSUME ~Stopped, NEW c \in Conn, Room!Whisper(c) PROVE StoryInv'
  <2>1. PICK w \in Seq(Msg) : sent'[c] = sent[c] \o w /\ Eventless(w)
    <3>1. sent[c] \in Seq(Msg) /\ sent'[c] \in Seq(Msg)
      BY <1>1 DEF TypeOK
    <3>2. \A i \in Len(sent[c]) + 1 .. Len(sent'[c]) : sent'[c][i].kind \notin {"join", "left", "chat"}
      BY <1>5 DEF Room!Whisper, Room!Events
    <3>3. Len(sent'[c]) >= Len(sent[c]) /\ SubSeq(sent'[c], 1, Len(sent[c])) = sent[c]
      BY <1>5 DEF Room!Whisper
    <3> QED BY <3>1, <3>2, <3>3, Follows
  <2>2. /\ \A d \in Conn \ {c} : sent'[d] = sent[d]
        /\ c \notin Gone /\ Gone' = Gone /\ Who' = Who /\ ~Stopped'
    BY <1>5 DEF Room!Whisper
  <2>3. sent[c] \in Seq(Msg) /\ \A d \in Conn : Coherent(sent[d])
    BY <1>1, StoryOf DEF StoryInv, TypeOK
  <2>4. StoryCoherent'
    <3>1. Coherent(sent'[c])
      BY <2>1, <2>3, QuietCoherent
    <3> QED BY <2>2, <2>3, <3>1 DEF StoryCoherent, Coherent
  <2>5. Room!Inside' = Room!Inside /\ Room!Names' = Room!Names
    BY <2>2 DEF Room!Inside, Room!Names
  <2>6. Knows(sent[c], Room!Names) => Knows(sent'[c], Room!Names)
    <3>1. \A i \in DOMAIN w : w[i].kind # "left" /\ w[i].kind # "join"
      BY <2>1 DEF Eventless
    <3>2. \A n, k, a : k \in {"left", "join"} /\ Answered(sent[c], n, k, a) => Answered(sent[c] \o w, n, k, a)
      BY <2>1, <2>3, <3>1, AnsweredKept
    <3> QED BY <2>1, <3>2 DEF Knows
  <2>7. Eventless(sent[c]) => Eventless(sent'[c])
    BY <2>1, <2>3, EventlessJoined
  <2>8. ASSUME NEW d \in Conn \ Gone
        PROVE  IF d \in Room!Inside THEN Knows(sent'[d], Room!Names) ELSE Eventless(sent'[d])
    BY <1>5, <2>2, <2>6, <2>7 DEF StoryInv
  <2> QED BY <2>2, <2>4, <2>5, <2>8 DEF StoryInv
<1>6. ASSUME ~Stopped, NEW c \in Conn, NEW n \in Name, Room!Enter(c, n) PROVE StoryInv'
  <2> DEFINE e == Room!Join(n)
             B == Room!Greeting(c)
             F == Room!Inside \cup {c}
  <2>1. e \in Msg /\ e.kind = "join" /\ e.name = n /\ e = About("join", n)
    BY DEF Room!Join, Msg, About
  <2>2. /\ c \notin Room!Inside /\ n \notin Room!Names /\ Room!Announce(F, B, e)
        /\ Gone' = Gone /\ ~Stopped'
        /\ Who' = [d \in F |-> IF d = c THEN n ELSE Who[d]]
    BY <1>6 DEF Room!Enter
  <2>3. /\ B \in [Conn -> Seq(Msg)] /\ \A d \in Conn : Eventless(B[d])
    BY SilentRoom
  <2>4. Room!Inside' = F /\ Room!Names' = Room!Names \cup {n}
    <3>1. DOMAIN Who' = F
      BY <2>2
    <3>2. {Who'[d] : d \in F} = {Who[d] : d \in Room!Inside} \cup {n}
      BY <2>2
    <3> QED BY <3>1, <3>2 DEF Room!Inside, Room!Names
  <2> HIDE DEF e, B, F
  <2>5. /\ StoryCoherent'
        /\ \A d \in Conn \ Gone :
             /\ sent'[d] = (sent[d] \o B[d]) \o (IF d \in F THEN <<e>> ELSE <<>>)
             /\ sent[d] \o B[d] \in Seq(Msg) /\ sent[d] \in Seq(Msg)
    BY <1>1, <1>6, <2>1, <2>2, <2>3, Announced
  <2>6. ASSUME NEW d \in Conn \ Gone
        PROVE  IF d \in F THEN Knows(sent'[d], Room!Names \cup {n}) ELSE Eventless(sent'[d])
    <3>1. CASE d \in F
      <4>1. sent'[d] = (sent[d] \o B[d]) \o <<e>>
        BY <2>5, <3>1
      <4>2. Knows(sent[d], Room!Names) \/ Eventless(sent[d])
        BY <1>6 DEF StoryInv
      <4>3. sent[d] \in Seq(Msg) /\ B[d] \in Seq(Msg)
        BY <2>3, <2>5
      <4>4. Eventless(B[d]) /\ e = About("join", e.name) /\ Room!Names \cup {n} = Room!Names \cup {e.name}
        BY <2>1, <2>3
      <4>5. Knows((sent[d] \o B[d]) \o <<e>>, Room!Names \cup {n})
        BY <2>1, <4>2, <4>3, <4>4, KnowsNext
      <4> QED BY <3>1, <4>1, <4>5
    <3>2. CASE d \notin F
      <4>1. sent'[d] = (sent[d] \o B[d]) \o <<>>
        BY <2>5, <3>2
      <4>2. Eventless(sent[d])
        BY <1>6, <3>2 DEF StoryInv, F
      <4>3. sent[d] \in Seq(Msg) /\ B[d] \in Seq(Msg) /\ Eventless(B[d])
        BY <2>3, <2>5
      <4>4. sent'[d] = sent[d] \o B[d]
        BY <2>5, <4>1
      <4>5. Eventless(sent[d] \o B[d])
        BY <4>2, <4>3, EventlessJoined
      <4> QED BY <3>2, <4>4, <4>5
    <3> QED BY <3>1, <3>2
  <2> QED BY <2>2, <2>4, <2>5, <2>6 DEF StoryInv
<1>7. ASSUME ~Stopped, NEW c \in Room!Inside, NEW e \in Msg, NEW F, NEW M,
             Room!Announce(F, Room!Silence, e), e.name = Who[c],
             Gone' = Gone, ~Stopped', Room!Inside' = F, Room!Names' = M, F \subseteq Room!Inside,
             Room!Inside \ F \subseteq Gone,
             \/ e.kind = "chat" /\ M = Room!Names
             \/ e = About("left", e.name) /\ M = Room!Names \ {e.name}
      PROVE  StoryInv'
  <2> DEFINE B == Room!Silence
  <2>1. e.kind \in {"chat", "left"} /\ e.name \in Room!Names
    BY <1>7, RoomNames DEF About
  <2>2. /\ B \in [Conn -> Seq(Msg)] /\ \A d \in Conn : Eventless(B[d])
    BY SilentRoom
  <2>3. Room!Announce(F, B, e)
    BY <1>7
  <2> HIDE DEF B
  <2>4. /\ StoryCoherent'
        /\ \A d \in Conn \ Gone :
             /\ sent'[d] = (sent[d] \o B[d]) \o (IF d \in F THEN <<e>> ELSE <<>>)
             /\ sent[d] \o B[d] \in Seq(Msg) /\ sent[d] \in Seq(Msg)
    BY <1>1, <1>7, <2>1, <2>2, <2>3, Announced
  <2>5. ASSUME NEW d \in Conn \ Gone
        PROVE  IF d \in F THEN Knows(sent'[d], M) ELSE Eventless(sent'[d])
    <3>1. CASE d \in F
      <4>1. sent'[d] = (sent[d] \o B[d]) \o <<e>>
        BY <2>4, <3>1
      <4>2. Knows(sent[d], Room!Names)
        BY <1>7, <3>1 DEF StoryInv
      <4>3. sent[d] \in Seq(Msg) /\ B[d] \in Seq(Msg)
        BY <2>2, <2>4
      <4>4. Eventless(B[d])
        BY <2>2
      <4>5. Knows((sent[d] \o B[d]) \o <<e>>, M)
        BY <1>7, <4>2, <4>3, <4>4, KnowsNext
      <4> QED BY <3>1, <4>1, <4>5
    <3>2. CASE d \notin F
      <4>1. sent'[d] = (sent[d] \o B[d]) \o <<>>
        BY <2>4, <3>2
      <4>2. Eventless(sent[d])
        BY <1>7, <3>2 DEF StoryInv
      <4>3. sent[d] \in Seq(Msg) /\ B[d] \in Seq(Msg) /\ Eventless(B[d])
        BY <2>2, <2>4
      <4>4. sent'[d] = sent[d] \o B[d]
        BY <2>4, <4>1
      <4>5. Eventless(sent[d] \o B[d])
        BY <4>2, <4>3, EventlessJoined
      <4> QED BY <3>2, <4>4, <4>5
    <3> QED BY <3>1, <3>2
  <2> QED BY <1>7, <2>4, <2>5 DEF StoryInv
<1>8. ASSUME ~Stopped, NEW c \in Conn, NEW t \in Said, Room!Speak(c, t) PROVE StoryInv'
  <2>1. Room!Inside' = Room!Inside /\ Room!Names' = Room!Names /\ Gone' = Gone /\ ~Stopped'
    BY <1>8 DEF Room!Speak, Room!Inside, Room!Names
  <2>2. c \in Room!Inside /\ Room!Announce(Room!Inside, Room!Silence, Room!Chat(Who[c], t))
    BY <1>8 DEF Room!Speak
  <2>3. /\ Room!Chat(Who[c], t) \in Msg /\ Room!Chat(Who[c], t).kind = "chat"
        /\ Room!Chat(Who[c], t).name = Who[c]
    BY <2>2, SaidTypes, RoomNames DEF Room!Chat, Msg
  <2> QED BY <1>7, <1>8, <2>1, <2>2, <2>3
<1>9. ASSUME ~Stopped, NEW c \in Conn, Room!Leave(c) PROVE StoryInv'
  <2>1. /\ c \in Room!Inside /\ c \in Gone
        /\ Room!Announce(Room!Inside \ {c}, Room!Silence, Room!Left(Who[c]))
        /\ Who' = [d \in Room!Inside \ {c} |-> Who[d]]
        /\ Gone' = Gone /\ ~Stopped'
    BY <1>9 DEF Room!Leave
  <2>2. Room!Left(Who[c]) \in Msg /\ Room!Left(Who[c]).name = Who[c] /\ Room!Left(Who[c]) = About("left", Who[c])
    BY <2>1, RoomNames DEF Room!Left, Msg, About
  <2>3. Room!Inside' = Room!Inside \ {c}
    BY <2>1 DEF Room!Inside
  <2>4. Room!Names' = Room!Names \ {Who[c]}
    <3>1. Room!Names' = {Who[d] : d \in Room!Inside \ {c}}
      BY <2>1, <2>3 DEF Room!Names
    <3>2. \A d \in Room!Inside \ {c} : Who[d] # Who[c]
      BY <2>1, RoomNames
    <3> QED BY <3>1, <3>2 DEF Room!Names
  <2> QED BY <1>7, <1>9, <2>1, <2>2, <2>3, <2>4
<1> QED BY <1>1, <1>2, <1>3, <1>4, <1>5, <1>6, <1>8, <1>9 DEF Room!Next, Room!InRoom, Said

\* The messages one connection gets never contradict each other: nobody chats
\* or leaves after having left and before joining again, and nobody joins twice.
THEOREM StoryCorrect == Spec => []StoryCoherent
<1>1. Init => StoryInv
  <2> SUFFICES ASSUME Init PROVE StoryInv
    OBVIOUS
  <2>1. \A c \in Conn : DOMAIN sent[c] = {}
    BY DEF Init
  <2>2. Members = {}
    BY DEF Init, Members
  <2>3. Room!Inside = {}
    BY <2>2 DEF Room!Inside, Who
  <2> QED BY <2>1, <2>3 DEF StoryInv, StoryCoherent, Eventless
<1>2. IInv /\ IInv' /\ StoryInv /\ [Next]_vars => StoryInv'
  BY StoryStep
<1>3. StoryInv => StoryCoherent
  BY DEF StoryInv
<1> QED BY <1>1, <1>2, <1>3, Invariant, PTL DEF Spec

===============================================================================
