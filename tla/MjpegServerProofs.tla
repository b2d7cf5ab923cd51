-------------------------- MODULE MjpegServerProofs --------------------------
(***************************************************************************)
(* The safety properties of the broadcaster, for any clients and any number *)
(* of frames.  The lemmas of the first part are about the blocks on the     *)
(* socket queue, those of the second about the steps.                       *)
(***************************************************************************)
EXTENDS MjpegServerProperties, FiniteSetTheorems, TLAPS

Events == [event : {"accept", "data", "disconnect"}, client : Clients]

Has(q, event, c) == \E i \in 1..Len(q) : q[i].event = event /\ q[i].client = c

\* Acceptance or data of a client are still to be reported.
Opening(q, c) == Has(q, "accept", c) \/ Has(q, "data", c)

\* A client has one such block at most, and its disconnection comes after it.
InTurn(q) ==
    \A i, j \in 1..Len(q) :
        i # j /\ q[i].client = q[j].client /\ q[j].event # "disconnect" =>
            q[i].event = "disconnect" /\ j < i

\* What a client may be owed and be given, by how far its connection has come.
ClientOK(c) ==
    /\ wire[c] = "new" =>
          /\ c \notin reading /\ c \notin connected
          /\ \A event : ~Has(callbacks, event, c)
    /\ wire[c] = "new" \/ c \in reading \/ Opening(callbacks, c) =>
          written[c] = <<>> /\ c \notin listening /\ greeting # c
    /\ c \in reading => ~Opening(callbacks, c)
    /\ Has(callbacks, "disconnect", c) => wire[c] = "closed"
    /\ Has(callbacks, "accept", c) \/ c \in connected =>
          wire[c] = "open" \/ Has(callbacks, "disconnect", c)
    /\ Has(callbacks, "data", c) \/ (c \in reading /\ wire[c] = "open") =>
          c \in connected
    /\ c \in listening \/ greeting = c =>
          /\ c \in connected
          /\ wire[c] = "open" => written[c] # <<>>

ClientInv == \A c \in Clients : ClientOK(c)

InOrder(w) ==
    /\ w # <<>> => w[1] = 0
    /\ \A i, j \in DOMAIN w : i < j => w[i] < w[j]

\* The frame that is scaled is newer than all that were written, and the one
\* that waits is newer still.
FrameInv ==
    /\ stream = "shooting" => taken < MaxFrames
    /\ scalings <= taken /\ scaled <= taken /\ nextImage <= taken
    /\ nextImage # 0 => scaled < nextImage /\ scalings > 0
    /\ \A c \in Clients : \A i \in DOMAIN written[c] :
          /\ written[c][i] <= taken
          /\ scaled # 0 => written[c][i] < scaled
          /\ nextImage # 0 => written[c][i] < nextImage

\* The inductive invariant.
Inv ==
    /\ TypeOK /\ IsFiniteSet(connected)
    /\ InTurn(callbacks) /\ ClientInv
    /\ StreamInOrder /\ FrameInv

-----------------------------------------------------------------------------
(* The blocks on the socket queue.                                           *)

LEMMA DueIsHas ==
    ASSUME NEW q \in Seq(Events), NEW event, NEW c
    PROVE  (\E i \in DOMAIN q : q[i] = [event |-> event, client |-> c])
              <=> Has(q, event, c)
<1>1. DOMAIN q = 1..Len(q) /\ \A i \in 1..Len(q) : q[i] \in Events
  OBVIOUS
<1>2. \A e \in Events : e = [event |-> e.event, client |-> e.client]
  BY DEF Events
<1> QED
  BY <1>1, <1>2 DEF Has

LEMMA Appended ==
    ASSUME NEW q \in Seq(Events), NEW e \in Events, InTurn(q),
           e.event = "disconnect" \/ \A event : ~Has(q, event, e.client)
    PROVE  /\ Append(q, e) \in Seq(Events)
           /\ InTurn(Append(q, e))
           /\ \A event, c : Has(Append(q, e), event, c) <=>
                 Has(q, event, c) \/ (event = e.event /\ c = e.client)
<1> DEFINE r == Append(q, e)
           n == Len(q)
<1>1. r \in Seq(Events) /\ n \in Nat /\ Len(r) = n + 1
  OBVIOUS
<1>2. r[n + 1] = e /\ \A i \in 1..n : r[i] = q[i]
  OBVIOUS
<1>3. \A i \in 1..Len(r) : i \in 1..n \/ i = n + 1
  BY <1>1
<1>4. 1..n \subseteq 1..Len(r) /\ n + 1 \in 1..Len(r)
  BY <1>1
<1> HIDE DEF r
<1>5. \A event, c : Has(r, event, c) <=>
         Has(q, event, c) \/ (event = e.event /\ c = e.client)
  BY <1>2, <1>3, <1>4 DEF Has
<1>6. InTurn(r)
  <2> SUFFICES ASSUME NEW i \in 1..Len(r), NEW j \in 1..Len(r), i # j,
                      r[i].client = r[j].client, r[j].event # "disconnect"
               PROVE  r[i].event = "disconnect" /\ j < i
    BY DEF InTurn
  <2>1. CASE i \in 1..n /\ j \in 1..n
    BY <1>2, <2>1 DEF InTurn
  <2>2. CASE i = n + 1
    <3>1. j \in 1..n /\ Has(q, r[j].event, e.client)
      BY <1>2, <1>3, <2>2 DEF Has
    <3> QED
      BY <1>1, <1>2, <2>2, <3>1
  <2>3. CASE j = n + 1 /\ i \in 1..n
    <3>1. Has(q, q[i].event, e.client)
      BY <1>2, <2>3 DEF Has
    <3> QED
      BY <1>2, <2>3, <3>1
  <2> QED
    BY <1>3, <2>1, <2>2, <2>3
<1> QED
  BY <1>1, <1>5, <1>6 DEF r

LEMMA Popped ==
    ASSUME NEW q \in Seq(Events), q # <<>>, InTurn(q)
    PROVE  /\ Head(q) \in Events /\ Has(q, Head(q).event, Head(q).client)
           /\ Tail(q) \in Seq(Events)
           /\ InTurn(Tail(q))
           /\ \A event, c : Has(Tail(q), event, c) => Has(q, event, c)
           /\ \A event, c : Has(q, event, c) /\ ~(event = Head(q).event /\ c = Head(q).client)
                 => Has(Tail(q), event, c)
           /\ ~Opening(Tail(q), Head(q).client)
<1> DEFINE r == Tail(q)
           n == Len(q)
<1>1. r \in Seq(Events) /\ n \in Nat /\ n >= 1 /\ Len(r) = n - 1 /\ Head(q) = q[1]
  OBVIOUS
<1>2. \A i \in 1..Len(r) : i + 1 \in 1..n /\ r[i] = q[i + 1]
  OBVIOUS
<1>3. \A i \in 1..n : i = 1 \/ (i - 1 \in 1..Len(r) /\ q[i] = r[i - 1])
  OBVIOUS
<1>4. 1 \in 1..n /\ Head(q) \in Events
  BY <1>1
<1> HIDE DEF r
<1>5. Has(q, Head(q).event, Head(q).client)
  BY <1>1, <1>4 DEF Has
<1>6. \A event, c : Has(r, event, c) => Has(q, event, c)
  BY <1>2 DEF Has
<1>7. \A event, c : Has(q, event, c) /\ ~(event = Head(q).event /\ c = Head(q).client)
                 => Has(r, event, c)
  BY <1>1, <1>3 DEF Has
<1>8. InTurn(r)
  <2> SUFFICES ASSUME NEW i \in 1..Len(r), NEW j \in 1..Len(r), i # j,
                      r[i].client = r[j].client, r[j].event # "disconnect"
               PROVE  r[i].event = "disconnect" /\ j < i
    BY DEF InTurn
  <2>1. i + 1 \in 1..n /\ j + 1 \in 1..n /\ i + 1 # j + 1
    BY <1>1, <1>2
  <2>2. q[i + 1].event = "disconnect" /\ j + 1 < i + 1
    BY <1>2, <2>1 DEF InTurn
  <2> QED
    BY <1>1, <1>2, <2>2
<1>9. ~Opening(r, Head(q).client)
  <2> SUFFICES ASSUME NEW i \in 1..Len(r), r[i].client = q[1].client,
                      r[i].event # "disconnect"
               PROVE  FALSE
    BY <1>1 DEF Opening, Has
  <2>1. i + 1 \in 1..n /\ i + 1 # 1 /\ r[i] = q[i + 1]
    BY <1>1, <1>2
  <2>2. i + 1 < 1
    BY <1>4, <2>1 DEF InTurn
  <2> QED
    BY <1>1, <2>2
<1> QED
  BY <1>1, <1>4, <1>5, <1>6, <1>7, <1>8, <1>9 DEF r

LEMMA Closing ==
    ASSUME NEW q \in Seq(Events), InTurn(q),
           NEW S \in SUBSET Clients, IsFiniteSet(S), NEW o \in Orders(S)
    PROVE  LET r == q \o [i \in DOMAIN o |-> [event |-> "disconnect", client |-> o[i]]]
           IN  /\ r \in Seq(Events)
               /\ InTurn(r)
               /\ \A event, c : Has(r, event, c) <=>
                     Has(q, event, c) \/ (event = "disconnect" /\ c \in S)
<1> DEFINE p == [i \in DOMAIN o |-> [event |-> "disconnect", client |-> o[i]]]
           r == q \o p
           n == Len(q)
           k == Cardinality(S)
<1>1. k \in Nat
  BY FS_CardinalityType
<1>2. DOMAIN o = 1..k /\ (\A i \in 1..k : o[i] \in S)
      /\ \A c \in S : \E i \in 1..k : o[i] = c
  BY DEF Orders
<1> HIDE DEF k
<1>3. p \in Seq(Events) /\ Len(p) = k
  <2>1. p = [i \in 1..k |-> [event |-> "disconnect", client |-> o[i]]]
    BY <1>2
  <2>2. \A i \in 1..k : [event |-> "disconnect", client |-> o[i]] \in Events
    BY <1>2 DEF Events
  <2>3. p \in [1..k -> Events] /\ DOMAIN p = 1..k
    BY <2>1, <2>2
  <2> QED
    BY <1>1, <2>3
<1>4. \A i \in 1..k : p[i].event = "disconnect" /\ p[i].client = o[i]
  BY <1>2
<1> HIDE DEF p
<1>5. r \in Seq(Events) /\ n \in Nat /\ Len(r) = n + k
  BY <1>3
<1>6. /\ \A i \in 1..n : r[i] = q[i]
      /\ \A i \in 1..k : r[n + i] = p[i]
  BY <1>1, <1>3, <1>5
<1>7. \A i \in 1..Len(r) : i \in 1..n \/ (i > n /\ i - n \in 1..k /\ i = n + (i - n))
  BY <1>1, <1>5
<1>8. 1..n \subseteq 1..Len(r) /\ \A i \in 1..k : n + i \in 1..Len(r)
  BY <1>1, <1>5
<1> HIDE DEF r
<1>9. \A i \in 1..Len(r) : i > n => r[i].event = "disconnect" /\ r[i].client \in S
  <2> TAKE i \in 1..Len(r)
  <2> HAVE i > n
  <2>1. i - n \in 1..k /\ i = n + (i - n)
    BY <1>5, <1>7
  <2>2. r[i] = p[i - n]
    BY <1>6, <2>1
  <2> QED
    BY <1>2, <1>4, <2>1, <2>2
<1>10. \A event, c : Has(r, event, c) <=>
          Has(q, event, c) \/ (event = "disconnect" /\ c \in S)
  <2> TAKE event, c
  <2>1. Has(r, event, c) => Has(q, event, c) \/ (event = "disconnect" /\ c \in S)
    BY <1>5, <1>6, <1>7, <1>9 DEF Has
  <2>2. Has(q, event, c) => Has(r, event, c)
    BY <1>6, <1>8 DEF Has
  <2>3. event = "disconnect" /\ c \in S => Has(r, event, c)
    <3> HAVE event = "disconnect" /\ c \in S
    <3>1. PICK i \in 1..k : o[i] = c
      BY <1>2
    <3>2. n + i \in 1..Len(r) /\ r[n + i].event = "disconnect" /\ r[n + i].client = c
      BY <1>4, <1>6, <1>8, <3>1
    <3> QED
      BY <3>2 DEF Has
  <2> QED
    BY <2>1, <2>2, <2>3
<1>11. InTurn(r)
  <2> SUFFICES ASSUME NEW i \in 1..Len(r), NEW j \in 1..Len(r), i # j,
                      r[i].client = r[j].client, r[j].event # "disconnect"
               PROVE  r[i].event = "disconnect" /\ j < i
    BY DEF InTurn
  <2>1. j \in 1..n
    BY <1>7, <1>9
  <2>2. CASE i \in 1..n
    BY <1>6, <2>1, <2>2 DEF InTurn
  <2>3. CASE i > n
    BY <1>5, <1>9, <2>1, <2>3
  <2> QED
    BY <1>7, <2>2, <2>3
<1> QED
  BY <1>5, <1>10, <1>11 DEF r, p

\* One more item of the stream.
LEMMA Streamed ==
    ASSUME NEW w \in Seq(0..MaxFrames), NEW x \in 0..MaxFrames, InOrder(w),
           \A i \in DOMAIN w : w[i] < x,
           w = <<>> => x = 0
    PROVE  /\ Append(w, x) \in Seq(0..MaxFrames) /\ Append(w, x) # <<>>
           /\ InOrder(Append(w, x))
           /\ \A i \in DOMAIN Append(w, x) : Append(w, x)[i] = x \/
                 \E j \in DOMAIN w : Append(w, x)[i] = w[j]
<1> DEFINE v == Append(w, x)
           n == Len(w)
<1>1. v \in Seq(0..MaxFrames) /\ n \in Nat /\ Len(v) = n + 1 /\ v # <<>>
      /\ DOMAIN v = 1..(n + 1) /\ DOMAIN w = 1..n
  OBVIOUS
<1>2. v[n + 1] = x /\ \A i \in 1..n : v[i] = w[i]
  OBVIOUS
<1>3. \A i \in 1..(n + 1) : i \in 1..n \/ i = n + 1
  BY <1>1
<1>4. \A i \in DOMAIN v : v[i] = x \/ \E j \in DOMAIN w : v[i] = w[j]
  BY <1>1, <1>2, <1>3
<1>5. v[1] = 0
  <2>1. CASE w = <<>>
    BY <1>1, <1>2, <2>1
  <2>2. CASE w # <<>>
    BY <1>1, <1>2, <2>2 DEF InOrder
  <2> QED
    BY <2>1, <2>2
<1>6. \A i, j \in DOMAIN v : i < j => v[i] < v[j]
  <2> SUFFICES ASSUME NEW i \in 1..(n + 1), NEW j \in 1..(n + 1), i < j
               PROVE  v[i] < v[j]
    BY <1>1
  <2>1. i \in 1..n
    BY <1>1
  <2>2. CASE j \in 1..n
    BY <1>1, <1>2, <2>1, <2>2 DEF InOrder
  <2>3. CASE j = n + 1
    BY <1>1, <1>2, <2>1, <2>3
  <2> QED
    BY <1>3, <2>2, <2>3
<1> QED
  BY <1>1, <1>4, <1>5, <1>6 DEF InOrder

LEMMA Reported ==
    ASSUME NEW q \in Seq(Events), NEW event, NEW c, Has(q, event, c)
    PROVE  event \in {"accept", "data", "disconnect"} /\ c \in Clients
<1>1. PICK i \in 1..Len(q) : q[i].event = event /\ q[i].client = c
  BY DEF Has
<1>2. q[i] \in Events
  OBVIOUS
<1> QED
  BY <1>1, <1>2 DEF Events

-----------------------------------------------------------------------------
(* The steps.                                                                *)

LEMMA InitInv == Init => Inv
<1> SUFFICES ASSUME Init PROVE Inv
  OBVIOUS
<1> USE MaxFramesAssumption, NilAssumption DEF Init
<1>1. TypeOK
  BY DEF TypeOK
<1>2. IsFiniteSet(connected)
  BY FS_EmptySet
<1>3. InTurn(callbacks) /\ \A event, c : ~Has(callbacks, event, c)
  BY DEF InTurn, Has
<1>4. ClientInv
  BY <1>3 DEF ClientInv, ClientOK, Opening
<1>5. StreamInOrder /\ FrameInv
  BY DEF StreamInOrder, FrameInv
<1> QED
  BY <1>1, <1>2, <1>3, <1>4, <1>5 DEF Inv

\* A step that leaves the frames and what was written alone.
LEMMA FramesStay ==
    ASSUME Inv, UNCHANGED <<images, written>>
    PROVE  StreamInOrder' /\ FrameInv'
BY DEF Inv, images, StreamInOrder, FrameInv

LEMMA ConnectKeeps == ASSUME Inv, NEW c \in Clients, Connect(c) PROVE Inv'
<1> USE DEF Inv, Connect, Report, lists, images
<1>1. callbacks \in Seq(Events) /\ [event |-> "accept", client |-> c] \in Events
  BY DEF TypeOK, Events
<1>2. \A event : ~Has(callbacks, event, c)
  BY DEF ClientInv, ClientOK
<1>3. /\ callbacks' \in Seq(Events) /\ InTurn(callbacks')
      /\ \A event, d : Has(callbacks', event, d) <=>
            Has(callbacks, event, d) \/ (event = "accept" /\ d = c)
  BY <1>1, <1>2, Appended
<1>4. TypeOK'
  BY <1>3 DEF TypeOK, Events
<1>5. ClientInv'
  <2> SUFFICES ASSUME NEW d \in Clients PROVE ClientOK(d)'
    BY DEF ClientInv
  <2>1. ClientOK(d) /\ wire'[d] = IF d = c THEN "open" ELSE wire[d]
    BY DEF ClientInv, TypeOK
  <2> QED
    BY <1>2, <1>3, <2>1 DEF ClientOK, Opening
<1> QED
  BY <1>3, <1>4, <1>5, FramesStay

LEMMA AskKeeps == ASSUME Inv, NEW c \in Clients, Ask(c) PROVE Inv'
<1> USE DEF Inv, Ask, lists, images
<1>1. TypeOK' /\ ClientInv'
  BY DEF TypeOK, ClientInv, ClientOK
<1> QED
  BY <1>1, FramesStay

LEMMA DataArrivesKeeps == ASSUME Inv, NEW c \in Clients, DataArrives(c) PROVE Inv'
<1> USE DEF Inv, DataArrives, Report, lists, images
<1>1. callbacks \in Seq(Events) /\ [event |-> "data", client |-> c] \in Events
  BY DEF TypeOK, Events
<1>2. \A event : ~Has(callbacks, event, c)
  BY <1>1, Reported DEF ClientInv, ClientOK, Opening
<1>3. /\ callbacks' \in Seq(Events) /\ InTurn(callbacks')
      /\ \A event, d : Has(callbacks', event, d) <=>
            Has(callbacks, event, d) \/ (event = "data" /\ d = c)
  BY <1>1, <1>2, Appended
<1>4. TypeOK'
  BY <1>3 DEF TypeOK, Events
<1>5. ClientInv'
  <2> SUFFICES ASSUME NEW d \in Clients PROVE ClientOK(d)'
    BY DEF ClientInv
  <2>1. ClientOK(d)
    BY DEF ClientInv
  <2> QED
    BY <1>2, <1>3, <2>1 DEF ClientOK, Opening
<1> QED
  BY <1>3, <1>4, <1>5, FramesStay

LEMMA HangUpKeeps == ASSUME Inv, NEW c \in Clients, HangUp(c) PROVE Inv'
<1> USE DEF Inv, HangUp, Report, lists, images
<1>1. callbacks \in Seq(Events) /\ [event |-> "disconnect", client |-> c] \in Events
  BY DEF TypeOK, Events
<1>2. /\ callbacks' \in Seq(Events) /\ InTurn(callbacks')
      /\ \A event, d : Has(callbacks', event, d) <=>
            Has(callbacks, event, d) \/ (event = "disconnect" /\ d = c)
  BY <1>1, Appended
<1>3. TypeOK'
  BY <1>2 DEF TypeOK, Events
<1>4. ClientInv'
  <2> SUFFICES ASSUME NEW d \in Clients PROVE ClientOK(d)'
    BY DEF ClientInv
  <2>1. ClientOK(d) /\ wire'[d] = IF d = c THEN "closed" ELSE wire[d]
    BY DEF ClientInv, TypeOK
  <2> QED
    BY <1>2, <2>1 DEF ClientOK, Opening
<1> QED
  BY <1>2, <1>3, <1>4, FramesStay

\* The block that runs is the oldest on the queue.
LEMMA CallbackPops ==
    ASSUME Inv, NEW event, NEW c \in Clients, Callback(event, c)
    PROVE  /\ Has(callbacks, event, c)
           /\ callbacks' \in Seq(Events) /\ InTurn(callbacks')
           /\ \A f, d : Has(callbacks', f, d) => Has(callbacks, f, d)
           /\ \A f, d : Has(callbacks, f, d) /\ ~(f = event /\ d = c)
                 => Has(callbacks', f, d)
           /\ ~Opening(callbacks', c)
<1>1. callbacks \in Seq(Events) /\ callbacks # <<>> /\ InTurn(callbacks)
  BY DEF Inv, TypeOK, Events, Callback
<1>2. Head(callbacks).event = event /\ Head(callbacks).client = c
      /\ callbacks' = Tail(callbacks)
  BY DEF Callback
<1> QED
  BY <1>1, <1>2, Popped

LEMMA DidAcceptKeeps == ASSUME Inv, NEW c \in Clients, DidAcceptNewSocket(c) PROVE Inv'
<1> USE DEF Inv, DidAcceptNewSocket, images
<1>1. Callback("accept", c)
  OBVIOUS
<1>2. TypeOK' /\ IsFiniteSet(connected')
  BY <1>1, CallbackPops, FS_AddElement DEF TypeOK, Events
<1>3. ClientInv'
  <2> SUFFICES ASSUME NEW d \in Clients PROVE ClientOK(d)'
    BY DEF ClientInv
  <2>1. ClientOK(d)
    BY DEF ClientInv
  <2> QED
    BY <1>1, <2>1, CallbackPops DEF ClientOK, Opening
<1> QED
  BY <1>1, <1>2, <1>3, CallbackPops, FramesStay

\* The first item of a client is the header.
LEMMA DidClientSendDataKeeps ==
    ASSUME Inv, NEW c \in Clients, DidClientSendData(c) PROVE Inv'
<1> USE MaxFramesAssumption DEF Inv, DidClientSendData, images
<1>1. Callback("data", c) /\ greeting = NIL
  BY DEF Callback
<1>2. ClientOK(c) /\ Has(callbacks, "data", c) /\ Opening(callbacks, c)
  BY <1>1, CallbackPops DEF ClientInv, Opening
<1>3. written[c] = <<>> /\ c \notin listening /\ c \notin reading /\ c \in connected
      /\ wire[c] # "new"
  BY <1>2 DEF ClientOK
<1>4. greeting' = c
      /\ written' = [d \in Clients |-> IF d = c /\ wire[d] = "open" THEN <<0>> ELSE written[d]]
  <2>1. greeting' = c /\ Write(0, {c})
    BY <1>3
  <2>2. Append(written[c], 0) = <<0>>
    BY <1>3
  <2>3. \A d \in Clients : d \in {c} /\ wire[d] = "open" <=> d = c /\ wire[d] = "open"
    OBVIOUS
  <2> QED
    BY <2>1, <2>2, <2>3 DEF Write
<1>5. <<0>> \in Seq(0..MaxFrames) /\ <<0>> # <<>>
      /\ DOMAIN <<0>> = {1} /\ <<0>>[1] = 0
  OBVIOUS
<1>6. TypeOK'
  <2>1. written' \in [Clients -> Seq(0..MaxFrames)]
    BY <1>4, <1>5 DEF TypeOK
  <2> QED
    BY <1>1, <1>4, <2>1, CallbackPops DEF TypeOK, Events
<1>7. ClientInv'
  <2> SUFFICES ASSUME NEW d \in Clients PROVE ClientOK(d)'
    BY DEF ClientInv
  <2>1. ClientOK(d) /\ written'[d] = IF d = c /\ wire[d] = "open" THEN <<0>> ELSE written[d]
    BY <1>4 DEF ClientInv
  <2> QED
    BY <1>1, <1>3, <1>4, <1>5, <2>1, CallbackPops DEF ClientOK, Opening
<1>8. StreamInOrder'
  <2> SUFFICES ASSUME NEW d \in Clients PROVE InOrder(written'[d])
    BY DEF StreamInOrder, InOrder
  <2>1. CASE written'[d] = <<0>>
    BY <1>5, <2>1 DEF InOrder
  <2>2. CASE written'[d] = written[d]
    BY <2>2 DEF InOrder, StreamInOrder
  <2> QED
    BY <1>4, <2>1, <2>2
<1>9. FrameInv'
  <2>1. \A d \in Clients : \A i \in DOMAIN written'[d] :
           written'[d][i] = 0 \/ (i \in DOMAIN written[d] /\ written'[d][i] = written[d][i])
    BY <1>4, <1>5
  <2>2. taken \in Nat /\ scaled \in Nat /\ nextImage \in Nat
    BY DEF TypeOK
  <2> QED
    BY <2>1, <2>2 DEF FrameInv
<1> QED
  BY <1>1, <1>6, <1>7, <1>8, <1>9, CallbackPops

LEMMA AddListeningKeeps == ASSUME Inv, AddListeningClient PROVE Inv'
<1> USE NilAssumption DEF Inv, AddListeningClient, sockets, images
<1>1. TypeOK'
  BY DEF TypeOK
<1>2. ClientInv'
  <2> SUFFICES ASSUME NEW d \in Clients PROVE ClientOK(d)'
    BY DEF ClientInv
  <2>1. ClientOK(d)
    BY DEF ClientInv
  <2> QED
    BY <2>1 DEF ClientOK
<1> QED
  BY <1>1, <1>2, FramesStay

LEMMA DisconnectKeeps == ASSUME Inv, NEW c \in Clients, SocketDidDisconnect(c) PROVE Inv'
<1> USE NilAssumption DEF Inv, SocketDidDisconnect, images
<1>1. Callback("disconnect", c) /\ greeting = NIL
  BY DEF Callback
<1>2. TypeOK' /\ IsFiniteSet(connected')
  BY <1>1, CallbackPops, FS_RemoveElement DEF TypeOK, Events
<1>3. ClientInv'
  <2> SUFFICES ASSUME NEW d \in Clients PROVE ClientOK(d)'
    BY DEF ClientInv
  <2>1. ClientOK(d)
    BY DEF ClientInv
  <2> QED
    BY <1>1, <2>1, CallbackPops DEF ClientOK, Opening
<1> QED
  BY <1>1, <1>2, <1>3, CallbackPops, FramesStay

LEMMA StopKeeps == ASSUME Inv, Stop PROVE Inv'
<1> USE DEF Inv, Stop, lists, images
<1> DEFINE open == {c \in connected : wire[c] = "open"}
<1>1. callbacks \in Seq(Events) /\ open \in SUBSET Clients /\ IsFiniteSet(open)
  BY FS_Subset DEF TypeOK, Events
<1>2. wire' = [c \in Clients |-> IF c \in open THEN "closed" ELSE wire[c]]
  OBVIOUS
<1>3. PICK o \in Orders(open) :
         callbacks' = callbacks \o
             [i \in DOMAIN o |-> [event |-> "disconnect", client |-> o[i]]]
  OBVIOUS
<1>4. \A c \in open : wire[c] = "open"
  OBVIOUS
<1>5. \A c \in connected : c \in open \/ wire[c] # "open"
  OBVIOUS
<1> HIDE DEF open
<1>6. /\ callbacks' \in Seq(Events) /\ InTurn(callbacks')
      /\ \A event, c : Has(callbacks', event, c) <=>
            Has(callbacks, event, c) \/ (event = "disconnect" /\ c \in open)
  BY <1>1, <1>3, Closing
<1>7. TypeOK'
  <2>1. wire' \in [Clients -> {"new", "open", "closed"}]
    BY <1>2 DEF TypeOK
  <2> QED
    BY <1>6, <2>1 DEF TypeOK, Events
<1>8. ClientInv'
  <2> SUFFICES ASSUME NEW d \in Clients PROVE ClientOK(d)'
    BY DEF ClientInv
  <2>1. ClientOK(d) /\ wire'[d] = IF d \in open THEN "closed" ELSE wire[d]
    BY <1>2 DEF ClientInv
  <2>2. UNCHANGED <<reading, connected, listening, greeting, written>>
    OBVIOUS
  <2> QED
    BY <1>4, <1>6, <2>1, <2>2 DEF ClientOK, Opening
<1> QED
  BY <1>6, <1>7, <1>8, FramesStay

\* Steps of the background queue and of TakeNextImage write nothing.
LEMMA ClientsStay ==
    ASSUME Inv, UNCHANGED <<sockets, lists, written>>
    PROVE  InTurn(callbacks') /\ IsFiniteSet(connected') /\ ClientInv' /\ StreamInOrder'
BY DEF Inv, sockets, lists, ClientInv, ClientOK, StreamInOrder

LEMMA BackgroundKeeps ==
    ASSUME Inv, StreamScreenshot \/ ScreenshotFails \/ SubmitScreenshot
    PROVE  Inv'
<1>1. UNCHANGED <<sockets, lists, written>>
  BY DEF StreamScreenshot, ScreenshotFails, SubmitScreenshot
<1>2. TypeOK' /\ FrameInv'
  <2> USE MaxFramesAssumption DEF Inv, TypeOK, FrameInv, sockets, lists
  <2>1. CASE StreamScreenshot
    BY <1>1, <2>1 DEF StreamScreenshot
  <2>2. CASE ScreenshotFails
    BY <1>1, <2>2 DEF ScreenshotFails
  <2>3. CASE SubmitScreenshot
    <3>1. \A c \in Clients : \A i \in DOMAIN written[c] : written[c][i] \in 0..MaxFrames
      BY DEF TypeOK
    <3> QED
      BY <1>1, <2>3, <3>1 DEF SubmitScreenshot
  <2> QED
    BY <2>1, <2>2, <2>3
<1> QED
  BY <1>1, <1>2, ClientsStay DEF Inv

LEMMA TakeNextImageKeeps == ASSUME Inv, TakeNextImage PROVE Inv'
<1>1. UNCHANGED <<sockets, lists, written>>
  BY DEF TakeNextImage
<1>2. TypeOK' /\ FrameInv'
  BY <1>1, MaxFramesAssumption
     DEF Inv, TypeOK, FrameInv, sockets, lists, TakeNextImage
<1> QED
  BY <1>1, <1>2, ClientsStay DEF Inv

\* A listening client has its header and no frame as new as the one sent.
LEMMA SendScreenshotKeeps == ASSUME Inv, SendScreenshot PROVE Inv'
<1> USE DEF Inv, SendScreenshot
<1>1. scaled \in 1..MaxFrames /\ scaled' = 0
      /\ UNCHANGED <<sockets, lists, stream, taken, nextImage, scalings>>
  BY DEF TypeOK
<1> DEFINE Sent(c) == c \in listening /\ wire[c] = "open"
<1>2. written' = [c \in Clients |-> IF Sent(c) THEN Append(written[c], scaled)
                                    ELSE written[c]]
  BY DEF Write
<1>3. ASSUME NEW c \in Clients, Sent(c)
      PROVE  /\ written'[c] \in Seq(0..MaxFrames) /\ written'[c] # <<>>
             /\ InOrder(written'[c])
             /\ \A i \in DOMAIN written'[c] : written'[c][i] = scaled \/
                   \E j \in DOMAIN written[c] : written'[c][i] = written[c][j]
  <2>1. written[c] \in Seq(0..MaxFrames) /\ written[c] # <<>>
    BY <1>3 DEF TypeOK, ClientInv, ClientOK
  <2>2. InOrder(written[c]) /\ \A i \in DOMAIN written[c] : written[c][i] < scaled
    BY DEF StreamInOrder, InOrder, FrameInv
  <2>3. written'[c] = Append(written[c], scaled) /\ scaled \in 0..MaxFrames
    BY <1>1, <1>2, <1>3
  <2> QED
    BY <2>1, <2>2, <2>3, Streamed
<1>4. ASSUME NEW c \in Clients, ~Sent(c)
      PROVE  written'[c] = written[c]
  BY <1>2, <1>4
<1>5. TypeOK'
  <2>1. \A c \in Clients : written'[c] \in Seq(0..MaxFrames)
    BY <1>3, <1>4 DEF TypeOK
  <2>2. written' \in [Clients -> Seq(0..MaxFrames)]
    BY <1>2, <2>1
  <2> QED
    BY <1>1, <2>2, MaxFramesAssumption DEF TypeOK, sockets, lists
<1>6. ClientInv'
  <2> SUFFICES ASSUME NEW c \in Clients PROVE ClientOK(c)'
    BY DEF ClientInv
  <2>1. ClientOK(c)
    BY DEF ClientInv
  <2> QED
    BY <1>1, <1>3, <1>4, <2>1 DEF ClientOK, sockets, lists
<1>7. StreamInOrder'
  <2> SUFFICES ASSUME NEW c \in Clients PROVE InOrder(written'[c])
    BY DEF StreamInOrder, InOrder
  <2>1. InOrder(written[c])
    BY DEF StreamInOrder, InOrder
  <2> QED
    BY <1>3, <1>4, <2>1
<1>8. FrameInv'
  <2>1. \A c \in Clients : \A i \in DOMAIN written'[c] : written'[c][i] = scaled \/
           \E j \in DOMAIN written[c] : written'[c][i] = written[c][j]
    BY <1>3, <1>4
  <2>2. taken \in Nat /\ nextImage \in Nat
    BY DEF TypeOK
  <2> QED
    BY <1>1, <2>1, <2>2 DEF FrameInv
<1> QED
  BY <1>1, <1>5, <1>6, <1>7, <1>8 DEF sockets, lists

LEMMA Inductive == Inv /\ [Next]_vars => Inv'
<1> SUFFICES ASSUME Inv, [Next]_vars PROVE Inv'
  OBVIOUS
<1>1. CASE \E c \in Clients : Network(c)
  BY <1>1, ConnectKeeps, AskKeeps, DataArrivesKeeps, HangUpKeeps DEF Network
<1>2. CASE SocketQueue
  BY <1>2, DidAcceptKeeps, DidClientSendDataKeeps, DisconnectKeeps, AddListeningKeeps
     DEF SocketQueue
<1>3. CASE Stop
  BY <1>3, StopKeeps
<1>4. CASE StreamScreenshot \/ ScreenshotFails \/ SubmitScreenshot
  BY <1>4, BackgroundKeeps
<1>5. CASE ScalingQueue
  BY <1>5, TakeNextImageKeeps, SendScreenshotKeeps DEF ScalingQueue
<1>6. CASE UNCHANGED vars
  <2>1. UNCHANGED <<sockets, lists, images, written>>
    BY <1>6 DEF vars
  <2>2. TypeOK'
    BY <2>1 DEF Inv, TypeOK, sockets, lists, images
  <2> QED
    BY <2>1, <2>2, ClientsStay, FramesStay DEF Inv
<1> QED
  BY <1>1, <1>2, <1>3, <1>4, <1>5, <1>6 DEF Next

LEMMA Always == Spec => []Inv
BY InitInv, Inductive, PTL DEF Spec

-----------------------------------------------------------------------------

\* The queues, the lists and the frames keep their types, and no counter leaves
\* its range (FBTCPSocket.m, FBMjpegServer.m, FBImageProcessor.m).
THEOREM TypeCorrect == Spec => []TypeOK
<1>1. Inv => TypeOK
  BY DEF Inv
<1> QED
  BY <1>1, Always, PTL

\* Every client is sent the header and then ever newer frames
\* (FBMjpegServer.m:98-141, FBImageProcessor.m:49-79).
THEOREM StreamsInOrder == Spec => []StreamInOrder
<1>1. Inv => StreamInOrder
  BY DEF Inv
<1> QED
  BY <1>1, Always, PTL

\* A closed socket never stays in a list of the server without its disconnection
\* on the way, also when stop closes it (FBTCPSocket.m:51-83, FBMjpegServer.m:120-149).
THEOREM ListsFollow == Spec => []ListsFollowSockets
<1>1. Inv => ListsFollowSockets
  <2> SUFFICES ASSUME Inv PROVE ListsFollowSockets
    OBVIOUS
  <2>1. callbacks \in Seq(Events)
    BY DEF Inv, TypeOK, Events
  <2>2. \A c \in Clients : Due("disconnect", c) <=> Has(callbacks, "disconnect", c)
    BY <2>1, DueIsHas DEF Due
  <2>3. listening \subseteq Clients /\ connected \subseteq Clients
        /\ greeting \in Clients \cup {NIL}
    BY DEF Inv, TypeOK
  <2> QED
    BY <2>2, <2>3 DEF Inv, ClientInv, ClientOK, ListsFollowSockets
<1> QED
  BY <1>1, Always, PTL

\* A frame that waits has a block coming for it (FBImageProcessor.m:49-65).
THEOREM NewestTaken == Spec => []NewestFrameIsTaken
<1>1. Inv => NewestFrameIsTaken
  BY DEF Inv, FrameInv, NewestFrameIsTaken
<1> QED
  BY <1>1, Always, PTL
=============================================================================
