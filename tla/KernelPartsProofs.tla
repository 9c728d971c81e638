------------------------- MODULE KernelPartsProofs -------------------------
EXTENDS KernelParts, Numbers

-----------------------------------------------------------------------------
(***************************************************************************)
(* The kernel's disk driver: what a drive still has to deliver continues   *)
(* what the driver has taken, unless it shows the error bit by then.       *)
(***************************************************************************)
Asked == {IdentifyRead} \cup {Request(r) : r \in Reads}
Blocks == Drives \X Int

Latches == [dev : {0, 1}, top : 0 .. NIBBLE - 1, high : Nat, mid : Nat, low : Nat, count : Nat]
DriveStates == [busy : BOOLEAN, drq : BOOLEAN, err : BOOLEAN, todo : Seq(Blocks)]

AtaTypes ==
  /\ reg \in [{0, 1} -> Latches]
  /\ drive \in [Drives -> DriveStates]
  /\ ataPc \in {"initialize", "idle", "select", "selectWait", "command", "busyWait",
                "requestWait", "transfer", "status", "fault", "end"}
  /\ req \in Asked \cup {NoRead}
  /\ try \in 0 .. TRIES - 1
  /\ data \in Seq(Blocks) /\ Len(data) <= req.n

\* A drive with nothing to do.
Rests(d) == drive[d].todo = <<>> /\ ~drive[d].busy /\ ~drive[d].drq

\* The drive's blocks continue the data.
Continues ==
  /\ Len(data) + Len(drive[Id].todo) = req.n
  /\ \A k \in 1 .. Len(data) : data[k] = Wanted(req)[k]
  /\ \A k \in 1 .. Len(drive[Id].todo) : drive[Id].todo[k] = Wanted(req)[Len(data) + k]

Works ==
  /\ Continues
  /\ ~(drive[Id].busy /\ drive[Id].drq)
  /\ drive[Id].busy \/ drive[Id].drq => ~drive[Id].err

OffersFlawed ==
  /\ drive[Id].drq /\ ~drive[Id].busy /\ drive[Id].err
  /\ drive[Id].todo = <<<<Id, Flawed>>>>

Waiting == {"busyWait", "requestWait"}

\* What the driver has selected and what it has taken, by where it is.
AtCall ==
  /\ InCall => req \in Asked
  /\ ataPc \in {"selectWait", "command", "transfer", "status"} \cup Waiting =>
       /\ reg[Channel(Id)].dev = Id % 2
       /\ reg[Channel(Id)].top = (req.lba \div (BYTE * BYTE * BYTE)) % NIBBLE
  /\ ataPc \in {"selectWait", "command"} => data = <<>>
  /\ ataPc \in {"transfer"} \cup Waiting => Len(data) < req.n

\* The drive that is meant, if it is there ...
Present ==
  /\ ataPc \in Waiting => Works \/ OffersFlawed \/ (Rests(Id) /\ drive[Id].err)
  /\ ataPc = "transfer" => drive[Id].drq /\ (Works \/ OffersFlawed)
  /\ ataPc \notin {"transfer"} \cup Waiting => Rests(Id)
  /\ ataPc = "status" => drive[Id].err \/ data = Wanted(req)

\* ... and if it is not: the driver waits, on an empty channel right from the start.
Floats == {2 * Channel(Id), 2 * Channel(Id) + 1} \cap Attached = {}
Absent ==
  /\ ataPc \in {"initialize", "select", "selectWait", "command"} \cup Waiting
  /\ InCall => req.identify
  /\ Rests(Id)
  /\ Floats => ataPc \in {"initialize", "select", "selectWait"}

AtaInv ==
  /\ AtaTypes /\ AtCall
  /\ \A d \in Drives : d # Id => Rests(d)
  /\ Id \in Attached => Present
  /\ Id \notin Attached => Absent

-----------------------------------------------------------------------------
LEMMA AtaSizes ==
  /\ BYTE \in Nat \ {0} /\ NIBBLE \in Nat \ {0} /\ TRIES \in Nat \ {0}
  /\ Id \in Drives /\ Attached \subseteq Drives
BY AtaAssumption

LEMMA AskedTypes ==
  ASSUME NEW r \in Asked
  PROVE  /\ r.identify \in BOOLEAN /\ r.lba \in Nat /\ r.n \in Nat \ {0}
         /\ r.identify => r = IdentifyRead
         /\ ~r.identify => r.lba \in 0 .. BYTE * BYTE * BYTE * NIBBLE - 1
         /\ r # Nothing
<1>1. CASE r = IdentifyRead
  BY <1>1, NothingAssumption DEF IdentifyRead
<1>2. CASE r # IdentifyRead
  <2>1. PICK q \in Reads : r = Request(q)
    BY <1>2 DEF Asked
  <2>2. q.lba \in 0 .. BYTE * BYTE * BYTE * NIBBLE - 1 /\ q.n \in 1 .. BYTE - 1
    BY AtaAssumption
  <2>3. r.lba = q.lba /\ r.n = q.n /\ r.identify = FALSE
    BY <2>1 DEF Request
  <2>4. r # Nothing
    BY <2>1, NothingAssumption
  <2>5. r.lba \in Nat /\ r.n \in Nat \ {0}
    <3> DEFINE m == BYTE * BYTE * BYTE * NIBBLE
    <3>1. q.lba \in 0 .. m - 1 /\ q.n \in 1 .. BYTE - 1
      BY <2>2
    <3> HIDE DEF m
    <3> QED
      BY <2>3, <3>1
  <2> QED
    BY <2>2, <2>3, <2>4, <2>5
<1> QED
  BY <1>1, <1>2

\* What is wanted is as many blocks as are asked for.
LEMMA WantedTypes ==
  ASSUME NEW r \in Asked
  PROVE  /\ Wanted(r) \in Seq(Blocks) /\ Len(Wanted(r)) = r.n
         /\ r.identify => Wanted(r) = <<<<Id, Identity>>>>
         /\ ~r.identify => Wanted(r) = [k \in 1 .. r.n |-> <<Id, r.lba + k - 1>>]
<1>1. Id \in Drives /\ r.lba \in Nat /\ r.n \in Nat \ {0} /\ r.identify \in BOOLEAN
  BY AtaSizes, AskedTypes
<1>2. CASE r.identify
  <2>1. Wanted(r) = <<<<Id, Identity>>>>
    BY <1>2 DEF Wanted
  <2>2. r.n = 1
    BY <1>2, AskedTypes DEF IdentifyRead
  <2>3. <<Id, Identity>> \in Blocks
    BY <1>1 DEF Blocks, Identity
  <2> QED
    BY <1>2, <2>1, <2>2, <2>3
<1>3. CASE ~r.identify
  <2>1. Wanted(r) = [k \in 1 .. r.n |-> <<Id, r.lba + k - 1>>]
    BY <1>3 DEF Wanted
  <2>2. \A k \in 1 .. r.n : <<Id, r.lba + k - 1>> \in Blocks
    BY <1>1 DEF Blocks
  <2> DEFINE n == r.n
             s == [k \in 1 .. n |-> <<Id, r.lba + k - 1>>]
  <2>3. s \in [1 .. n -> Blocks] /\ n \in Nat
    BY <1>1, <2>2
  <2> HIDE DEF s, n
  <2>4. s \in Seq(Blocks) /\ Len(s) = n
    BY <2>3
  <2> QED
    BY <1>3, <2>1, <2>4 DEF s, n
<1> QED
  BY <1>1, <1>2, <1>3

\* The address of the four registers is the sector asked for.
LEMMA AddressIsAsked ==
  ASSUME NEW a \in 0 .. BYTE * BYTE * BYTE * NIBBLE - 1, NEW r,
         r.low = a % BYTE, r.mid = (a \div BYTE) % BYTE,
         r.high = (a \div (BYTE * BYTE)) % BYTE,
         r.top = (a \div (BYTE * BYTE * BYTE)) % NIBBLE
  PROVE  AddressOf(r) = a
<1> DEFINE B == BYTE
           q1 == a \div B
           q2 == q1 \div B
           q3 == q2 \div B
<1>1. B \in Nat \ {0} /\ NIBBLE \in Nat \ {0} /\ a \in Nat /\ a < B * B * B * NIBBLE
  <2> DEFINE m == B * B * B * NIBBLE
  <2>1. B \in Nat \ {0} /\ NIBBLE \in Nat \ {0} /\ m \in Nat /\ a \in 0 .. m - 1
    BY AtaSizes
  <2> HIDE DEF m
  <2>2. a \in Nat /\ a < m
    BY <2>1
  <2> QED
    BY <2>1, <2>2 DEF m
<1>2. a = q1 * B + (a % B) /\ q1 \in Nat /\ (a % B) \in 0 .. B - 1
  BY <1>1, QuotientRemainder
<1>3. q1 = q2 * B + (q1 % B) /\ q2 \in Nat /\ (q1 % B) \in 0 .. B - 1
  <2> HIDE DEF q1, B
  <2> QED
    BY <1>1, <1>2, QuotientRemainder
<1>4. q2 = q3 * B + (q2 % B) /\ q3 \in Nat /\ (q2 % B) \in 0 .. B - 1
  <2> HIDE DEF q2, B
  <2> QED
    BY <1>1, <1>3, QuotientRemainder
<1> HIDE DEF q3
<1>5. a \div (B * B) = q2 /\ a \div (B * B * B) = q3
  <2> DEFINE r2 == (q1 % B) * B + (a % B)
             r3 == (q2 % B) * (B * B) + r2
  <2>1. B * B \in Nat \ {0} /\ B * B * B \in Nat \ {0}
    BY <1>1
  <2>2. a = q2 * (B * B) + r2 /\ r2 \in 0 .. B * B - 1
    <3> DEFINE m == q1 % B
               l == a % B
    <3>1. a = (q2 * B + m) * B + l /\ m \in 0 .. B - 1 /\ l \in 0 .. B - 1 /\ q2 \in Nat
      BY <1>2, <1>3
    <3> HIDE DEF m, l, q2, B
    <3>2. (q2 * B + m) * B + l = q2 * (B * B) + (m * B + l)
      BY <1>1, <3>1
    <3>3. m * B + l \in 0 .. B * B - 1
      <4>1. m * B + B <= B * B
        BY <1>1, <3>1, ProductOrder
      <4>2. m * B \in Nat
        BY <1>1, <3>1
      <4> QED
        BY <1>1, <3>1, <4>1, <4>2
    <3> QED
      BY <3>1, <3>2, <3>3 DEF m, l
  <2>3. a \div (B * B) = q2
    <3> HIDE DEF q2, r2, B
    <3> QED
      BY <2>1, <2>2, <1>3, QuotientOf
  <2>4. a = q3 * (B * B * B) + r3 /\ r3 \in 0 .. B * B * B - 1
    <3> DEFINE m == q2 % B
               C == B * B
    <3>1. a = (q3 * B + m) * C + r2 /\ m \in 0 .. B - 1 /\ q3 \in Nat /\ C \in Nat \ {0}
          /\ r2 \in 0 .. C - 1
      BY <1>4, <2>1, <2>2
    <3>2. C * B = B * B * B /\ B * C = B * B * B
      BY <1>1
    <3> HIDE DEF m, C, r2, B
    <3>3. (q3 * B + m) * C + r2 = q3 * (B * C) + (m * C + r2)
      BY <1>1, <3>1
    <3>4. m * C + r2 \in 0 .. B * C - 1
      <4>1. m * C + C <= B * C
        BY <1>1, <3>1, ProductOrder
      <4>2. m * C \in Nat /\ B * C \in Nat
        BY <1>1, <3>1
      <4> QED
        BY <3>1, <4>1, <4>2
    <3> QED
      BY <3>1, <3>2, <3>3, <3>4 DEF m, C
  <2>5. a \div (B * B * B) = q3
    <3> HIDE DEF r3, B
    <3> QED
      BY <2>1, <2>4, <1>4, QuotientOf
  <2> QED
    BY <2>3, <2>5
<1>6. q3 % NIBBLE = q3
  <2>1. a < NIBBLE * (B * B * B)
    <3> HIDE DEF B
    <3> QED
      BY <1>1
  <2>2. B * B * B \in Nat \ {0}
    BY <1>1
  <2>3. q3 < NIBBLE
    <3> DEFINE C == B * B * B
    <3>1. C \in Nat \ {0} /\ a < NIBBLE * C /\ a \div C = q3
      BY <1>5, <2>1, <2>2
    <3> HIDE DEF C
    <3> QED
      BY <1>1, <3>1, QuotientBelow
  <2>4. q3 = 0 * NIBBLE + q3 /\ q3 \in 0 .. NIBBLE - 1
    BY <1>1, <1>4, <2>3
  <2> QED
    BY <1>1, <2>4, QuotientOf
<1>7. r.low = a % B /\ r.mid = q1 % B /\ r.high = q2 % B /\ r.top = q3
  BY <1>5, <1>6
<1>8. AddressOf(r) = (a % B) + B * ((q1 % B) + B * ((q2 % B) + B * q3))
  BY <1>7 DEF AddressOf
<1> QED
  <2> DEFINE l == a % B
             m == q1 % B
             h == q2 % B
  <2>1. /\ a = q1 * B + l /\ q1 = q2 * B + m /\ q2 = q3 * B + h
        /\ l \in Nat /\ m \in Nat /\ h \in Nat
    BY <1>1, <1>2, <1>3, <1>4
  <2>2. AddressOf(r) = l + B * (m + B * (h + B * q3))
    BY <1>8
  <2> HIDE DEF l, m, h, q1, q2, B
  <2>3. B * (h + B * q3) = B * q2 /\ B * q2 = q2 * B
    BY <1>1, <1>3, <1>4, <2>1
  <2>4. m + B * (h + B * q3) = q1
    BY <2>1, <2>3, <1>1, <1>3
  <2> QED
    BY <1>1, <1>2, <2>1, <2>2, <2>4

-----------------------------------------------------------------------------
LEMMA InitAtaInv == AtaInit => AtaInv
<1> SUFFICES ASSUME AtaInit PROVE AtaInv
  OBVIOUS
<1> USE DEF AtaInit
<1>1. reg \in [{0, 1} -> Latches]
  BY AtaSizes DEF Channels, Latches
<1>2. drive \in [Drives -> DriveStates]
  BY DEF DriveStates
<1>3. data \in Seq(Blocks) /\ Len(data) <= req.n
  BY DEF NoRead
<1>4. AtaTypes
  BY <1>1, <1>2, <1>3, AtaSizes DEF AtaTypes
<1>5. AtCall
  BY DEF AtCall, InCall, Waiting
<1>6. \A d \in Drives : Rests(d)
  BY DEF Rests
<1>7. Present /\ Absent
  BY <1>6, AtaSizes DEF Present, Absent, InCall, Waiting
<1> QED
  BY <1>4, <1>5, <1>6, <1>7 DEF AtaInv

\* Of the drives only the one meant ever gets on with anything.
LEMMA OnlyMeant ==
  ASSUME AtaInv, NEW d \in Drives, drive[d].busy \/ drive[d].todo # <<>>
  PROVE  d = Id
BY DEF AtaInv, Rests

\* With the drive meant selected, its status is the one read.
LEMMA HereIsMeant ==
  ASSUME AtaInv, reg[Channel(Id)].dev = Id % 2
  PROVE  /\ Selected(Channel(Id)) = Id /\ Channel(Id) \in {0, 1}
         /\ Id \in Attached => Here = drive[Id]
         /\ Id \notin Attached => (Here.busy <=> Floats) /\ (Here.drq <=> Floats)
<1>1. Id \in 0 .. 3
  BY AtaSizes DEF Drives
<1>2. 2 * Channel(Id) + (Id % 2) = Id /\ Channel(Id) \in {0, 1}
  <2>1. Id = 0 \/ Id = 1 \/ Id = 2 \/ Id = 3
    BY <1>1
  <2>2. 0 % 2 = 0 /\ 1 % 2 = 1 /\ 2 % 2 = 0 /\ 3 % 2 = 1
    OBVIOUS
  <2> QED
    BY <2>1, <2>2 DEF Channel
<1>3. Selected(Channel(Id)) = Id
  <2> DEFINE c == Channel(Id)
             m == Id % 2
  <2>1. c \in Int /\ m \in Int /\ 2 * c + m = Id /\ reg[c].dev = m
    BY <1>1, <1>2
  <2>2. Selected(c) = 2 * c + reg[c].dev
    BY DEF Selected
  <2> HIDE DEF c, m
  <2>3. Selected(c) = Id
    BY <2>1, <2>2
  <2> QED
    BY <2>3 DEF c
<1> QED
  BY <1>2, <1>3 DEF Here, Status, Floats

-----------------------------------------------------------------------------
\* The steps of the drives.
LEMMA GoBusyAta == ASSUME AtaInv, NEW d \in Drives, GoBusy(d) PROVE AtaInv'
<1> USE DEF AtaInv, GoBusy
<1>1. d = Id /\ Id \in Attached
  <2>1. d = Id
    BY OnlyMeant
  <2> QED
    BY <2>1 DEF Absent, Rests
<1>2. /\ drive' = [drive EXCEPT ![Id].busy = TRUE, ![Id].err = FALSE]
      /\ UNCHANGED <<reg, ataPc, req, try, data>>
  BY <1>1
<1>3. Id \in Drives /\ drive[Id] \in DriveStates /\ drive \in [Drives -> DriveStates]
  BY AtaSizes DEF AtaTypes
<1>4. /\ drive'[Id].todo = drive[Id].todo /\ drive'[Id].busy = TRUE
      /\ drive'[Id].drq = FALSE /\ drive'[Id].err = FALSE
      /\ drive' \in [Drives -> DriveStates]
  <2> DEFINE s == [drive[Id] EXCEPT !.busy = TRUE, !.err = FALSE]
  <2>1. drive' = [drive EXCEPT ![Id] = s]
    BY <1>2
  <2>2. s \in DriveStates /\ s.todo = drive[Id].todo /\ s.busy = TRUE /\ s.err = FALSE
        /\ s.drq = FALSE
    BY <1>1, <1>3 DEF DriveStates
  <2> HIDE DEF s
  <2> QED
    BY <1>3, <2>1, <2>2
<1>5. AtaTypes'
  BY <1>2, <1>4 DEF AtaTypes
<1>6. AtCall'
  BY <1>2 DEF AtCall, InCall
<1>7. \A e \in Drives : e # Id => Rests(e)'
  BY <1>2, <1>3 DEF Rests
<1>8. Present'
  <2>1. ataPc \in Waiting /\ Works
    BY <1>1 DEF Present, Rests, OffersFlawed
  <2>2. Works'
    <3>1. Continues
      BY <2>1 DEF Works
    <3>2. UNCHANGED <<req, data>> /\ drive'[Id].todo = drive[Id].todo
      BY <1>2, <1>4
    <3>3. Continues'
      BY <3>1, <3>2 DEF Continues
    <3> QED
      BY <1>4, <3>3 DEF Works
  <2> QED
    BY <1>2, <2>1, <2>2 DEF Present, Waiting
<1> QED
  BY <1>1, <1>5, <1>6, <1>7, <1>8

LEMMA OfferAta == ASSUME AtaInv, NEW d \in Drives, Offer(d) PROVE AtaInv'
<1> USE DEF AtaInv
<1>1. d = Id /\ Id \in Attached /\ drive[Id].busy
  <2>1. d = Id /\ drive[d].busy
    BY OnlyMeant DEF Offer
  <2> QED
    BY <2>1 DEF Absent, Rests
<1>2. /\ UNCHANGED <<reg, ataPc, req, try, data>>
      /\ \/ drive' = [drive EXCEPT ![Id].busy = FALSE, ![Id].drq = TRUE]
         \/ drive' = [drive EXCEPT ![Id] = [busy |-> FALSE, drq |-> TRUE, err |-> TRUE,
                                            todo |-> <<<<Id, Flawed>>>>]]
         \/ drive' = [drive EXCEPT ![Id] = [busy |-> FALSE, drq |-> FALSE, err |-> TRUE,
                                            todo |-> <<>>]]
  BY <1>1 DEF Offer
<1>3. Id \in Drives /\ drive[Id] \in DriveStates /\ drive \in [Drives -> DriveStates]
  BY AtaSizes DEF AtaTypes
<1>4. ataPc \in Waiting /\ Works /\ ~drive[Id].drq /\ ~drive[Id].err
  BY <1>1 DEF Present, Rests, OffersFlawed, Works
<1>5. <<<<Id, Flawed>>>> \in Seq(Blocks)
  BY <1>3 DEF Blocks, Flawed
<1>6. /\ drive' \in [Drives -> DriveStates]
      /\ \A e \in Drives : e # Id => drive'[e] = drive[e]
  <2>1. PICK s \in DriveStates : drive' = [drive EXCEPT ![Id] = s]
    <3>1. [drive[Id] EXCEPT !.busy = FALSE, !.drq = TRUE] \in DriveStates
      BY <1>3 DEF DriveStates
    <3>2. CASE drive' = [drive EXCEPT ![Id].busy = FALSE, ![Id].drq = TRUE]
      BY <3>1, <3>2
    <3>3. /\ [busy |-> FALSE, drq |-> TRUE, err |-> TRUE, todo |-> <<<<Id, Flawed>>>>] \in DriveStates
          /\ [busy |-> FALSE, drq |-> FALSE, err |-> TRUE, todo |-> <<>>] \in DriveStates
      BY <1>5 DEF DriveStates
    <3> QED
      BY <1>2, <3>2, <3>3
  <2> QED
    BY <1>3, <2>1
<1>7. AtaTypes'
  BY <1>2, <1>6 DEF AtaTypes
<1>8. AtCall'
  BY <1>2 DEF AtCall, InCall
<1>9. \A e \in Drives : e # Id => Rests(e)'
  BY <1>6 DEF Rests
<1>10. (Works \/ OffersFlawed \/ (Rests(Id) /\ drive[Id].err))'
  <2>1. CASE drive' = [drive EXCEPT ![Id].busy = FALSE, ![Id].drq = TRUE]
    <3>1. /\ drive'[Id].todo = drive[Id].todo /\ drive'[Id].busy = FALSE
          /\ drive'[Id].err = drive[Id].err
      BY <1>3, <2>1 DEF DriveStates
    <3> QED
      BY <1>2, <1>4, <3>1 DEF Works, Continues
  <2>2. CASE drive' = [drive EXCEPT ![Id] = [busy |-> FALSE, drq |-> TRUE, err |-> TRUE,
                                             todo |-> <<<<Id, Flawed>>>>]]
    BY <1>3, <2>2 DEF OffersFlawed
  <2>3. CASE drive' = [drive EXCEPT ![Id] = [busy |-> FALSE, drq |-> FALSE, err |-> TRUE,
                                             todo |-> <<>>]]
    BY <1>3, <2>3 DEF Rests
  <2> QED
    BY <1>2, <2>1, <2>2, <2>3
<1>11. Present'
  BY <1>2, <1>4, <1>10 DEF Present, Waiting
<1> QED
  BY <1>1, <1>7, <1>8, <1>9, <1>11

-----------------------------------------------------------------------------
\* The steps of the driver that leave the hardware alone.
LEMMA CallAta == ASSUME AtaInv, Initialize \/ ReadSectors PROVE AtaInv'
<1> USE DEF AtaInv
<1>1. PICK r \in Asked : AtaCall(r) /\ (ataPc = "initialize" => r = IdentifyRead)
  BY DEF Initialize, ReadSectors, Asked
<1>2. /\ UNCHANGED <<reg, drive>> /\ req' = r /\ try' = 0 /\ data' = <<>> /\ ataPc' = "select"
      /\ ataPc \in {"initialize", "idle"}
  BY <1>1 DEF Initialize, ReadSectors, AtaCall, hardware
<1>3. r.n \in Nat \ {0}
  BY AskedTypes
<1>4. AtaTypes'
  BY <1>2, <1>3, AtaSizes DEF AtaTypes
<1>5. AtCall'
  BY <1>2 DEF AtCall, Waiting
<1>6. \A d \in Drives : Rests(d)' = Rests(d)
  BY <1>2 DEF Rests
<1>7. Id \in Attached => Present'
  BY <1>2, <1>6, AtaSizes DEF Present, Waiting
<1>8. Id \notin Attached => Absent'
  <2> SUFFICES ASSUME Id \notin Attached PROVE Absent'
    OBVIOUS
  <2>1. ataPc = "initialize"
    BY <1>2 DEF Absent, Waiting
  <2> QED
    BY <1>1, <1>2, <1>6, <2>1, AtaSizes DEF Absent, Waiting, IdentifyRead
<1> QED
  BY <1>4, <1>5, <1>6, <1>7, <1>8

LEMMA ConvertAta == ASSUME AtaInv, AtaConvert PROVE AtaInv'
<1> USE DEF AtaInv
<1>1. /\ UNCHANGED <<reg, drive, req, try, data>> /\ ataPc = "select" /\ ataPc' = "fault"
      /\ ~req.identify
  BY DEF AtaConvert, hardware
<1>2. AtaTypes'
  BY <1>1 DEF AtaTypes
<1>3. AtCall'
  BY <1>1 DEF AtCall, Waiting, InCall
<1>4. \A d \in Drives : Rests(d)' = Rests(d)
  BY <1>1 DEF Rests
<1>5. Id \in Attached => Present'
  BY <1>1, <1>4, AtaSizes DEF Present, Waiting
<1>6. Id \in Attached
  BY <1>1 DEF Absent, InCall
<1> QED
  BY <1>2, <1>3, <1>4, <1>5, <1>6

LEMMA WaitAta == ASSUME AtaInv, SelectWait \/ BusyWait \/ RequestWait PROVE AtaInv'
<1> USE DEF AtaInv
<1>1. /\ UNCHANGED <<reg, drive, req, try, data>>
      /\ \/ ataPc = "selectWait" /\ ataPc' = "command" /\ ~Here.busy
         \/ ataPc = "busyWait" /\ ataPc' = "requestWait"
         \/ ataPc = "requestWait" /\ ataPc' = "transfer" /\ Here.drq
  BY DEF SelectWait, BusyWait, RequestWait, hardware
<1>2. AtaTypes'
  BY <1>1 DEF AtaTypes
<1>3. AtCall'
  BY <1>1 DEF AtCall, Waiting, InCall
<1>4. \A d \in Drives : Rests(d)' = Rests(d)
  BY <1>1 DEF Rests
<1>5. reg[Channel(Id)].dev = Id % 2
  BY <1>1 DEF AtCall, Waiting
<1>6. /\ Id \in Attached => Here = drive[Id]
      /\ Id \notin Attached => (Here.busy <=> Floats) /\ (Here.drq <=> Floats)
  BY <1>5, HereIsMeant
<1>7. Works' = Works /\ OffersFlawed' = OffersFlawed
  BY <1>1 DEF Works, OffersFlawed, Continues
<1>8. Id \in Attached => Present'
  BY <1>1, <1>4, <1>6, <1>7, AtaSizes DEF Present, Waiting, Rests
<1>9. Id \notin Attached => Absent'
  BY <1>1, <1>4, <1>6, AtaSizes DEF Absent, Waiting, InCall
<1> QED
  BY <1>2, <1>3, <1>4, <1>8, <1>9

LEMMA StatusAta == ASSUME AtaInv, StatusRead PROVE AtaInv'
<1> USE DEF AtaInv
<1>1. /\ UNCHANGED <<reg, drive, req, data>> /\ ataPc = "status"
      /\ ataPc' \in {"idle", "end", "select"}
      /\ try' = try \/ (try' = try + 1 /\ try + 1 < TRIES)
  BY DEF StatusRead, hardware, Return
<1>2. AtaTypes'
  BY <1>1, AtaSizes DEF AtaTypes
<1>3. AtCall'
  BY <1>1 DEF AtCall, Waiting, InCall
<1>4. \A d \in Drives : Rests(d)' = Rests(d)
  BY <1>1 DEF Rests
<1>5. Id \in Attached /\ Present'
  <2>1. Id \in Attached
    BY <1>1 DEF Absent, Waiting
  <2> QED
    BY <1>1, <1>4, <2>1, AtaSizes DEF Present, Waiting
<1> QED
  BY <1>2, <1>3, <1>4, <1>5

-----------------------------------------------------------------------------
\* The steps of the driver that write registers or take data.
LEMMA SelectAta == ASSUME AtaInv, Select PROVE AtaInv'
<1> USE DEF AtaInv
<1> DEFINE c == Channel(Id)
           top == (req.lba \div (BYTE * BYTE * BYTE)) % NIBBLE
<1>1. /\ reg' = [reg EXCEPT ![c].dev = Id % 2, ![c].top = top]
      /\ data' = <<>> /\ ataPc = "select" /\ ataPc' = "selectWait"
      /\ UNCHANGED <<drive, req, try>>
  BY DEF Select
<1>2. req \in Asked /\ req.lba \in Nat /\ req.n \in Nat \ {0}
  <2>1. req \in Asked
    BY <1>1 DEF AtCall, InCall
  <2> QED
    BY <2>1, AskedTypes
<1>3. c \in {0, 1} /\ Id % 2 \in {0, 1}
  BY AtaSizes DEF Channel, Drives
<1>4. top \in 0 .. NIBBLE - 1
  <2>1. BYTE * BYTE * BYTE \in Nat \ {0} /\ NIBBLE \in Nat \ {0}
    BY AtaSizes
  <2> DEFINE B == BYTE * BYTE * BYTE
             q == req.lba \div B
  <2>2. q \in Nat
    <3> HIDE DEF B
    <3> QED
      BY <1>2, <2>1, QuotientRemainder DEF B
  <2> HIDE DEF q
  <2>3. q % NIBBLE \in 0 .. NIBBLE - 1
    BY <2>1, <2>2, QuotientRemainder
  <2> QED
    BY <2>3 DEF q
<1> HIDE DEF c, top
<1>5. reg' \in [{0, 1} -> Latches] /\ reg'[c].dev = Id % 2 /\ reg'[c].top = top
  <2> DEFINE s == [reg[c] EXCEPT !.dev = Id % 2, !.top = top]
  <2>1. reg' = [reg EXCEPT ![c] = s]
    BY <1>1
  <2>2. reg \in [{0, 1} -> Latches] /\ reg[c] \in Latches
    BY <1>3 DEF AtaTypes
  <2>3. s \in Latches /\ s.dev = Id % 2 /\ s.top = top
    BY <1>3, <1>4, <2>2 DEF Latches
  <2> HIDE DEF s
  <2> QED
    BY <1>3, <2>1, <2>2, <2>3
<1>6. AtaTypes'
  BY <1>1, <1>2, <1>5 DEF AtaTypes
<1>7. AtCall'
  BY <1>1, <1>2, <1>5 DEF AtCall, Waiting, c, top
<1>8. \A d \in Drives : Rests(d)' = Rests(d)
  BY <1>1 DEF Rests
<1>9. Id \in Attached => Present'
  BY <1>1, <1>8, AtaSizes DEF Present, Waiting
<1>10. Id \notin Attached => Absent'
  BY <1>1, <1>8, AtaSizes DEF Absent, Waiting, InCall
<1> QED
  BY <1>6, <1>7, <1>8, <1>9, <1>10

LEMMA InNat ==
  ASSUME NEW w \in Nat \ {0}, NEW n \in Nat
  PROVE  n \div w \in Nat /\ n % w \in Nat
BY QuotientRemainder

LEMMA CommandAta == ASSUME AtaInv, Command PROVE AtaInv'
<1> USE DEF AtaInv
<1> DEFINE c == Channel(Id)
           r == Registers(reg[c], req)
           blocks == IF req.identify THEN <<<<Id, Identity>>>>
                     ELSE [k \in 1 .. r.count |-> <<Id, AddressOf(r) + k - 1>>]
<1>0. ataPc = "command" /\ ataPc' = "busyWait" /\ UNCHANGED <<req, try, data>>
      /\ reg' = [reg EXCEPT ![c] = r] /\ Accept(c, reg'[c], req.identify)
  BY DEF Command
<1>1. /\ req \in Asked /\ req.lba \in Nat /\ req.n \in Nat \ {0} /\ req.identify \in BOOLEAN
      /\ data = <<>> /\ reg[c].dev = Id % 2
      /\ reg[c].top = (req.lba \div (BYTE * BYTE * BYTE)) % NIBBLE
  <2>1. /\ req \in Asked /\ data = <<>> /\ reg[c].dev = Id % 2
        /\ reg[c].top = (req.lba \div (BYTE * BYTE * BYTE)) % NIBBLE
    BY <1>0 DEF AtCall, InCall
  <2> QED
    BY <2>1, AskedTypes
<1>2. c \in {0, 1} /\ 2 * c + (Id % 2) = Id
  <2>1. Selected(c) = Id /\ c \in {0, 1}
    BY <1>1, HereIsMeant
  <2> QED
    BY <1>1, <2>1 DEF Selected
<1>3. reg \in [{0, 1} -> Latches] /\ reg[c] \in Latches
  BY <1>2 DEF AtaTypes
<1>4. /\ r \in Latches /\ r.dev = reg[c].dev /\ r.top = reg[c].top
      /\ ~req.identify => /\ r.count = req.n /\ r.low = req.lba % BYTE
                          /\ r.mid = (req.lba \div BYTE) % BYTE
                          /\ r.high = (req.lba \div (BYTE * BYTE)) % BYTE
  <2>1. CASE req.identify
    BY <1>1, <1>3, <2>1 DEF Registers, Latches
  <2>2. CASE ~req.identify
    <3> DEFINE low == req.lba % BYTE
               mid == (req.lba \div BYTE) % BYTE
               high == (req.lba \div (BYTE * BYTE)) % BYTE
    <3>1. low \in Nat /\ mid \in Nat /\ high \in Nat
      <4>1. BYTE \in Nat \ {0}
        BY AtaSizes
      <4> DEFINE q == req.lba \div BYTE
                 B == BYTE * BYTE
      <4>2. low \in Nat /\ q \in Nat
        BY <1>1, <4>1, InNat
      <4>3. B \in Nat \ {0}
        BY <4>1
      <4> HIDE DEF B, q
      <4>4. req.lba \div B \in Nat
        BY <1>1, <4>3, InNat
      <4>5. q % BYTE \in Nat /\ (req.lba \div B) % BYTE \in Nat
        BY <4>1, <4>2, <4>4, InNat
      <4> QED
        BY <4>2, <4>5 DEF B, q
    <3>2. r = [reg[c] EXCEPT !.count = req.n, !.low = low, !.mid = mid, !.high = high]
      BY <2>2 DEF Registers
    <3> HIDE DEF low, mid, high
    <3>3. r \in Latches /\ r.dev = reg[c].dev /\ r.top = reg[c].top
          /\ r.count = req.n /\ r.low = low /\ r.mid = mid /\ r.high = high
      BY <1>1, <1>3, <3>1, <3>2 DEF Latches
    <3> QED
      BY <3>3 DEF low, mid, high
  <2> QED
    BY <1>1, <2>1, <2>2
<1>5. blocks = Wanted(req)
  <2>1. CASE req.identify
    BY <1>1, <2>1, WantedTypes
  <2>2. CASE ~req.identify
    <3>1. req.lba \in 0 .. BYTE * BYTE * BYTE * NIBBLE - 1
      BY <1>1, <2>2, AskedTypes
    <3>2. AddressOf(r) = req.lba
      <4> HIDE DEF r
      <4> QED
        BY <1>1, <1>4, <2>2, <3>1, AddressIsAsked
    <3> QED
      BY <1>1, <1>4, <2>2, <3>2, WantedTypes
  <2> QED
    BY <1>1, <2>1, <2>2
<1> HIDE DEF c, r, blocks
<1>6. reg' \in [{0, 1} -> Latches] /\ reg'[c] = r
  BY <1>0, <1>2, <1>3, <1>4
<1>7. drive' = [drive EXCEPT ![Id].todo = IF Id \in Attached THEN Wanted(req) ELSE <<>>]
  <2>1. 2 * c + reg'[c].dev = Id
    BY <1>1, <1>2, <1>4, <1>6
  <2> DEFINE d == Id
             q == reg'[c]
  <2>2. Accept(c, r, req.identify) /\ d = 2 * c + r.dev
    BY <1>0, <1>6, <2>1
  <2> HIDE DEF d
  <2>3. drive' = [drive EXCEPT ![d].todo =
                    IF d \in Attached THEN IF req.identify THEN <<<<d, Identity>>>>
                                           ELSE [k \in 1 .. r.count |-> <<d, AddressOf(r) + k - 1>>]
                    ELSE <<>>]
    BY ONLY <2>2, ZenonT(60) DEF Accept
  <2> QED
    BY <1>5, <2>3 DEF d, blocks
<1>8. /\ drive' \in [Drives -> DriveStates]
      /\ \A d \in Drives : d # Id => drive'[d] = drive[d]
      /\ drive'[Id].busy = drive[Id].busy /\ drive'[Id].drq = drive[Id].drq
      /\ drive'[Id].todo = IF Id \in Attached THEN Wanted(req) ELSE <<>>
  <2> DEFINE todo == IF Id \in Attached THEN Wanted(req) ELSE <<>>
             s == [drive[Id] EXCEPT !.todo = todo]
  <2>1. todo \in Seq(Blocks)
    BY <1>1, WantedTypes
  <2>2. drive' = [drive EXCEPT ![Id] = s] /\ drive \in [Drives -> DriveStates] /\ Id \in Drives
    BY <1>7, AtaSizes DEF AtaTypes
  <2> HIDE DEF todo
  <2>3. /\ s \in DriveStates /\ s.todo = todo /\ s.busy = drive[Id].busy
        /\ s.drq = drive[Id].drq
    BY <2>1, <2>2 DEF DriveStates
  <2> HIDE DEF s
  <2> QED
    BY <2>2, <2>3 DEF todo
<1>9. AtaTypes'
  BY <1>0, <1>6, <1>8 DEF AtaTypes
<1>10. AtCall'
  BY <1>0, <1>1, <1>4, <1>6 DEF AtCall, Waiting, c
<1>11. \A d \in Drives : d # Id => Rests(d)'
  BY <1>8 DEF Rests
<1>12. Rests(Id)
  BY <1>0 DEF Present, Absent, Waiting
<1>13. Id \in Attached => Present'
  <2> SUFFICES ASSUME Id \in Attached PROVE Works'
    BY <1>0 DEF Present, Waiting
  <2>1. Len(Wanted(req)) = req.n /\ Wanted(req) \in Seq(Blocks)
    BY <1>1, WantedTypes
  <2>2. Continues'
    BY <1>0, <1>1, <1>8, <2>1 DEF Continues
  <2> QED
    BY <1>8, <1>12, <2>2 DEF Works, Rests
<1>14. Id \notin Attached => Absent'
  BY <1>0, <1>8, <1>12 DEF Absent, Waiting, InCall, Rests
<1> QED
  BY <1>9, <1>10, <1>11, <1>13, <1>14

\* The block taken is the next one wanted, or the flawed one with its error.
LEMMA TransferAta == ASSUME AtaInv, Transfer PROVE AtaInv'
<1> USE DEF AtaInv
<1>0. /\ ataPc = "transfer" /\ UNCHANGED <<reg, req, try>>
      /\ ataPc' = IF Len(data') < req.n THEN "busyWait" ELSE "status"
  BY DEF Transfer
<1>1. Id \in Attached /\ Id \in Drives
  BY <1>0, AtaSizes DEF Absent, Waiting
<1>2. drive[Id].drq /\ (Works \/ OffersFlawed)
  BY <1>0, <1>1 DEF Present
<1>3. /\ req \in Asked /\ reg[Channel(Id)].dev = Id % 2 /\ Len(data) < req.n
      /\ data \in Seq(Blocks) /\ req.n \in Nat \ {0}
  <2>1. req \in Asked /\ reg[Channel(Id)].dev = Id % 2 /\ Len(data) < req.n
    BY <1>0 DEF AtCall, InCall
  <2>2. data \in Seq(Blocks)
    BY DEF AtaTypes
  <2> QED
    BY <2>1, <2>2, AskedTypes
<1>4. Selected(Channel(Id)) = Id
  BY <1>3, HereIsMeant
<1>5. /\ data' = Append(data, Head(drive[Id].todo))
      /\ drive' = [drive EXCEPT ![Id].drq = FALSE, ![Id].todo = Tail(@)]
  BY <1>1, <1>2, <1>4, Zenon DEF Transfer
<1>6. /\ drive \in [Drives -> DriveStates] /\ drive[Id] \in DriveStates
      /\ drive[Id].todo \in Seq(Blocks)
  <2>1. drive \in [Drives -> DriveStates]
    BY DEF AtaTypes
  <2> QED
    BY <1>1, <2>1 DEF DriveStates
<1>7. drive[Id].todo # <<>>
  <2>1. CASE Works
    <3>1. Len(drive[Id].todo) > 0
      BY <1>3, <1>6, <2>1 DEF Works, Continues
    <3> QED
      BY <3>1
  <2>2. CASE OffersFlawed
    BY <2>2 DEF OffersFlawed
  <2> QED
    BY <1>2, <2>1, <2>2
<1> DEFINE todo == drive[Id].todo
<1>8. /\ drive' \in [Drives -> DriveStates]
      /\ \A d \in Drives : d # Id => drive'[d] = drive[d]
      /\ drive'[Id].todo = Tail(todo) /\ drive'[Id].drq = FALSE
      /\ drive'[Id].busy = drive[Id].busy /\ drive'[Id].err = drive[Id].err
  <2> DEFINE s == [drive[Id] EXCEPT !.drq = FALSE, !.todo = Tail(todo)]
  <2>1. Tail(todo) \in Seq(Blocks)
    BY <1>6, <1>7
  <2>2. /\ s \in DriveStates /\ s.todo = Tail(todo) /\ s.drq = FALSE
        /\ s.busy = drive[Id].busy /\ s.err = drive[Id].err
    BY <1>6, <2>1 DEF DriveStates
  <2>3. drive' = [drive EXCEPT ![Id] = s]
    BY <1>5
  <2> HIDE DEF s, todo
  <2> QED
    BY <1>1, <1>6, <2>2, <2>3
<1>9. /\ data' \in Seq(Blocks) /\ Len(data') = Len(data) + 1
      /\ \A k \in 1 .. Len(data) : data'[k] = data[k]
      /\ data'[Len(data) + 1] = todo[1]
  <2>1. Head(todo) \in Blocks /\ Head(todo) = todo[1]
    BY <1>6, <1>7
  <2> HIDE DEF todo
  <2>2. data' = Append(data, Head(todo))
    BY <1>5 DEF todo
  <2> QED
    BY <1>3, <2>1, <2>2
<1>10. AtaTypes'
  BY <1>0, <1>3, <1>8, <1>9 DEF AtaTypes
<1>11. AtCall'
  BY <1>0, <1>3, <1>9 DEF AtCall, Waiting, InCall
<1>12. \A d \in Drives : d # Id => Rests(d)'
  BY <1>8 DEF Rests
<1>13. Works => Works'
  <2> SUFFICES ASSUME Works PROVE Works'
    OBVIOUS
  <2> HIDE DEF todo
  <2>1. todo \in Seq(Blocks) /\ todo # <<>> /\ Len(todo) \in Nat /\ Len(data) \in Nat
    BY <1>3, <1>6, <1>7 DEF todo
  <2>2. /\ Len(data) + Len(todo) = req.n
        /\ \A k \in 1 .. Len(data) : data[k] = Wanted(req)[k]
        /\ \A k \in 1 .. Len(todo) : todo[k] = Wanted(req)[Len(data) + k]
        /\ ~drive[Id].err /\ ~drive[Id].busy
    BY <1>2 DEF Works, Continues, todo
  <2>3. /\ Len(Tail(todo)) = Len(todo) - 1 /\ Len(todo) \in Nat \ {0}
        /\ \A k \in 1 .. Len(Tail(todo)) : Tail(todo)[k] = todo[k + 1]
    BY <2>1
  <2>4. Len(data') + Len(drive'[Id].todo) = req.n
    BY <1>8, <1>9, <2>1, <2>2, <2>3
  <2>5. \A k \in 1 .. Len(data') : data'[k] = Wanted(req)[k]
    <3> SUFFICES ASSUME NEW k \in 1 .. Len(data') PROVE data'[k] = Wanted(req)[k]
      OBVIOUS
    <3>1. k \in 1 .. Len(data) \/ k = Len(data) + 1
      BY <1>9, <2>1
    <3>2. todo[1] = Wanted(req)[Len(data) + 1]
      BY <2>2, <2>3
    <3> QED
      BY <1>9, <2>2, <3>1, <3>2
  <2>6. ASSUME NEW k \in 1 .. Len(drive'[Id].todo)
        PROVE  drive'[Id].todo[k] = Wanted(req)[Len(data') + k]
    <3>1. k \in 1 .. Len(todo) - 1 /\ drive'[Id].todo[k] = todo[k + 1]
      BY <1>8, <2>3
    <3>2. k + 1 \in 1 .. Len(todo)
      BY <2>1, <3>1
    <3>3. todo[k + 1] = Wanted(req)[Len(data) + (k + 1)]
      BY <2>2, <3>2
    <3>4. Len(data) + (k + 1) = Len(data') + k
      BY <1>9, <2>1, <3>1
    <3> QED
      BY <3>1, <3>3, <3>4
  <2>7. req' = req
    BY <1>0
  <2> QED
    BY <1>8, <2>2, <2>4, <2>5, <2>6, <2>7 DEF Works, Continues
<1>14. ~drive[Id].busy
  BY <1>2 DEF Works, OffersFlawed
<1>15. OffersFlawed => (Rests(Id) /\ drive[Id].err)'
  <2> SUFFICES ASSUME OffersFlawed PROVE (Rests(Id) /\ drive[Id].err)'
    OBVIOUS
  <2>1. Tail(todo) = <<>>
    BY DEF OffersFlawed
  <2> QED
    BY <1>8, <2>1 DEF OffersFlawed, Rests
<1>16. CASE Len(data') < req.n
  <2>1. ataPc' = "busyWait"
    BY <1>0, <1>16
  <2> QED
    BY <1>1, <1>2, <1>10, <1>11, <1>12, <1>13, <1>15, <2>1 DEF Present, Waiting
<1>17. CASE ~(Len(data') < req.n)
  <2>1. ataPc' = "status" /\ Len(data') = req.n
    BY <1>0, <1>3, <1>9, <1>17
  <2>2. CASE Works
    <3>1. /\ Len(data') + Len(drive'[Id].todo) = req.n
          /\ \A k \in 1 .. Len(data') : data'[k] = Wanted(req)[k]
      BY <1>0, <1>13, <2>2 DEF Works, Continues
    <3>2. drive'[Id].todo = <<>>
      <4>1. drive'[Id].todo \in Seq(Blocks)
        <5>1. drive'[Id] \in DriveStates
          BY <1>1, <1>8
        <5> QED
          BY <5>1 DEF DriveStates
      <4>2. Len(drive'[Id].todo) = 0
        BY <1>3, <2>1, <3>1, <4>1
      <4> QED
        BY <4>1, <4>2
    <3>3. Rests(Id)'
      BY <1>8, <1>14, <3>2 DEF Rests
    <3>4. data' = Wanted(req)
      BY <1>3, <1>9, <2>1, <3>1, WantedTypes
    <3> QED
      BY <1>0, <1>1, <1>10, <1>11, <1>12, <2>1, <3>3, <3>4 DEF Present, Waiting
  <2>3. CASE OffersFlawed
    BY <1>1, <1>10, <1>11, <1>12, <1>15, <2>1, <2>3 DEF Present, Waiting
  <2> QED
    BY <1>2, <2>2, <2>3
<1> QED
  BY <1>16, <1>17

LEMMA AtaStep == ASSUME AtaInv, [AtaNext]_ataVars PROVE AtaInv'
<1>1. CASE UNCHANGED ataVars
  <2>1. UNCHANGED <<reg, drive, ataPc, req, try, data>>
    BY <1>1 DEF ataVars
  <2> QED
    BY <2>1 DEF AtaInv, AtaTypes, AtCall, Rests, Present, Absent, Works, OffersFlawed,
                Continues, InCall
<1>2. CASE ReadSectors \/ Initialize
  BY <1>2, CallAta
<1>3. CASE AtaConvert
  BY <1>3, ConvertAta
<1>4. CASE Select
  BY <1>4, SelectAta
<1>5. CASE SelectWait \/ BusyWait \/ RequestWait
  BY <1>5, WaitAta
<1>6. CASE Command
  BY <1>6, CommandAta
<1>7. CASE Transfer
  BY <1>7, TransferAta
<1>8. CASE StatusRead
  BY <1>8, StatusAta
<1>9. CASE DriveStep
  <2>1. PICK d \in Attached : GoBusy(d) \/ Offer(d)
    BY <1>9 DEF DriveStep
  <2>2. d \in Drives
    BY AtaSizes
  <2> QED
    BY <2>1, <2>2, GoBusyAta, OfferAta
<1> QED
  BY <1>1, <1>2, <1>3, <1>4, <1>5, <1>6, <1>7, <1>8, <1>9 DEF AtaNext, DriverStep

-----------------------------------------------------------------------------
\* What the invariant promises.
LEMMA AtaTyped == AtaInv => AtaTypeOK
<1> SUFFICES ASSUME AtaInv PROVE AtaTypeOK
  OBVIOUS
<1>1. AtaTypes
  BY DEF AtaInv
<1>2. \A c \in {0, 1} : reg[c].dev \in {0, 1} /\ reg[c].top < NIBBLE
  BY <1>1, AtaSizes DEF AtaTypes, Latches
<1>3. \A d \in Drives : {drive[d].busy, drive[d].drq, drive[d].err} \subseteq BOOLEAN
  BY <1>1 DEF AtaTypes, DriveStates
<1> QED
  BY <1>1, <1>2, <1>3 DEF AtaTypes, AtaTypeOK

\* A step of the driver is a step of the service, or none.
LEMMA AtaServes ==
  ASSUME AtaInv, [AtaNext]_ataVars
  PROVE  [Service!Call \/ Service!Return]_<<IF InCall THEN req ELSE Nothing, ataResult>>
<1>1. CASE UNCHANGED <<ataPc, req, ataResult>>
  BY <1>1 DEF InCall
<1>2. CASE ReadSectors \/ Initialize
  <2>1. PICK r \in Asked : AtaCall(r)
    BY <1>2 DEF Initialize, ReadSectors, Asked
  <2>2. ~InCall /\ InCall' /\ req' = r /\ ataResult' = Pending
    BY <1>2, <2>1 DEF Initialize, ReadSectors, AtaCall, InCall
  <2> QED
    BY <2>1, <2>2 DEF Service!Call, Asked
<1>3. CASE AtaConvert \/ Select \/ SelectWait \/ Command \/ BusyWait \/ RequestWait \/ Transfer
  <2>1. InCall /\ InCall' /\ UNCHANGED <<req, ataResult>>
    BY <1>3 DEF AtaConvert, Select, SelectWait, Command, BusyWait, RequestWait, Transfer, InCall
  <2> QED
    BY <2>1
<1>4. CASE StatusRead
  <2>1. InCall /\ UNCHANGED req /\ req # Nothing /\ reg[Channel(Id)].dev = Id % 2
        /\ Id \in Attached /\ (drive[Id].err \/ data = Wanted(req))
    <3>1. ataPc = "status" /\ UNCHANGED req
      BY <1>4 DEF StatusRead
    <3>2. InCall /\ req \in Asked /\ reg[Channel(Id)].dev = Id % 2
      BY <3>1 DEF InCall, AtaInv, AtCall
    <3>3. Id \in Attached
      BY <3>1 DEF AtaInv, Absent, Waiting
    <3>4. drive[Id].err \/ data = Wanted(req)
      BY <3>1, <3>3 DEF AtaInv, Present
    <3> QED
      BY <3>1, <3>2, <3>3, <3>4, AskedTypes
  <2>2. Here = drive[Id]
    BY <2>1, HereIsMeant
  <2>3. CASE InCall'
    <3>1. ataResult' = ataResult
      BY <1>4, <2>3 DEF StatusRead, Return, InCall
    <3> QED
      BY <2>1, <2>3, <3>1
  <2>4. CASE ~InCall'
    <3>1. ataResult' = Error \/ (ataResult' = data /\ ~Here.err)
      BY <1>4, <2>4 DEF StatusRead, Return, InCall
    <3>2. ataResult' \in {Wanted(req), Error}
      BY <2>1, <2>2, <3>1
    <3> QED
      BY <2>1, <2>4, <3>2 DEF Service!Return
  <2> QED
    BY <2>3, <2>4
<1>5. CASE DriveStep
  BY <1>1, <1>5 DEF DriveStep, GoBusy, Offer
<1>6. CASE UNCHANGED ataVars
  BY <1>1, <1>6 DEF ataVars
<1> QED
  BY <1>2, <1>3, <1>4, <1>5, <1>6 DEF AtaNext, DriverStep

LEMMA AtaCommands ==
  ASSUME AtaInv, ataPc = "command"
  PROVE  /\ Selected(Channel(Id)) = Id
         /\ Id \in Attached => (drive[Id].todo = <<>> /\ ~drive[Id].drq)
<1>1. reg[Channel(Id)].dev = Id % 2
  BY DEF AtaInv, AtCall
<1>2. Id \in Attached => Rests(Id)
  BY DEF AtaInv, Present, Waiting
<1> QED
  BY <1>1, <1>2, HereIsMeant DEF Rests

-----------------------------------------------------------------------------
(***************************************************************************)
(* quicksort: what is left to do are calls for parts of the array that lie *)
(* apart, in order, and two elements out of order are in one of them.      *)
(***************************************************************************)
Scanning == sortPc \in {"up", "down", "swap"}

SortTypes ==
  /\ input \in Seq(Int) /\ Len(input) \in 1 .. (SIZE \div 2) - 1
  /\ base \in Seq(Int) /\ Len(base) = Len(input)
  /\ calls \in Seq((0 .. SIZE - 1) \X (0 .. SIZE - 1))
  /\ left \in Nat /\ right \in Nat
  /\ sortI \in -1 .. Len(base) /\ j \in -1 .. Len(base)
  /\ sortPc \in {"call", "up", "down", "swap", "wild"}

Injections(D) == {f \in [D -> D] : \A k, m \in D : f[k] = f[m] => k = m}
Permuted ==
  \E f \in Injections(1 .. Len(input)) : \A k \in 1 .. Len(input) : base[k] = input[f[k]]

\* The calls that are left: within the array, and each behind the one before it.
Apart ==
  /\ \A k \in DOMAIN calls : /\ calls[k][1] \in 0 .. Len(base) /\ calls[k][2] \in 0 .. Len(base) - 1
                             /\ calls[k][1] <= calls[k][2] + 1
  /\ \A k, m \in DOMAIN calls : k < m => calls[k][2] < calls[m][1]
  /\ Scanning => /\ left < right /\ right < Len(base)
                 /\ \A k \in DOMAIN calls : right < calls[k][1]

LeftToDo(a, b) ==
  \/ \E k \in DOMAIN calls : calls[k][1] <= a /\ b <= calls[k][2]
  \/ Scanning /\ left <= a /\ b <= right
Ordered == \A a, b \in 0 .. Len(base) - 1 : a < b => At(a) <= At(b) \/ LeftToDo(a, b)

\* A part at the front is the whole array as it was, or the front is its largest element.
InFront(last) ==
  \/ base = input /\ last = Len(base) - 1
  \/ \A m \in 0 .. last : At(m) <= At(0)
FrontCalls == \A k \in DOMAIN calls : calls[k][1] = 0 /\ calls[k][2] > 0 => InFront(calls[k][2])

\* Before the first exchange of a call the upward scan stays at the pivot ...
Unswapped ==
  /\ sortI = left /\ j \in left .. right
  /\ \A m \in j + 1 .. right : At(left) < At(m)
  /\ left = 0 => InFront(right)
  /\ sortPc = "swap" => At(j) <= At(left)

\* ... and from then on the pivot stays, and both scans stop before they have passed
\* what was exchanged.
Swapped ==
  /\ sortI \in left + 1 .. j + 1 /\ j \in left .. right - 1
  /\ \A m \in left .. sortI - 1 : At(m) <= At(left)
  /\ \A m \in j + 1 .. right : At(left) <= At(m)
  /\ sortPc \in {"down", "swap"} => At(left) <= At(sortI)
  /\ sortPc = "swap" => At(j) <= At(left)

Sound ==
  /\ sortPc # "wild"
  /\ Apart /\ Ordered /\ FrontCalls
  /\ Scanning => Unswapped \/ Swapped

\* The left part of an array with its one smallest element first ends at -1.
Doomed ==
  /\ Len(input) > 1 /\ \A k \in 2 .. Len(input) : input[1] < input[k]
  /\ \/ sortPc = "call" /\ calls # <<>> /\ Head(calls) = <<0, SIZE - 1>>
     \/ sortPc \in {"up", "down"} /\ left = 0 /\ right = SIZE - 1 /\ sortI = 0 /\ j = -1
     \/ sortPc = "wild"

SortInv == SortTypes /\ Permuted /\ (Sound \/ Doomed)

-----------------------------------------------------------------------------
LEMMA SortSizes ==
  /\ SIZE \in Nat \ {0} /\ SIZE \div 2 \in Nat /\ 2 * (SIZE \div 2) = SIZE
  /\ \A s \in Inputs : s \in Seq(Int) /\ Len(s) \in 1 .. (SIZE \div 2) - 1
BY QuicksortAssumption

LEMMA InitSortInv == SortInit => SortInv
<1> SUFFICES ASSUME SortInit PROVE SortInv
  OBVIOUS
<1> USE DEF SortInit, SortStart
<1> DEFINE n == Len(input)
<1>1. input \in Seq(Int) /\ n \in Nat /\ n > 0 /\ n < SIZE \div 2 /\ SIZE \in Nat
      /\ n < SIZE /\ input \in Inputs
  BY SortSizes
<1>2. base = input /\ calls = << <<0, n - 1>> >> /\ sortPc = "call"
  OBVIOUS
<1> HIDE DEF n
<1>3. SortTypes
  BY <1>1, <1>2, SortSizes DEF SortTypes, n
<1>4. Permuted
  <2> DEFINE f == [k \in 1 .. n |-> k]
  <2>1. f \in Injections(1 .. n) /\ \A k \in 1 .. n : base[k] = input[f[k]]
    BY <1>2 DEF Injections
  <2> QED
    BY <2>1 DEF Permuted, n
<1>5. /\ DOMAIN calls = {1} /\ calls[1] = <<0, n - 1>> /\ calls[1][1] = 0
      /\ calls[1][2] = n - 1 /\ Len(base) = n
  BY <1>2 DEF n
<1>6. Apart
  BY <1>1, <1>2, <1>5 DEF Apart, Scanning
<1>7. Ordered
  BY <1>1, <1>2, <1>5 DEF Ordered, LeftToDo
<1>8. FrontCalls
  BY <1>1, <1>2, <1>5 DEF FrontCalls, InFront
<1> QED
  BY <1>2, <1>3, <1>4, <1>6, <1>7, <1>8 DEF SortInv, Sound, Scanning

\* What a scan meets lies in the array.
LEMMA ScanInside ==
  ASSUME SortTypes, Sound, Scanning
  PROVE  /\ left \in 0 .. Len(base) - 1 /\ right \in 0 .. Len(base) - 1 /\ left < right
         /\ sortI \in left .. right /\ j \in left .. right /\ Inside(sortI) /\ Inside(j)
         /\ Len(base) \in Nat /\ \A k \in 0 .. Len(base) - 1 : At(k) \in Int
<1>1. left \in Nat /\ right \in Nat /\ left < right /\ right < Len(base) /\ Len(base) \in Nat
  BY DEF SortTypes, Sound, Apart
<1>2. sortI \in left .. right /\ j \in left .. right
  <2>1. sortI \in Int /\ j \in Int
    BY DEF SortTypes
  <2>2. CASE Unswapped
    BY <1>1, <2>1, <2>2 DEF Unswapped
  <2>3. CASE Swapped
    BY <1>1, <2>1, <2>3 DEF Swapped
  <2> QED
    BY <2>2, <2>3 DEF Sound
<1>3. ASSUME NEW k \in 0 .. Len(base) - 1 PROVE At(k) \in Int
  <2>1. k + 1 \in 1 .. Len(base) /\ base \in Seq(Int)
    BY <1>1 DEF SortTypes
  <2> QED
    BY <2>1 DEF At
<1> QED
  BY <1>1, <1>2, <1>3 DEF Inside

LEMMA UpSort == ASSUME SortInv, Up PROVE SortInv'
<1> USE DEF SortInv
<1>1. /\ UNCHANGED <<input, base, calls, left, right, j>> /\ sortPc = "up"
      /\ \/ ~Inside(sortI) /\ sortPc' = "wild" /\ UNCHANGED sortI
         \/ Inside(sortI) /\ At(sortI) < At(left) /\ sortI' = sortI + 1 /\ sortPc' = "up"
         \/ Inside(sortI) /\ ~(At(sortI) < At(left)) /\ sortPc' = "down" /\ UNCHANGED sortI
  BY DEF Up, pivot
<1>2. Permuted'
  BY <1>1 DEF Permuted
<1>3. SortTypes'
  BY <1>1 DEF SortTypes, Inside
<1>4. CASE Doomed
  <2>1. left = 0 /\ sortI = 0 /\ Inside(sortI) /\ At(0) \in Int
    BY <1>1, <1>4 DEF Doomed, SortTypes, Inside, At
  <2>2. sortPc' = "down" /\ UNCHANGED sortI
    BY <1>1, <2>1
  <2> QED
    BY <1>1, <1>2, <1>3, <1>4, <2>2 DEF Doomed
<1>5. CASE Sound
  <2>1. /\ Scanning /\ Inside(sortI) /\ left \in Nat /\ right \in Nat /\ left < right
        /\ right < Len(base) /\ \A k \in 0 .. Len(base) - 1 : At(k) \in Int
        /\ sortI \in left .. right /\ j \in left .. right /\ Len(base) \in Nat
    BY <1>1, <1>5, ScanInside DEF Scanning
  <2>2. Scanning' /\ sortPc' \in {"up", "down"}
    BY <1>1, <2>1 DEF Scanning
  <2>3. Apart' /\ Ordered' /\ FrontCalls'
    BY <1>1, <1>5, <2>1, <2>2 DEF Sound, Apart, Ordered, LeftToDo, FrontCalls, InFront, At
  <2>4. Unswapped \/ Swapped
    BY <1>5, <2>1 DEF Sound
  <2>5. CASE Unswapped
    <3>1. At(left) \in Int /\ sortI = left
      BY <2>1, <2>5 DEF Unswapped
    <3>2. sortPc' = "down" /\ UNCHANGED sortI
      BY <1>1, <2>1, <3>1
    <3>3. Unswapped'
      BY <1>1, <2>5, <3>2 DEF Unswapped, InFront, At
    <3> QED
      BY <1>2, <1>3, <2>2, <2>3, <3>3 DEF Sound
  <2>6. CASE Swapped
    <3>1. CASE At(sortI) < At(left)
      <4>1. sortI' = sortI + 1 /\ sortPc' = "up"
        BY <1>1, <2>1, <3>1
      <4>2. sortI # j + 1
        <5>1. sortI = j + 1 => At(left) <= At(sortI)
          BY <2>1, <2>6 DEF Swapped
        <5> QED
          BY <2>1, <3>1, <5>1
      <4>3. \A m \in left .. sortI : At(m) <= At(left)
        BY <2>1, <2>6, <3>1 DEF Swapped
      <4>4. Swapped'
        BY <1>1, <2>1, <2>6, <4>1, <4>2, <4>3 DEF Swapped, At
      <4> QED
        BY <1>2, <1>3, <2>2, <2>3, <4>4 DEF Sound
    <3>2. CASE ~(At(sortI) < At(left))
      <4>1. sortPc' = "down" /\ UNCHANGED sortI /\ At(left) <= At(sortI)
        BY <1>1, <2>1, <3>2
      <4>2. Swapped'
        BY <1>1, <2>1, <2>6, <4>1 DEF Swapped, At
      <4> QED
        BY <1>2, <1>3, <2>2, <2>3, <4>2 DEF Sound
    <3> QED
      BY <3>1, <3>2
  <2> QED
    BY <2>4, <2>5, <2>6
<1> QED
  BY <1>4, <1>5

LEMMA DownSort == ASSUME SortInv, Down PROVE SortInv'
<1> USE DEF SortInv
<1>1. /\ UNCHANGED <<input, base, calls, left, right, sortI>> /\ sortPc = "down"
      /\ \/ ~Inside(j) /\ sortPc' = "wild" /\ UNCHANGED j
         \/ Inside(j) /\ At(left) < At(j) /\ j' = j - 1 /\ sortPc' = "down"
         \/ Inside(j) /\ ~(At(left) < At(j)) /\ sortPc' = "swap" /\ UNCHANGED j
  BY DEF Down, pivot
<1>2. Permuted'
  BY <1>1 DEF Permuted
<1>3. SortTypes'
  BY <1>1 DEF SortTypes, Inside
<1>4. CASE Doomed
  <2>1. j = -1
    BY <1>1, <1>4 DEF Doomed
  <2>2. sortPc' = "wild"
    BY <1>1, <2>1 DEF Inside
  <2> QED
    BY <1>1, <1>2, <1>3, <1>4, <2>2 DEF Doomed
<1>5. CASE Sound
  <2>1. /\ Scanning /\ Inside(j) /\ left \in Nat /\ right \in Nat /\ left < right
        /\ right < Len(base) /\ \A k \in 0 .. Len(base) - 1 : At(k) \in Int
        /\ sortI \in left .. right /\ j \in left .. right /\ Len(base) \in Nat
    BY <1>1, <1>5, ScanInside DEF Scanning
  <2>2. Scanning' /\ sortPc' \in {"down", "swap"}
    BY <1>1, <2>1 DEF Scanning
  <2>3. Apart' /\ Ordered' /\ FrontCalls'
    BY <1>1, <1>5, <2>1, <2>2 DEF Sound, Apart, Ordered, LeftToDo, FrontCalls, InFront, At
  <2>4. Unswapped \/ Swapped
    BY <1>5, <2>1 DEF Sound
  <2>5. CASE At(left) < At(j)
    <3>1. j' = j - 1 /\ sortPc' = "down" /\ j # left /\ At(left) \in Int /\ At(j) \in Int
      BY <1>1, <2>1, <2>5
    <3>2. CASE Unswapped
      <4>1. \A m \in j .. right : At(left) < At(m)
        BY <2>1, <2>5, <3>2 DEF Unswapped
      <4>2. Unswapped'
        BY <1>1, <2>1, <3>1, <3>2, <4>1 DEF Unswapped, InFront, At
      <4> QED
        BY <1>2, <1>3, <2>2, <2>3, <4>2 DEF Sound
    <3>3. CASE Swapped
      <4>1. sortI # j + 1
        <5>1. sortI = j + 1 => At(j) <= At(left)
          BY <2>1, <3>3 DEF Swapped
        <5> QED
          BY <2>5, <3>1, <5>1
      <4>2. \A m \in j .. right : At(left) <= At(m)
        BY <2>1, <2>5, <3>3, <3>1 DEF Swapped
      <4>3. Swapped'
        BY <1>1, <2>1, <3>1, <3>3, <4>1, <4>2 DEF Swapped, At
      <4> QED
        BY <1>2, <1>3, <2>2, <2>3, <4>3 DEF Sound
    <3> QED
      BY <2>4, <3>2, <3>3
  <2>6. CASE ~(At(left) < At(j))
    <3>1. sortPc' = "swap" /\ UNCHANGED j /\ At(j) <= At(left)
      BY <1>1, <2>1, <2>6
    <3>2. Unswapped => Unswapped'
      BY <1>1, <3>1 DEF Unswapped, InFront, At
    <3>3. Swapped => Swapped'
      BY <1>1, <3>1 DEF Swapped, At
    <3> QED
      BY <1>2, <1>3, <2>2, <2>3, <2>4, <3>2, <3>3 DEF Sound
  <2> QED
    BY <2>5, <2>6
<1> QED
  BY <1>4, <1>5

-----------------------------------------------------------------------------
\* What is outside of the part at work is in order with all of it.
LEMMA OutsideIsOrdered ==
  ASSUME SortTypes, Sound, Scanning, NEW x \in left .. right
  PROVE  /\ \A a \in 0 .. left - 1 : At(a) <= At(x)
         /\ \A b \in right + 1 .. Len(base) - 1 : At(x) <= At(b)
<1>1. /\ left \in 0 .. Len(base) - 1 /\ right \in 0 .. Len(base) - 1 /\ Len(base) \in Nat
  BY ScanInside
<1>2. ASSUME NEW a \in 0 .. Len(base) - 1, NEW b \in 0 .. Len(base) - 1, a < b,
             (a < left /\ b <= right) \/ (left <= a /\ a <= right /\ right < b)
      PROVE  At(a) <= At(b)
  <2>1. ~LeftToDo(a, b)
    <3> SUFFICES ASSUME NEW k \in DOMAIN calls, calls[k][1] <= a, b <= calls[k][2] PROVE FALSE
      BY <1>1, <1>2 DEF LeftToDo
    <3>1. right < calls[k][1] /\ calls[k][1] \in Nat
      BY <1>1 DEF Sound, Apart
    <3> QED
      BY <1>1, <1>2, <3>1
  <2> QED
    BY <1>2, <2>1 DEF Sound, Ordered
<1> QED
  BY <1>1, <1>2

\* Exchanging two elements of the part at work keeps the others, and all of their order.
LEMMA SwapSort == ASSUME SortInv, Swap PROVE SortInv'
<1> USE DEF SortInv
<1> DEFINE n == Len(base)
<1>0. PICK p, q, l : p = sortI /\ q = j /\ l = left
  OBVIOUS
<1>1. /\ UNCHANGED <<input, calls, left, right>> /\ sortPc = "swap" /\ p < q /\ sortPc' = "up"
      /\ base' = [base EXCEPT ![p + 1] = At(q), ![q + 1] = At(p)]
      /\ sortI' = p + 1 /\ j' = q - 1
  BY <1>0 DEF Swap
<1>2. Sound /\ Scanning
  BY <1>1 DEF Doomed, Scanning
<1>3. /\ left \in 0 .. n - 1 /\ right \in 0 .. n - 1 /\ left < right /\ n \in Nat
      /\ p \in left .. right /\ q \in left .. right
      /\ l = left /\ left' = l
      /\ \A k \in 0 .. n - 1 : At(k) \in Int
  BY <1>0, <1>1, <1>2, ScanInside
<1>4. base \in [1 .. n -> Int] /\ n = Len(input)
  BY DEF SortTypes
<1>5. /\ base' \in [1 .. n -> Int] /\ base' \in Seq(Int) /\ Len(base') = n
      /\ \A k \in 0 .. n - 1 : At(k)' = IF k = q THEN At(p) ELSE IF k = p THEN At(q) ELSE At(k)
  <2> HIDE DEF n
  <2>1. base' \in [1 .. n -> Int]
    BY <1>1, <1>3, <1>4
  <2>2. base' \in Seq(Int) /\ Len(base') = n
    BY <1>3, <2>1
  <2>3. ASSUME NEW k \in 0 .. n - 1
        PROVE  At(k)' = IF k = q THEN At(p) ELSE IF k = p THEN At(q) ELSE At(k)
    <3>1. k + 1 \in 1 .. n /\ (k + 1 = q + 1 <=> k = q) /\ (k + 1 = p + 1 <=> k = p)
      BY <1>3
    <3>2. base'[k + 1] = IF k + 1 = q + 1 THEN At(p) ELSE IF k + 1 = p + 1 THEN At(q) ELSE base[k + 1]
      BY <1>1, <1>4, <3>1
    <3>3. At(k)' = base'[k + 1] /\ At(k) = base[k + 1]
      BY Zenon DEF At
    <3> QED
      BY <3>1, <3>2, <3>3
  <2> QED
    BY <2>1, <2>2, <2>3
<1>6. SortTypes'
  BY <1>1, <1>3, <1>5 DEF SortTypes
<1>7. Permuted'
  <2>1. PICK f \in Injections(1 .. n) : \A k \in 1 .. n : base[k] = input[f[k]]
    BY <1>4 DEF Permuted
  <2> DEFINE g == [k \in 1 .. n |-> IF k = q + 1 THEN f[p + 1] ELSE IF k = p + 1 THEN f[q + 1] ELSE f[k]]
  <2> HIDE DEF n
  <2>2. p + 1 \in 1 .. n /\ q + 1 \in 1 .. n
    BY <1>3
  <2>3. g \in Injections(1 .. n)
    BY <2>1, <2>2 DEF Injections
  <2>4. ASSUME NEW k \in 1 .. n PROVE base'[k] = input[g[k]]
    <3>1. base'[k] = IF k = q + 1 THEN At(p) ELSE IF k = p + 1 THEN At(q) ELSE base[k]
      BY <1>1, <1>4
    <3>2. At(p) = base[p + 1] /\ At(q) = base[q + 1]
      BY DEF At
    <3> QED
      BY <2>1, <2>2, <3>1, <3>2
  <2> HIDE DEF g
  <2> QED
    BY <1>1, <1>4, <1>5, <2>3, <2>4 DEF Permuted
<1>8. Scanning'
  BY <1>1 DEF Scanning
<1>9. Apart'
  BY <1>1, <1>2, <1>5, <1>8 DEF Sound, Apart
<1>10. \A x \in 0 .. n - 1 : x \notin left .. right => At(x)' = At(x)
  BY <1>3, <1>5
<1>11. ASSUME NEW x \in left .. right PROVE \E y \in left .. right : At(x)' = At(y)
  <2>1. x \in 0 .. n - 1
    BY <1>3
  <2>2. At(x)' = IF x = q THEN At(p) ELSE IF x = p THEN At(q) ELSE At(x)
    BY <1>5, <2>1
  <2> QED
    BY <1>3, <2>2
<1>12. Ordered'
  <2> SUFFICES ASSUME NEW a \in 0 .. n - 1, NEW b \in 0 .. n - 1, a < b
               PROVE  At(a)' <= At(b)' \/ LeftToDo(a, b)'
    BY <1>5 DEF Ordered
  <2> HIDE DEF n
  <2>1. CASE a \in left .. right /\ b \in left .. right
    BY <1>1, <1>3, <1>8, <2>1 DEF LeftToDo
  <2>2. CASE a \notin left .. right /\ b \notin left .. right
    <3>1. At(a)' = At(a) /\ At(b)' = At(b)
      BY <1>10, <2>2
    <3>2. At(a) <= At(b) \/ LeftToDo(a, b)
      BY <1>2 DEF Sound, Ordered, n
    <3>3. LeftToDo(a, b)' <=> LeftToDo(a, b)
      BY <1>1, <1>2, <1>8 DEF LeftToDo
    <3> QED
      BY <3>1, <3>2, <3>3
  <2>3. CASE a \notin left .. right /\ b \in left .. right
    <3>1. PICK y \in left .. right : At(b)' = At(y)
      BY <1>11, <2>3
    <3>2. a \in 0 .. left - 1 /\ At(a)' = At(a)
      BY <1>3, <1>10, <2>3
    <3>3. At(a) <= At(y)
      BY <1>2, <3>2, OutsideIsOrdered
    <3> QED
      BY <3>1, <3>2, <3>3
  <2>4. CASE a \in left .. right /\ b \notin left .. right
    <3>1. PICK y \in left .. right : At(a)' = At(y)
      BY <1>11, <2>4
    <3>2. b \in right + 1 .. Len(base) - 1 /\ At(b)' = At(b)
      BY <1>3, <1>10, <2>4 DEF n
    <3>3. At(y) <= At(b)
      BY <1>2, <3>2, OutsideIsOrdered
    <3> QED
      BY <3>1, <3>2, <3>3
  <2> QED
    BY <2>1, <2>2, <2>3, <2>4
<1>13. FrontCalls'
  <2>1. \A k \in DOMAIN calls : calls[k][1] # 0
    BY <1>2, <1>3 DEF Sound, Apart
  <2> QED
    BY <1>1, <2>1 DEF FrontCalls
<1>14. Swapped'
  <2>1. Unswapped \/ Swapped
    BY <1>2 DEF Sound
  <2>2. At(q) <= At(l)
    BY <1>0, <1>1, <2>1 DEF Unswapped, Swapped
  <2>3. CASE Unswapped
    <3>1. p = left /\ \A m \in q + 1 .. right : At(l) < At(m)
      BY <1>0, <2>3 DEF Unswapped
    <3> HIDE DEF n
    <3>2. At(l)' = At(q) /\ At(q)' = At(l)
      BY <1>1, <1>3, <1>5, <3>1
    <3>3. ASSUME NEW m \in q .. right PROVE At(l)' <= At(m)'
      <4>1. CASE m = q
        BY <2>2, <3>2, <4>1
      <4>2. CASE m # q
        <5>1. At(m)' = At(m) /\ At(l) < At(m)
          BY <1>1, <1>3, <1>5, <3>1, <4>2
        <5>2. At(q) \in Int /\ At(l) \in Int /\ At(m) \in Int
          BY <1>3
        <5> QED
          BY <2>2, <3>2, <5>1, <5>2
      <4> QED
        BY <4>1, <4>2
    <3>4. /\ sortI' = left + 1 /\ j' = q - 1 /\ left' = left /\ right' = right
          /\ sortPc' = "up"
      BY <1>0, <1>1, <3>1
    <3>5. \A m \in left .. left : At(m)' <= At(l)'
      BY <1>3, <3>2
    <3>6. /\ sortI' \in left' + 1 .. j' + 1 /\ j' \in left' .. right' - 1
          /\ \A m \in left' .. sortI' - 1 : At(m)' <= At(l)'
          /\ \A m \in j' + 1 .. right' : At(l)' <= At(m)'
      BY <1>1, <1>3, <3>1, <3>3, <3>4, <3>5
    <3> QED
      BY <1>3, <3>4, <3>6 DEF Swapped, At
  <2>4. CASE Swapped
    <3>1. /\ p \in left + 1 .. q + 1 /\ q \in left .. right - 1
          /\ \A m \in left .. p - 1 : At(m) <= At(l)
          /\ \A m \in q + 1 .. right : At(l) <= At(m)
          /\ At(l) <= At(p)
      BY <1>0, <1>1, <2>4 DEF Swapped
    <3> HIDE DEF n
    <3>2. At(l)' = At(l) /\ At(q)' = At(p) /\ At(p)' = At(q)
      BY <1>1, <1>3, <1>5, <3>1
    <3>3. \A m \in left .. p : At(m)' <= At(l)
      <4> TAKE m \in left .. p
      <4>1. CASE m = p
        BY <2>2, <3>2, <4>1
      <4>2. CASE m # p
        <5>1. m \in 0 .. n - 1 /\ m # q /\ m # p /\ m \in left .. p - 1
          BY <1>1, <1>3, <4>2
        <5>2. At(m)' = At(m)
          BY <1>5, <5>1
        <5> QED
          BY <3>1, <5>1, <5>2
      <4> QED
        BY <4>1, <4>2
    <3>4. \A m \in q .. right : At(l) <= At(m)'
      <4> TAKE m \in q .. right
      <4>1. CASE m = q
        BY <3>1, <3>2, <4>1
      <4>2. CASE m # q
        <5>1. m \in 0 .. n - 1 /\ m # q /\ m # p /\ m \in q + 1 .. right
          BY <1>1, <1>3, <4>2
        <5>2. At(m)' = At(m)
          BY <1>5, <5>1
        <5> QED
          BY <3>1, <5>1, <5>2
      <4> QED
        BY <4>1, <4>2
    <3>5. /\ sortI' = p + 1 /\ j' = q - 1 /\ left' = left /\ right' = right /\ sortPc' = "up"
      BY <1>0, <1>1
    <3>6. /\ sortI' \in left' + 1 .. j' + 1 /\ j' \in left' .. right' - 1
          /\ \A m \in left' .. sortI' - 1 : At(m)' <= At(l)'
          /\ \A m \in j' + 1 .. right' : At(l)' <= At(m)'
      BY <1>1, <1>3, <3>1, <3>2, <3>3, <3>4, <3>5
    <3> QED
      BY <1>3, <3>5, <3>6 DEF Swapped, At
  <2> QED
    BY <2>1, <2>3, <2>4
<1> QED
  BY <1>1, <1>6, <1>7, <1>8, <1>9, <1>12, <1>13, <1>14 DEF Sound

-----------------------------------------------------------------------------
\* One below a place that is not the first, and one below the first.
LEMMA OneBelow ==
  /\ \A k \in 1 .. SIZE - 1 : (k - 1) % SIZE = k - 1
  /\ (0 - 1) % SIZE = SIZE - 1
<1>1. SIZE \in Nat \ {0}
  BY SortSizes
<1>2. ASSUME NEW k \in 1 .. SIZE - 1 PROVE (k - 1) % SIZE = k - 1
  <2>1. k - 1 \in 0 .. SIZE - 1 /\ k - 1 = 0 * SIZE + (k - 1) /\ 0 \in Nat
    BY <1>1
  <2> QED
    BY <1>1, <2>1, QuotientOf
<1>3. (0 - 1) % SIZE = SIZE - 1
  BY <1>1, SMT
<1> QED
  BY <1>2, <1>3

\* The stack of calls with two more.
LEMMA TwoMore ==
  ASSUME NEW S, NEW s \in Seq(S), NEW a \in S, NEW b \in S, NEW t, t = <<a, b>> \o s
  PROVE  /\ t \in Seq(S) /\ DOMAIN t = 1 .. Len(s) + 2 /\ t # <<>> /\ Head(t) = a
         /\ t[1] = a /\ t[2] = b /\ \A k \in DOMAIN s : t[k + 2] = s[k]
         /\ \A k \in DOMAIN t : k = 1 \/ k = 2 \/ (k - 2 \in DOMAIN s /\ t[k] = s[k - 2])
<1>1. <<a, b>> \in Seq(S) /\ Len(<<a, b>>) = 2 /\ <<a, b>>[1] = a /\ <<a, b>>[2] = b
  OBVIOUS
<1> DEFINE u == <<a, b>>
<1> HIDE DEF u
<1>2. t = u \o s /\ u \in Seq(S) /\ Len(u) = 2 /\ u[1] = a /\ u[2] = b
  BY <1>1 DEF u
<1>3. t \in Seq(S) /\ Len(t) = Len(s) + 2 /\ t[1] = a /\ t[2] = b /\ Len(s) \in Nat
  BY <1>2
<1>4. \A k \in 1 .. Len(s) : t[k + 2] = s[k]
  BY <1>2
<1> QED
  BY <1>3, <1>4

\* The two parts of a call after exchanges have all of its pairs that are out of order.
LEMMA SplitSwapped ==
  ASSUME SortTypes, Sound, Scanning, Swapped, sortPc = "swap", sortI >= j,
         NEW a \in left .. right, NEW b \in left .. right, a < b
  PROVE  At(a) <= At(b) \/ b <= sortI - 1 \/ j + 1 <= a
<1>1. /\ left \in Nat /\ right \in Nat /\ right < Len(base) /\ Len(base) \in Nat
      /\ sortI \in left .. right /\ j \in left .. right
      /\ \A k \in left .. right : At(k) \in Int
  BY ScanInside
<1>2. /\ \A m \in left .. sortI - 1 : At(m) <= At(left)
      /\ \A m \in j + 1 .. right : At(left) <= At(m)
      /\ At(left) <= At(sortI) /\ At(j) <= At(left) /\ sortI <= j + 1
  BY <1>1 DEF Swapped
<1> SUFFICES ASSUME b >= sortI, a <= j PROVE At(a) <= At(b)
  BY <1>1
<1>3. At(a) <= At(left)
  <2>1. a \in left .. sortI - 1 \/ a = j
    BY <1>1
  <2> QED
    BY <1>2, <2>1
<1>4. At(left) <= At(b)
  <2>1. b \in j + 1 .. right \/ b = sortI
    BY <1>1
  <2> QED
    BY <1>2, <2>1
<1>5. At(a) \in Int /\ At(b) \in Int /\ At(left) \in Int
  BY <1>1
<1> QED
  BY <1>3, <1>4, <1>5

LEMMA SplitSort == ASSUME SortInv, Split PROVE SortInv'
<1> USE DEF SortInv
<1> DEFINE n == Len(base)
           first == <<left, (sortI - 1) % SIZE>>
           second == <<j + 1, right>>
           Calls2 == (0 .. SIZE - 1) \X (0 .. SIZE - 1)
<1>1. /\ UNCHANGED <<input, base, left, right, sortI, j>> /\ sortPc = "swap" /\ sortI >= j
      /\ sortPc' = "call" /\ calls' = <<first, second>> \o calls
  BY DEF Split
<1>2. Sound /\ Scanning /\ ~Scanning'
  BY <1>1 DEF Doomed, Scanning
<1>3. /\ left \in 0 .. n - 1 /\ right \in 0 .. n - 1 /\ left < right /\ n \in Nat
      /\ sortI \in left .. right /\ j \in left .. right
      /\ \A k \in 0 .. n - 1 : At(k) \in Int
  BY <1>2, ScanInside
<1>4. n = Len(input) /\ n < SIZE /\ SIZE \in Nat /\ calls \in Seq(Calls2)
  BY <1>3, SortSizes DEF SortTypes
<1>5. first \in Calls2 /\ second \in Calls2
  <2>1. (sortI - 1) % SIZE \in 0 .. SIZE - 1
    <3>1. CASE sortI = 0
      BY <1>4, <1>3, <3>1, OneBelow
    <3>2. CASE sortI # 0
      <4>1. sortI \in 1 .. SIZE - 1
        BY <1>3, <1>4, <3>2
      <4>2. (sortI - 1) % SIZE = sortI - 1
        BY <4>1, OneBelow
      <4> QED
        BY <1>4, <4>1, <4>2
    <3> QED
      BY <3>1, <3>2
  <2> QED
    BY <1>3, <1>4, <2>1, SortSizes
<1> HIDE DEF n, first, second, Calls2
<1>6. /\ calls' \in Seq(Calls2) /\ DOMAIN calls' = 1 .. Len(calls) + 2 /\ calls' # <<>>
      /\ Head(calls') = first /\ calls'[1] = first /\ calls'[2] = second
      /\ \A k \in DOMAIN calls : calls'[k + 2] = calls[k]
      /\ \A k \in DOMAIN calls' :
           k = 1 \/ k = 2 \/ (k - 2 \in DOMAIN calls /\ calls'[k] = calls[k - 2])
      /\ DOMAIN calls = 1 .. Len(calls) /\ Len(calls) \in Nat
  <2>1. calls' = <<first, second>> \o calls
    BY <1>1
  <2> QED
    BY <1>4, <1>5, <2>1, TwoMore
<1>7. SortTypes'
  BY <1>1, <1>6 DEF SortTypes, Calls2
<1>8. Permuted'
  BY <1>1 DEF Permuted
<1>9. second[1] = j + 1 /\ second[2] = right /\ first[1] = left
  BY DEF first, second
<1>10. \A k \in DOMAIN calls : right < calls[k][1]
  BY <1>2 DEF Sound, Apart
<1>11. Unswapped => sortI = left /\ j = left
  BY <1>1, <1>3 DEF Unswapped
<1>12. CASE Unswapped /\ left = 0
  <2>1. \A m \in 1 .. right : At(0) < At(m)
    BY <1>11, <1>12 DEF Unswapped
  <2>2. InFront(right)
    BY <1>12 DEF Unswapped
  <2>3. base = input /\ right = n - 1
    <3>1. ~(\A m \in 0 .. right : At(m) <= At(0))
      <4>1. right \in 0 .. right /\ At(0) < At(right) /\ At(0) \in Int /\ At(right) \in Int
        BY <1>3, <1>12, <2>1
      <4> QED
        BY <4>1
    <3> QED
      BY <2>2, <3>1 DEF InFront, n
  <2>4. \A k \in 2 .. Len(input) : input[1] < input[k]
    <3> SUFFICES ASSUME NEW k \in 2 .. n PROVE base[1] < base[k]
      BY <1>4, <2>3
    <3>1. k - 1 \in 1 .. right /\ (k - 1) + 1 = k /\ 0 + 1 = 1
      BY <1>3, <2>3
    <3>2. base[0 + 1] < base[(k - 1) + 1]
      BY <2>1, <3>1 DEF At
    <3> QED
      BY <3>1, <3>2
  <2>5. first = <<0, SIZE - 1>>
    BY <1>11, <1>12, OneBelow DEF first
  <2>6. Len(input) > 1
    BY <1>3, <1>4, <1>12, <2>3
  <2> QED
    BY <1>1, <1>6, <1>7, <1>8, <2>4, <2>5, <2>6 DEF Doomed
<1>13. CASE ~(Unswapped /\ left = 0)
  <2>1. sortI >= 1 /\ first[2] = sortI - 1 /\ sortI - 1 <= j /\ sortI - 1 >= left - 1
    <3>1. sortI >= 1 /\ sortI - 1 <= j
      <4>1. CASE Unswapped
        BY <1>3, <1>11, <1>13, <4>1
      <4>2. CASE Swapped
        BY <1>3, <4>2 DEF Swapped
      <4> QED
        BY <1>2, <4>1, <4>2 DEF Sound
    <3>2. sortI \in 1 .. SIZE - 1
      BY <1>3, <1>4, <3>1
    <3>3. (sortI - 1) % SIZE = sortI - 1
      BY <3>2, OneBelow
    <3> QED
      BY <1>3, <3>1, <3>3 DEF first
  <2>2. Apart'
    <3>1. \A k \in DOMAIN calls' : /\ calls'[k][1] \in 0 .. n /\ calls'[k][2] \in 0 .. n - 1
                                   /\ calls'[k][1] <= calls'[k][2] + 1
      <4> TAKE k \in DOMAIN calls'
      <4>1. CASE k = 1
        BY <1>3, <1>6, <1>9, <2>1, <4>1
      <4>2. CASE k = 2
        BY <1>3, <1>6, <1>9, <4>2
      <4>3. CASE k - 2 \in DOMAIN calls /\ calls'[k] = calls[k - 2]
        BY <1>2, <4>3 DEF Sound, Apart, n
      <4> QED
        BY <1>6, <4>1, <4>2, <4>3
    <3>2. ASSUME NEW k \in DOMAIN calls', NEW m \in DOMAIN calls', k < m
          PROVE  calls'[k][2] < calls'[m][1]
      <4>1. CASE k - 2 \in DOMAIN calls
        <5>1. m - 2 \in DOMAIN calls /\ k - 2 < m - 2
          BY <1>6, <3>2, <4>1
        <5>2. calls'[k] = calls[k - 2] /\ calls'[m] = calls[m - 2]
          BY <1>6, <4>1, <5>1
        <5> QED
          BY <1>2, <4>1, <5>1, <5>2 DEF Sound, Apart
      <4>2. CASE k = 1 /\ m = 2
        BY <1>3, <1>6, <1>9, <2>1, <4>2
      <4>3. CASE k \in {1, 2} /\ m - 2 \in DOMAIN calls
        <5>1. calls'[m] = calls[m - 2] /\ right < calls[m - 2][1] /\ calls[m - 2][1] \in 0 .. n
          BY <1>2, <1>6, <1>10, <4>3 DEF Sound, Apart, n
        <5>2. calls'[k][2] <= right /\ calls'[k][2] \in Int
          <6>1. CASE k = 1
            BY <1>3, <1>6, <2>1, <6>1
          <6>2. CASE k = 2
            BY <1>3, <1>6, <1>9, <6>2
          <6> QED
            BY <4>3, <6>1, <6>2
        <5> QED
          BY <1>3, <5>1, <5>2
      <4> QED
        BY <1>6, <3>2, <4>1, <4>2, <4>3
    <3> QED
      BY <1>1, <1>2, <3>1, <3>2 DEF Apart, n
  <2>3. Ordered'
    <3> SUFFICES ASSUME NEW a \in 0 .. n - 1, NEW b \in 0 .. n - 1, a < b, ~(At(a) <= At(b))
                 PROVE  \E k \in DOMAIN calls' : calls'[k][1] <= a /\ b <= calls'[k][2]
      BY <1>1 DEF Ordered, LeftToDo, n, At
    <3>1. LeftToDo(a, b)
      BY <1>2 DEF Sound, Ordered, n
    <3>2. CASE \E k \in DOMAIN calls : calls[k][1] <= a /\ b <= calls[k][2]
      <4>1. PICK k \in DOMAIN calls : calls[k][1] <= a /\ b <= calls[k][2]
        BY <3>2
      <4>2. k + 2 \in DOMAIN calls' /\ calls'[k + 2] = calls[k]
        BY <1>6
      <4> QED
        BY <4>1, <4>2
    <3>3. CASE left <= a /\ b <= right
      <4>1. a \in left .. right /\ b \in left .. right
        BY <1>3, <3>3
      <4>2. b <= sortI - 1 \/ j + 1 <= a
        <5>1. CASE Swapped
          BY <1>1, <1>2, <4>1, <5>1, SplitSwapped
        <5>2. CASE Unswapped
          <6>1. j = left /\ \A m \in left + 1 .. right : At(left) < At(m)
            BY <1>11, <5>2 DEF Unswapped
          <6>2. b \in left + 1 .. right
            BY <1>3, <4>1
          <6>3. a # left
            <7>1. a = left => At(a) < At(b) /\ At(a) \in Int /\ At(b) \in Int
              BY <1>3, <6>1, <6>2
            <7> QED
              BY <7>1
          <6> QED
            BY <1>3, <4>1, <6>1, <6>3
        <5> QED
          BY <1>2, <5>1, <5>2 DEF Sound
      <4>3. 1 \in DOMAIN calls' /\ 2 \in DOMAIN calls'
        BY <1>6
      <4> QED
        BY <1>6, <1>9, <2>1, <3>3, <4>2, <4>3
    <3> QED
      BY <3>1, <3>2, <3>3 DEF LeftToDo
  <2>4. FrontCalls'
    <3> SUFFICES ASSUME NEW k \in DOMAIN calls', calls'[k][1] = 0, calls'[k][2] > 0
                 PROVE  \A m \in 0 .. calls'[k][2] : At(m) <= At(0)
      BY <1>1 DEF FrontCalls, InFront, At
    <3>1. k = 1 /\ left = 0
      <4>1. k # 2
        BY <1>3, <1>6, <1>9
      <4>2. k - 2 \in DOMAIN calls => calls[k - 2][1] # 0
        BY <1>3, <1>10
      <4> QED
        BY <1>6, <1>9, <4>1, <4>2
    <3>2. Swapped
      BY <1>2, <1>13, <3>1 DEF Sound
    <3> QED
      BY <1>6, <2>1, <3>1, <3>2 DEF Swapped
  <2> QED
    BY <1>1, <1>2, <1>7, <1>8, <2>2, <2>3, <2>4 DEF Sound
<1> QED
  BY <1>12, <1>13

LEMMA CallSort == ASSUME SortInv, SortCall PROVE SortInv'
<1> USE DEF SortInv
<1> DEFINE n == Len(base)
           l == calls[1][1]
           r == calls[1][2]
<1>1. /\ UNCHANGED <<input, base>> /\ sortPc = "call" /\ calls # <<>> /\ calls' = Tail(calls)
      /\ Head(calls) = calls[1] /\ left' = l /\ right' = r
      /\ sortI' = AsInt(l) /\ j' = AsInt(r)
      /\ sortPc' = IF l >= r THEN "call" ELSE "up"
  <2>1. calls # <<>> => Head(calls) = calls[1]
    BY DEF SortTypes
  <2> QED
    BY <2>1 DEF SortCall
<1>2. Permuted'
  BY <1>1 DEF Permuted
<1>3. /\ n \in Nat /\ 0 < n /\ n < SIZE \div 2 /\ SIZE \in Nat /\ n < SIZE /\ SIZE \div 2 \in Nat
      /\ 2 * (SIZE \div 2) = SIZE
  BY SortSizes DEF SortTypes
<1>4. /\ calls' \in Seq((0 .. SIZE - 1) \X (0 .. SIZE - 1))
      /\ DOMAIN calls = 1 .. Len(calls) /\ Len(calls) \in Nat \ {0}
      /\ DOMAIN calls' = 1 .. Len(calls) - 1
      /\ \A k \in DOMAIN calls' : calls'[k] = calls[k + 1] /\ k + 1 \in DOMAIN calls
      /\ l \in 0 .. SIZE - 1 /\ r \in 0 .. SIZE - 1
  <2>1. calls \in Seq((0 .. SIZE - 1) \X (0 .. SIZE - 1)) /\ calls # <<>>
    BY <1>1 DEF SortTypes
  <2>2. 1 \in DOMAIN calls /\ calls[1] \in (0 .. SIZE - 1) \X (0 .. SIZE - 1)
    BY <2>1
  <2>3. /\ calls' \in Seq((0 .. SIZE - 1) \X (0 .. SIZE - 1))
        /\ DOMAIN calls = 1 .. Len(calls) /\ Len(calls) \in Nat \ {0}
        /\ DOMAIN calls' = 1 .. Len(calls) - 1
        /\ \A k \in DOMAIN calls' : calls'[k] = calls[k + 1] /\ k + 1 \in DOMAIN calls
    BY <1>1, <2>1
  <2> QED
    BY <2>2, <2>3
<1> HIDE DEF n, l, r
<1>5. CASE Doomed
  <2>1. l = 0 /\ r = SIZE - 1
    BY <1>1, <1>5 DEF Doomed, l, r
  <2>2. sortPc' = "up" /\ sortI' = 0 /\ j' = -1
    <3>1. ~(0 >= SIZE - 1) /\ ~(SIZE - 1 < SIZE \div 2) /\ 0 < SIZE \div 2
      BY <1>3
    <3> QED
      BY <1>1, <1>3, <2>1, <3>1 DEF AsInt
  <2>3. SortTypes'
    <3>1. /\ left' \in Nat /\ right' \in Nat /\ sortI' \in -1 .. n /\ j' \in -1 .. n
          /\ sortPc' = "up" /\ UNCHANGED <<input, base>>
      BY <1>1, <1>3, <2>1, <2>2
    <3> QED
      BY <1>4, <3>1 DEF SortTypes, n
  <2> QED
    BY <1>1, <1>2, <1>5, <2>1, <2>2, <2>3 DEF Doomed
<1>6. CASE Sound
  <2>1. l \in 0 .. n /\ r \in 0 .. n - 1 /\ l <= r + 1
    BY <1>4, <1>6 DEF Sound, Apart, n, l, r
  <2>2. sortI' = l /\ j' = r
    BY <1>1, <1>3, <2>1 DEF AsInt
  <2>3. SortTypes'
    <3>1. /\ left' \in Nat /\ right' \in Nat /\ sortI' \in -1 .. n /\ j' \in -1 .. n
          /\ sortPc' \in {"call", "up"} /\ UNCHANGED <<input, base>>
      BY <1>1, <1>3, <2>1, <2>2
    <3> QED
      BY <1>4, <3>1 DEF SortTypes, n
  <2>4. /\ \A k \in DOMAIN calls' : /\ calls'[k][1] \in 0 .. n /\ calls'[k][2] \in 0 .. n - 1
                                    /\ calls'[k][1] <= calls'[k][2] + 1
        /\ \A k, m \in DOMAIN calls' : k < m => calls'[k][2] < calls'[m][1]
        /\ \A k \in DOMAIN calls' : r < calls'[k][1]
    <3>1. /\ \A k \in DOMAIN calls : /\ calls[k][1] \in 0 .. n /\ calls[k][2] \in 0 .. n - 1
                                     /\ calls[k][1] <= calls[k][2] + 1
          /\ \A k, m \in DOMAIN calls : k < m => calls[k][2] < calls[m][1]
      BY <1>6 DEF Sound, Apart, n
    <3>2. ASSUME NEW k \in DOMAIN calls', NEW m \in DOMAIN calls', k < m
          PROVE  calls'[k][2] < calls'[m][1]
      <4>1. k + 1 \in DOMAIN calls /\ m + 1 \in DOMAIN calls /\ k + 1 < m + 1
        BY <1>4, <3>2
      <4> QED
        BY <1>4, <3>1, <4>1
    <3>3. ASSUME NEW k \in DOMAIN calls' PROVE r < calls'[k][1]
      <4>1. 1 \in DOMAIN calls /\ k + 1 \in DOMAIN calls /\ 1 < k + 1
        BY <1>4
      <4> QED
        BY <1>4, <3>1, <4>1 DEF r
    <3> QED
      BY <1>4, <3>1, <3>2, <3>3
  <2>5. FrontCalls'
    <3> SUFFICES ASSUME NEW k \in DOMAIN calls', calls'[k][1] = 0 PROVE FALSE
      BY DEF FrontCalls
    <3> QED
      BY <2>1, <2>4
  <2>6. ASSUME NEW a \in 0 .. n - 1, NEW b \in 0 .. n - 1, a < b, ~(At(a) <= At(b))
        PROVE  \/ \E k \in DOMAIN calls' : calls'[k][1] <= a /\ b <= calls'[k][2]
               \/ l <= a /\ b <= r
    <3>1. PICK k \in DOMAIN calls : calls[k][1] <= a /\ b <= calls[k][2]
      BY <1>1, <1>6, <2>6 DEF Sound, Ordered, LeftToDo, Scanning, n
    <3>2. CASE k = 1
      BY <3>1, <3>2 DEF l, r
    <3>3. CASE k # 1
      <4>1. k - 1 \in DOMAIN calls' /\ (k - 1) + 1 = k
        <5>1. k \in 1 .. Len(calls) /\ Len(calls) \in Nat /\ DOMAIN calls' = 1 .. Len(calls) - 1
          BY <1>4
        <5> QED
          BY <3>3, <5>1
      <4>2. calls'[k - 1] = calls[k]
        BY <1>4, <4>1
      <4> QED
        BY <3>1, <4>1, <4>2
    <3> QED
      BY <3>2, <3>3
  <2>7. CASE l >= r
    <3>1. sortPc' = "call" /\ ~Scanning'
      BY <1>1, <2>7 DEF Scanning
    <3>2. Apart'
      BY <1>1, <2>4, <3>1 DEF Apart, n
    <3>3. Ordered'
      <4> SUFFICES ASSUME NEW a \in 0 .. n - 1, NEW b \in 0 .. n - 1, a < b, ~(At(a) <= At(b))
                   PROVE  \E k \in DOMAIN calls' : calls'[k][1] <= a /\ b <= calls'[k][2]
        BY <1>1 DEF Ordered, LeftToDo, n, At
      <4>1. ~(l <= a /\ b <= r)
        BY <2>1, <2>7
      <4> QED
        BY <2>6, <4>1
    <3> QED
      BY <1>2, <2>3, <2>5, <3>1, <3>2, <3>3 DEF Sound
  <2>8. CASE ~(l >= r)
    <3>1. sortPc' = "up" /\ Scanning' /\ l < r
      BY <1>1, <2>1, <2>8 DEF Scanning
    <3>2. Apart'
      BY <1>1, <2>1, <2>4, <3>1 DEF Apart, n
    <3>3. Ordered'
      <4> SUFFICES ASSUME NEW a \in 0 .. n - 1, NEW b \in 0 .. n - 1, a < b, ~(At(a) <= At(b))
                   PROVE  \/ \E k \in DOMAIN calls' : calls'[k][1] <= a /\ b <= calls'[k][2]
                          \/ l <= a /\ b <= r
        BY <1>1, <3>1 DEF Ordered, LeftToDo, n, At
      <4> QED
        BY <2>6
    <3>4. Unswapped'
      <4>1. l = 0 => InFront(r)
        BY <1>4, <1>6, <2>1, <3>1 DEF Sound, FrontCalls, l, r
      <4>2. InFront(r) => (base' = input' /\ r = Len(base') - 1)
                        \/ \A m \in 0 .. r : base'[m + 1] <= base'[0 + 1]
        BY <1>1 DEF InFront, At
      <4> QED
        BY <1>1, <2>1, <2>2, <3>1, <4>1, <4>2 DEF Unswapped, InFront, At
    <3> QED
      BY <1>2, <2>3, <2>5, <3>1, <3>2, <3>3, <3>4 DEF Sound
  <2> QED
    BY <2>7, <2>8
<1> QED
  BY <1>5, <1>6

LEMMA SortStep == ASSUME SortInv, [SortNext]_sortVars PROVE SortInv'
<1>1. CASE UNCHANGED sortVars
  BY <1>1 DEF sortVars, SortInv, SortTypes, Permuted, Sound, Doomed, Apart, Ordered, LeftToDo,
    FrontCalls, InFront, Unswapped, Swapped, Scanning, At
<1> QED
  BY <1>1, CallSort, UpSort, DownSort, SwapSort, SplitSort DEF SortNext

-----------------------------------------------------------------------------
\* What the invariant promises.
LEMMA SortFacts == SortInv => QuicksortTypeOK /\ Sorts /\ LeavesForSmallestFirst
<1> SUFFICES ASSUME SortInv PROVE QuicksortTypeOK /\ Sorts /\ LeavesForSmallestFirst
  OBVIOUS
<1> USE DEF SortInv
<1>1. /\ input \in Seq(Int) /\ base \in Seq(Int) /\ Len(base) = Len(input)
      /\ DOMAIN input = 1 .. Len(input) /\ DOMAIN base = 1 .. Len(input) /\ Len(input) \in Nat
  BY DEF SortTypes
<1>2. QuicksortTypeOK
  <2>1. \A k \in DOMAIN calls : calls[k] \in (0 .. SIZE - 1) \X (0 .. SIZE - 1)
    BY DEF SortTypes
  <2> QED
    BY <1>1, <2>1 DEF QuicksortTypeOK, SortTypes
<1>3. Sorts
  <2> SUFFICES ASSUME sortPc = "call", calls = <<>> PROVE Sorts
    BY DEF Sorts, Returned
  <2>1. Sound /\ ~Scanning
    BY DEF Doomed, Scanning
  <2>2. ASSUME NEW k \in 1 .. Len(base) - 1 PROVE base[k] <= base[k + 1]
    <3>1. k - 1 \in 0 .. Len(base) - 1 /\ k \in 0 .. Len(base) - 1 /\ k - 1 < k /\ (k - 1) + 1 = k
      BY <1>1
    <3>2. ~LeftToDo(k - 1, k)
      BY <2>1 DEF LeftToDo
    <3>3. At(k - 1) <= At(k)
      BY <2>1, <3>1, <3>2 DEF Sound, Ordered
    <3> QED
      BY <3>1, <3>3 DEF At
  <2>3. PICK f \in Injections(1 .. Len(input)) : \A k \in 1 .. Len(input) : base[k] = input[f[k]]
    BY DEF Permuted
  <2>4. /\ f \in [DOMAIN input -> DOMAIN input]
        /\ \A k, m \in DOMAIN input : f[k] = f[m] => k = m
        /\ \A k \in DOMAIN input : base[k] = input[f[k]]
    BY <1>1, <2>3 DEF Injections
  <2> QED
    BY <2>2, <2>4, Zenon DEF Sorts
<1>4. LeavesForSmallestFirst
  BY DEF LeavesForSmallestFirst, Sound, Doomed
<1> QED
  BY <1>2, <1>3, <1>4

-----------------------------------------------------------------------------
(***************************************************************************)
(* The conversion to UTF-8: it writes what arrives of the code points, one *)
(* behind the other.                                                       *)
(***************************************************************************)
CodePoints == {c \in Nat : IsCodePoint(c)}

Bytes == 0 .. 255

\* Where the bytes of a code point begin, when those of each end at ends.
BeginsAt(ends, k) == IF k = 1 THEN 1 ELSE ends[k - 1] + 1

\* The first d code points are written.
WrittenUpTo(d) ==
  \E ends \in [1 .. d -> 0 .. Len(output)] :
    /\ Len(output) = IF d = 0 THEN 0 ELSE ends[d]
    /\ \A k \in 1 .. d : IsWritten(SubSeq(output, BeginsAt(ends, k), ends[k]), utfName[k])

\* What is left of sequences put one behind the other, behind the first d, for each d.
Behind(rest, S, n, seqs) ==
  /\ rest \in [0 .. n -> Seq(S)] /\ rest[n] = <<>>
  /\ \A d \in 0 .. n - 1 : rest[d] = seqs[d + 1] \o rest[d + 1]

\* What is left to read behind the first d code points, for each d.
LeftToRead(rest, name) ==
  /\ rest \in [0 .. Len(name) -> Seq(UnitValues)] /\ rest[Len(name)] = <<>>
  /\ \A d \in 0 .. Len(name) - 1 : rest[d] = Units(name[d + 1]) \o rest[d + 1]

UtfInv ==
  /\ utfName \in Seq(CodePoints) /\ utfName # <<>>
  /\ codepoint \in UnitValues /\ output \in Seq(Bytes)
  /\ \E rest : LeftToRead(rest, utfName) /\ \E d \in 0 .. Len(utfName) :
       /\ WrittenUpTo(d)
       /\ \/ utfPc = "read" /\ string = rest[d]
          \/ /\ utfPc = "write" /\ d < Len(utfName) /\ codepoint = Arrives(utfName[d + 1])
             /\ string = rest[d + 1]

-----------------------------------------------------------------------------
\* The sequences that are left of a sequence of sequences, put one behind the other.
LEMMA RestsExist ==
  ASSUME NEW S, NEW n \in Nat \ {0}, NEW seqs \in [1 .. n -> Seq(S)]
  PROVE  \E rest : Behind(rest, S, n, seqs)
<1> DEFINE step == [p \in Nat \X Seq(S) |-> IF p[1] < n THEN seqs[n - p[1]] \o p[2] ELSE p[2]]
<1>1. step \in Steps(Seq(S)) /\ <<>> \in Seq(S)
  <2>1. ASSUME NEW p \in Nat \X Seq(S)
        PROVE  (IF p[1] < n THEN seqs[n - p[1]] \o p[2] ELSE p[2]) \in Seq(S)
    <3>1. p[1] < n => n - p[1] \in 1 .. n
      OBVIOUS
    <3> QED
      BY <3>1
  <2> QED
    BY <2>1 DEF Steps
<1> HIDE DEF step
<1>2. PICK g : Iterates(g, Seq(S), step, <<>>)
  BY <1>1, Iterated
<1>3. /\ g \in [Nat -> Seq(S)] /\ g[0] = <<>>
      /\ \A k \in Nat : g[k + 1] = step[<<k, g[k]>>]
  BY <1>2 DEF Iterates
<1>4. \A k \in Nat : k < n => g[k + 1] = seqs[n - k] \o g[k]
  BY <1>3 DEF step
<1> DEFINE rest == [d \in 0 .. n |-> g[n - d]]
<1>5. rest \in [0 .. n -> Seq(S)] /\ rest[n] = <<>>
  BY <1>3
<1>6. ASSUME NEW d \in 0 .. n - 1 PROVE rest[d] = seqs[d + 1] \o rest[d + 1]
  <2>1. /\ n - (d + 1) \in Nat /\ n - (d + 1) < n /\ (n - (d + 1)) + 1 = n - d
        /\ n - (n - (d + 1)) = d + 1 /\ d \in 0 .. n /\ d + 1 \in 0 .. n
    OBVIOUS
  <2>2. g[n - d] = seqs[d + 1] \o g[n - (d + 1)]
    BY <1>4, <2>1
  <2> QED
    BY <2>1, <2>2
<1> HIDE DEF rest
<1>7. Behind(rest, S, n, seqs)
  BY <1>5, <1>6 DEF Behind
<1> QED
  BY <1>7

\* What FlattenSeq computes on the way, from the first sequence on.
Concatenates(f, n, seqs) ==
  f = [i \in 1 .. n |-> IF i = 1 THEN seqs[i] ELSE f[i - 1] \o seqs[i]]

LEMMA PrefixesExist ==
  ASSUME NEW S, NEW n \in Nat \ {0}, NEW seqs \in [1 .. n -> Seq(S)]
  PROVE  \E f : Concatenates(f, n, seqs)
<1> DEFINE step == [p \in Nat \X Seq(S) |-> IF p[1] + 2 <= n THEN p[2] \o seqs[p[1] + 2] ELSE p[2]]
<1>1. step \in Steps(Seq(S)) /\ seqs[1] \in Seq(S)
  <2>1. ASSUME NEW p \in Nat \X Seq(S)
        PROVE  (IF p[1] + 2 <= n THEN p[2] \o seqs[p[1] + 2] ELSE p[2]) \in Seq(S)
    <3>1. p[1] + 2 <= n => p[1] + 2 \in 1 .. n
      OBVIOUS
    <3> QED
      BY <3>1
  <2> QED
    BY <2>1 DEF Steps
<1> HIDE DEF step
<1>2. PICK g : Iterates(g, Seq(S), step, seqs[1])
  BY <1>1, Iterated
<1>3. /\ g \in [Nat -> Seq(S)] /\ g[0] = seqs[1]
      /\ \A k \in Nat : g[k + 1] = step[<<k, g[k]>>]
  BY <1>2 DEF Iterates
<1>4. \A k \in Nat : k + 2 <= n => g[k + 1] = g[k] \o seqs[k + 2]
  BY <1>3 DEF step
<1> DEFINE parts == [i \in 1 .. n |-> g[i - 1]]
<1>6. DOMAIN parts = 1 .. n /\ \A i \in 1 .. n : parts[i] = g[i - 1]
  OBVIOUS
<1>7. parts = [i \in 1 .. n |-> parts[i]]
  OBVIOUS
<1> HIDE DEF parts
<1>5. Concatenates(parts, n, seqs)
  <2>1. ASSUME NEW i \in 1 .. n
        PROVE  parts[i] = IF i = 1 THEN seqs[i] ELSE parts[i - 1] \o seqs[i]
    <3>1. CASE i = 1
      BY <1>3, <1>6, <3>1
    <3>2. CASE i # 1
      <4>1. i - 2 \in Nat /\ (i - 2) + 1 = i - 1 /\ (i - 2) + 2 = i /\ i - 1 \in 1 .. n
            /\ (i - 1) - 1 = i - 2
        BY <3>2
      <4>2. g[i - 1] = g[i - 2] \o seqs[i]
        <5>1. i - 2 \in Nat /\ (i - 2) + 2 <= n
          BY <3>2
        <5>2. g[(i - 2) + 1] = g[i - 2] \o seqs[(i - 2) + 2]
          BY <1>4, <5>1, Zenon
        <5> QED
          BY <4>1, <5>2, Zenon
      <4>3. parts[i] = g[i - 1] /\ parts[i - 1] = g[i - 2]
        BY <1>6, <4>1
      <4> QED
        BY <3>2, <4>2, <4>3
    <3> QED
      BY <3>1, <3>2
  <2> QED
    BY <1>7, <2>1, Zenon DEF Concatenates
<1> QED
  BY <1>5, Zenon

\* In which order sequences are joined makes no difference.
JoinAssociates(S) ==
  \A a \in Seq(S), b \in Seq(S), c \in Seq(S) :
    a \o b \in Seq(S) /\ (a \o b) \o c = a \o (b \o c)

LEMMA Associative == ASSUME NEW S PROVE JoinAssociates(S)
<1> SUFFICES ASSUME NEW a \in Seq(S), NEW b \in Seq(S), NEW c \in Seq(S)
             PROVE  a \o b \in Seq(S) /\ (a \o b) \o c = a \o (b \o c)
  BY DEF JoinAssociates
<1> QED
  OBVIOUS

\* Nothing but the whole is left before the first.
LEMMA RestIsWhole ==
  ASSUME NEW S, NEW n \in Nat \ {0}, NEW seqs \in [1 .. n -> Seq(S)],
         NEW rest, Behind(rest, S, n, seqs)
  PROVE  FlattenSeq(seqs) = rest[0]
<1> DEFINE flatten == CHOOSE f : Concatenates(f, n, seqs)
<1>1. \E parts : Concatenates(parts, n, seqs)
  BY PrefixesExist
<1>2. Concatenates(flatten, n, seqs)
  BY <1>1, Zenon
<1>3. FlattenSeq(seqs) = flatten[n]
  <2>1. seqs \in Seq(Seq(S)) /\ Len(seqs) = n /\ n # 0
    OBVIOUS
  <2> QED
    BY <2>1, Zenon DEF FlattenSeq, flatten, Concatenates
<1> HIDE DEF flatten
<1>4. \A i \in 1 .. n : flatten[i] = IF i = 1 THEN seqs[i] ELSE flatten[i - 1] \o seqs[i]
  BY <1>2, Zenon DEF Concatenates
<1>5. \A k \in 1 .. n : seqs[k] \in Seq(S)
  OBVIOUS
<1>6. \A k \in 0 .. n : rest[k] \in Seq(S)
  BY DEF Behind
<1>7. \A k \in 0 .. n - 1 : rest[k] = seqs[k + 1] \o rest[k + 1]
  BY DEF Behind
<1>8. rest[n] = <<>>
  BY DEF Behind
<1> DEFINE Upto(i) == flatten[i] \in Seq(S) /\ flatten[i] \o rest[i] = rest[0]
<1>9. Upto(1)
  <2>1. 1 \in 1 .. n /\ 0 \in 0 .. n - 1 /\ 1 = 0 + 1
    OBVIOUS
  <2>2. flatten[1] = seqs[1] /\ seqs[1] \in Seq(S)
    BY <1>4, <1>5, <2>1, Zenon
  <2>3. rest[0] = seqs[1] \o rest[1]
    BY <1>7, <2>1, Zenon
  <2> QED
    BY <2>2, <2>3, Zenon
<1>10. ASSUME NEW k \in 1 .. n, k + 1 \in 1 .. n, Upto(k) PROVE Upto(k + 1)
  <2>1. k + 1 # 1 /\ (k + 1) - 1 = k /\ k \in 0 .. n - 1 /\ k + 1 \in 0 .. n
    BY <1>10
  <2>2. flatten[k + 1] = flatten[k] \o seqs[k + 1] /\ seqs[k + 1] \in Seq(S)
    BY <1>4, <1>5, <1>10, <2>1, Zenon
  <2>3. rest[k] = seqs[k + 1] \o rest[k + 1] /\ rest[k + 1] \in Seq(S)
    BY <1>6, <1>7, <2>1, Zenon
  <2>4. JoinAssociates(S)
    BY Associative, Zenon
  <2>5. flatten[k] \in Seq(S) /\ flatten[k] \o rest[k] = rest[0]
    BY <1>10, Zenon
  <2>6. /\ flatten[k] \o seqs[k + 1] \in Seq(S)
        /\ (flatten[k] \o seqs[k + 1]) \o rest[k + 1] = flatten[k] \o (seqs[k + 1] \o rest[k + 1])
    BY <2>2, <2>3, <2>4, <2>5, Zenon DEF JoinAssociates
  <2>7. flatten[k + 1] \o rest[k + 1] = rest[0]
    BY <2>2, <2>3, <2>5, <2>6, Zenon
  <2> QED
    BY <2>2, <2>6, <2>7, Zenon
<1> HIDE DEF Upto
<1> DEFINE R == {i \in Nat : i + 1 \in 1 .. n => Upto(i + 1)}
<1>11. 0 \in R
  <2>1. 0 + 1 = 1
    OBVIOUS
  <2> QED
    BY <1>9, <2>1
<1>12. ASSUME NEW i \in Nat, i \in R PROVE i + 1 \in R
  <2> SUFFICES ASSUME (i + 1) + 1 \in 1 .. n PROVE Upto((i + 1) + 1)
    OBVIOUS
  <2>1. i + 1 \in 1 .. n
    OBVIOUS
  <2>2. Upto(i + 1)
    BY <1>12, <2>1
  <2> QED
    BY <1>10, <2>1, <2>2
<1>13. Nat \subseteq R
  <2> HIDE DEF R
  <2> QED
    BY <1>11, <1>12, Induct
<1>14. Upto(n)
  <2>1. n - 1 \in Nat /\ (n - 1) + 1 = n /\ n \in 1 .. n
    OBVIOUS
  <2>2. n - 1 \in R
    BY <1>13, <2>1
  <2> QED
    BY <2>1, <2>2
<1>15. flatten[n] = rest[0]
  BY <1>8, <1>14 DEF Upto
<1> QED
  BY <1>3, <1>15

\* How UTF-16 writes a code point, and what the code makes of it.
LEMMA UnitFacts ==
  ASSUME NEW c \in CodePoints
  PROVE  /\ Units(c) \in Seq(UnitValues) /\ Arrives(c) = Units(c)[1]
         /\ Arrives(c) \in Nat /\ Arrives(c) < 65536 /\ Arrives(c) \in UnitValues
         /\ c < 128 => Arrives(c) < 128
         /\ c >= 128 => Arrives(c) >= 128
         /\ IF IsHigh(Arrives(c)) THEN Len(Units(c)) = 2 ELSE Len(Units(c)) = 1
<1>1. c \in Nat /\ c < 1114112 /\ ~(c >= 55296 /\ c < 57344)
  BY SMT DEF CodePoints, IsCodePoint, IsSurrogate
<1>2. \A u \in Nat : u < 65536 => u \in UnitValues
  <2>1. ASSUME NEW u \in Nat, u < 65536 PROVE u <= LargestUnit
    BY <2>1, SMT DEF LargestUnit
  <2>2. LargestUnit \in Int
    BY DEF LargestUnit
  <2> QED
    BY <2>1, <2>2 DEF UnitValues
<1>3. CASE c < 65536
  <2>1. Units(c) = <<c>>
    BY <1>3, SMT DEF Units
  <2>2. c \in UnitValues
    BY <1>1, <1>2, <1>3
  <2>3. <<c>> \in Seq(UnitValues) /\ Len(<<c>>) = 1 /\ Head(<<c>>) = c /\ <<c>>[1] = c
    BY <2>2
  <2>4. Arrives(c) = c
    BY <2>1, <2>3 DEF Arrives
  <2>5. ~IsHigh(c)
    BY <1>1, SMT DEF IsHigh
  <2> QED
    BY <1>1, <1>3, <2>1, <2>2, <2>3, <2>4, <2>5
<1>4. CASE ~(c < 65536)
  <2> DEFINE a == 55296 + (c - 65536) \div 1024
             z == 56320 + ((c - 65536) % 1024)
  <2>1. Units(c) = <<a, z>>
    BY <1>4, SMT DEF Units
  <2>2. a \in Nat /\ z \in Nat /\ a >= 55296 /\ a < 56320 /\ z < 65536
    BY <1>1, <1>4, SMT
  <2> HIDE DEF a, z
  <2>3. a \in UnitValues /\ z \in UnitValues
    BY <1>2, <2>2, SMT
  <2>4. <<a, z>> \in Seq(UnitValues) /\ Len(<<a, z>>) = 2 /\ Head(<<a, z>>) = a /\ <<a, z>>[1] = a
    BY <2>3
  <2>5. Arrives(c) = a
    BY <2>1, <2>4 DEF Arrives
  <2>6. IsHigh(a)
    BY <2>2, SMT DEF IsHigh
  <2> QED
    BY <1>1, <1>4, <2>1, <2>2, <2>3, <2>4, <2>5, <2>6
<1> QED
  BY <1>3, <1>4

LEMMA InitUtfInv == UtfInit => UtfInv
<1> SUFFICES ASSUME UtfInit PROVE UtfInv
  OBVIOUS
<1> USE DEF UtfInit, UtfStart
<1> DEFINE n == Len(utfName)
           seqs == [k \in DOMAIN utfName |-> Units(utfName[k])]
<1>1. utfName \in Seq(CodePoints) /\ utfName # <<>>
  <2>1. /\ utfName \in Seq(Nat) /\ utfName # <<>>
        /\ \A k \in DOMAIN utfName : IsCodePoint(utfName[k])
    BY UtfAssumption
  <2>2. \A k \in DOMAIN utfName : utfName[k] \in CodePoints
    BY <2>1 DEF CodePoints
  <2> QED
    BY <2>1, <2>2
<1>2. n \in Nat \ {0} /\ DOMAIN utfName = 1 .. n /\ \A k \in 1 .. n : utfName[k] \in CodePoints
  BY <1>1
<1> HIDE DEF n
<1>3. seqs \in [1 .. n -> Seq(UnitValues)] /\ \A k \in 1 .. n : seqs[k] = Units(utfName[k])
  BY <1>2, UnitFacts
<1>4. string = FlattenSeq(seqs)
  OBVIOUS
<1> HIDE DEF seqs
<1>5. PICK rest : Behind(rest, UnitValues, n, seqs)
  BY <1>2, <1>3, RestsExist
<1>6. string = rest[0]
  BY <1>2, <1>3, <1>4, <1>5, RestIsWhole
<1>7. LeftToRead(rest, utfName)
  <2>1. \A d \in 0 .. n - 1 : d + 1 \in 1 .. n
    BY <1>2
  <2> QED
    BY <1>3, <1>5, <2>1 DEF Behind, LeftToRead, n
<1>8. \A d : d = 0 => WrittenUpTo(d)
  <2> DEFINE ends == [k \in 1 .. 0 |-> 0]
  <2>1. ends \in [1 .. 0 -> 0 .. Len(output)] /\ Len(output) = 0 /\ 1 .. 0 = {}
    OBVIOUS
  <2> HIDE DEF ends
  <2>2. \A k \in 1 .. 0 : IsWritten(SubSeq(output, BeginsAt(ends, k), ends[k]), utfName[k])
    BY <2>1
  <2>3. Len(output) = IF 0 = 0 THEN 0 ELSE ends[0]
    BY <2>1
  <2> QED
    BY <2>1, <2>2, <2>3, Zenon DEF WrittenUpTo
<1>9. codepoint \in UnitValues /\ output \in Seq(Bytes) /\ utfPc = "read"
  BY SMT DEF UnitValues, LargestUnit
<1>10. \E d \in 0 .. n : WrittenUpTo(d) /\ utfPc = "read" /\ string = rest[d]
  <2>1. 0 \in 0 .. n
    BY <1>2
  <2> QED
    BY <1>6, <1>8, <1>9, <2>1
<1> QED
  BY <1>1, <1>7, <1>9, <1>10 DEF UtfInv, n

\* What is put behind a sequence does not change its parts, and is the rest.
LEMMA PartsOfMore ==
  ASSUME NEW S, NEW s \in Seq(S), NEW t \in Seq(S)
  PROVE  /\ \A a \in Nat \ {0}, b \in 0 .. Len(s) : SubSeq(s \o t, a, b) = SubSeq(s, a, b)
         /\ SubSeq(s \o t, Len(s) + 1, Len(s \o t)) = t
<1>1. /\ s \o t \in Seq(S) /\ Len(s \o t) = Len(s) + Len(t) /\ Len(s) \in Nat /\ Len(t) \in Nat
      /\ \A k \in 1 .. Len(s) : (s \o t)[k] = s[k]
      /\ \A k \in 1 .. Len(t) : (s \o t)[Len(s) + k] = t[k]
  OBVIOUS
<1> DEFINE u == s \o t
<1> HIDE DEF u
<1>2. ASSUME NEW a \in Nat \ {0}, NEW b \in 0 .. Len(s) PROVE SubSeq(u, a, b) = SubSeq(s, a, b)
  <2>1. CASE b < a
    BY <1>1, <2>1 DEF u
  <2>2. CASE a <= b
    BY <1>1, <2>2 DEF u
  <2> QED
    BY <2>1, <2>2
<1>3. SubSeq(u, Len(s) + 1, Len(u)) = t
  BY <1>1 DEF u
<1> QED
  BY <1>2, <1>3 DEF u

\* A code point's units in front of a sequence: the first, and what is behind them.
LEMMA UnitsInFront ==
  ASSUME NEW c \in CodePoints, NEW t \in Seq(UnitValues), NEW s, s = Units(c) \o t
  PROVE  /\ Head(s) = Arrives(c)
         /\ t = IF IsHigh(Head(s)) THEN SubSeq(s, 3, Len(s)) ELSE Tail(s)
<1> DEFINE u == Units(c)
<1> HIDE DEF u
<1>1. /\ u \in Seq(UnitValues) /\ Arrives(c) = u[1] /\ s = u \o t
      /\ IF IsHigh(Arrives(c)) THEN Len(u) = 2 ELSE Len(u) = 1
  BY UnitFacts DEF u
<1>2. s \in Seq(UnitValues) /\ Len(s) = Len(u) + Len(t) /\ Len(u) \in {1, 2} /\ Len(t) \in Nat
  BY <1>1
<1>7. Len(u) = IF IsHigh(Arrives(c)) THEN 2 ELSE 1
  BY <1>1, Zenon
<1>3. Head(s) = Arrives(c)
  BY <1>1, <1>2
<1>4. SubSeq(s, Len(u) + 1, Len(s)) = t
  BY <1>1, <1>2, PartsOfMore
<1>5. CASE IsHigh(Arrives(c))
  <2>1. Len(u) + 1 = 3
    BY <1>5, <1>7
  <2> QED
    BY <1>3, <1>4, <1>5, <2>1
<1>6. CASE ~IsHigh(Arrives(c))
  <2>1. Len(u) + 1 = 2
    BY <1>6, <1>7
  <2>2. Tail(s) = SubSeq(s, 2, Len(s))
    BY <1>2
  <2> QED
    BY <1>3, <1>4, <1>6, <2>1, <2>2
<1> QED
  BY <1>5, <1>6

LEMMA ReadUtf == ASSUME UtfInv, utf16_to_codepoint PROVE UtfInv'
<1> DEFINE n == Len(utfName)
<1>1. /\ utfName \in Seq(CodePoints) /\ utfName # <<>> /\ n \in Nat
      /\ codepoint \in UnitValues /\ output \in Seq(Bytes)
  BY DEF UtfInv
<1>2. PICK rest : /\ LeftToRead(rest, utfName)
                  /\ \E d \in 0 .. n : WrittenUpTo(d) /\ utfPc = "read" /\ string = rest[d]
  BY DEF UtfInv, utf16_to_codepoint
<1>3. PICK d \in 0 .. n : WrittenUpTo(d) /\ utfPc = "read" /\ string = rest[d]
  BY <1>2
<1> HIDE DEF n
<1>4. d < n
  <2>1. d = n => string = <<>>
    BY <1>2, <1>3 DEF LeftToRead, n
  <2>2. string # <<>>
    BY DEF utf16_to_codepoint
  <2>3. d # n
    BY <2>1, <2>2, Zenon
  <2> QED
    BY <1>1, <2>3
<1>5. d + 1 \in 1 .. n /\ d + 1 \in 0 .. n /\ utfName[d + 1] \in CodePoints
  BY <1>1, <1>4 DEF n
<1>6. string = Units(utfName[d + 1]) \o rest[d + 1] /\ rest[d + 1] \in Seq(UnitValues)
  <2>1. d \in 0 .. n - 1
    BY <1>1, <1>4
  <2> QED
    BY <1>2, <1>3, <1>5, <2>1 DEF LeftToRead, n
<1>7. /\ Head(string) = Arrives(utfName[d + 1])
      /\ rest[d + 1] = IF IsHigh(Head(string)) THEN SubSeq(string, 3, Len(string)) ELSE Tail(string)
  <2> DEFINE c == utfName[d + 1]
             t == rest[d + 1]
  <2>1. c \in CodePoints /\ t \in Seq(UnitValues) /\ string = Units(c) \o t
    BY <1>5, <1>6
  <2> HIDE DEF c, t
  <2>2. Head(string) = Arrives(c)
    BY <2>1, UnitsInFront, Zenon
  <2>3. t = IF IsHigh(Head(string)) THEN SubSeq(string, 3, Len(string)) ELSE Tail(string)
    BY <2>1, UnitsInFront, Zenon
  <2> QED
    BY <2>2, <2>3, Zenon DEF c, t
<1>8. /\ utfPc' = "write" /\ codepoint' = Arrives(utfName[d + 1]) /\ string' = rest[d + 1]
      /\ UNCHANGED <<utfName, output>>
  BY <1>7 DEF utf16_to_codepoint
<1>9. WrittenUpTo(d)'
  BY <1>3, <1>8 DEF WrittenUpTo
<1>10. codepoint' \in UnitValues
  BY <1>5, <1>8, UnitFacts
<1>11. LeftToRead(rest, utfName)'
  BY <1>2, <1>8
<1> QED
  BY <1>1, <1>4, <1>8, <1>9, <1>10, <1>11 DEF UtfInv, n

\* The two forms with more than one byte and no surrogates.
LEMMA BytesStandFor ==
  ASSUME NEW c \in Nat, c >= 128, c < 65536
  PROVE  Utf8(c) \in Seq(Bytes) /\ StandsFor(Utf8(c), c)
<1>1. CASE c <= 2047
  <2> DEFINE a == (c \div 64) % 32
             z == (c \div 1) % 64
  <2>1. c = 64 * a + z /\ a \in 0 .. 31 /\ z \in 0 .. 63 /\ a \in Int /\ z \in Int
    BY <1>1, SMT
  <2>2. Utf8(c) = <<192 + UtfBits(c, 64, 32), 128 + UtfBits(c, 1, 64)>>
    BY <1>1, SMT DEF Utf8
  <2>3. Utf8(c) = <<192 + a, 128 + z>>
    BY <2>2, SMT DEF UtfBits
  <2> HIDE DEF a, z
  <2> DEFINE b == <<192 + a, 128 + z>>
  <2>4. b \in Seq(Bytes) /\ Len(b) = 2 /\ b[1] = 192 + a /\ b[2] = 128 + z
    BY <2>1 DEF Bytes
  <2> HIDE DEF b
  <2>5. \A k \in 2 .. Len(b) : b[k] >= 128 /\ b[k] < 192
    BY <2>1, <2>4, SMT
  <2>6. Len(b) = 2 /\ c = 64 * (b[1] - 192) + (b[2] - 128)
    BY <2>1, <2>4, SMT
  <2>7. StandsFor(b, c)
    BY <1>1, <2>5, <2>6, SMT DEF StandsFor
  <2> QED
    BY <2>3, <2>4, <2>7, SMT DEF b
<1>2. CASE c > 2047
  <2> DEFINE a == (c \div 4096) % 16
             y == (c \div 64) % 64
             z == (c \div 1) % 64
  <2>1. /\ c = 4096 * a + 64 * y + z /\ a \in 0 .. 15 /\ y \in 0 .. 63 /\ z \in 0 .. 63
        /\ a \in Int /\ y \in Int /\ z \in Int
    BY <1>2, SMT
  <2>2. Utf8(c) = <<224 + UtfBits(c, 4096, 16), 128 + UtfBits(c, 64, 64), 128 + UtfBits(c, 1, 64)>>
    BY <1>2, SMT DEF Utf8
  <2>3. Utf8(c) = <<224 + a, 128 + y, 128 + z>>
    BY <2>2, SMT DEF UtfBits
  <2> HIDE DEF a, y, z
  <2> DEFINE b == <<224 + a, 128 + y, 128 + z>>
  <2>4. b \in Seq(Bytes) /\ Len(b) = 3 /\ b[1] = 224 + a /\ b[2] = 128 + y /\ b[3] = 128 + z
    BY <2>1 DEF Bytes
  <2> HIDE DEF b
  <2>5. \A k \in 2 .. Len(b) : b[k] >= 128 /\ b[k] < 192
    BY <2>1, <2>4, SMT
  <2>6. Len(b) = 3 /\ c = 4096 * (b[1] - 224) + 64 * (b[2] - 128) + (b[3] - 128)
    BY <2>1, <2>4, SMT
  <2>7. StandsFor(b, c)
    BY <1>2, <2>5, <2>6, SMT DEF StandsFor
  <2> QED
    BY <2>3, <2>4, <2>7, SMT DEF b
<1> QED
  BY <1>1, <1>2

LEMMA WriteUtf == ASSUME UtfInv, codepoint_to_utf8 PROVE UtfInv'
<1> DEFINE n == Len(utfName)
<1>0. PICK rest :
        /\ LeftToRead(rest, utfName)
        /\ \E d \in 0 .. n : /\ WrittenUpTo(d) /\ utfPc = "write" /\ d < n
                             /\ codepoint = Arrives(utfName[d + 1]) /\ string = rest[d + 1]
  BY DEF UtfInv, codepoint_to_utf8
<1>1. PICK d \in 0 .. n : /\ WrittenUpTo(d) /\ utfPc = "write" /\ d < n
                          /\ codepoint = Arrives(utfName[d + 1]) /\ string = rest[d + 1]
  BY <1>0
<1>2. /\ utfName \in Seq(CodePoints) /\ utfName # <<>> /\ n \in Nat
      /\ utfName[d + 1] \in CodePoints /\ codepoint \in UnitValues
  BY <1>1 DEF UtfInv
<1> DEFINE bytes == Utf8(codepoint)
<1>3. bytes \in Seq(Bytes) /\ IsWritten(bytes, utfName[d + 1])
  <2>1. CASE utfName[d + 1] < 128
    <3>1. codepoint \in Nat /\ codepoint < 128
      BY <1>1, <1>2, <2>1, UnitFacts
    <3>2. bytes = <<>>
      BY <3>1, SMT DEF Utf8
    <3> QED
      BY <2>1, <3>2 DEF IsWritten
  <2>2. CASE ~(utfName[d + 1] < 128)
    <3>1. utfName[d + 1] \in Nat
      BY <1>2 DEF CodePoints
    <3>2. codepoint \in Nat /\ codepoint >= 128 /\ codepoint < 65536
      BY <1>1, <1>2, <2>2, <3>1, UnitFacts
    <3>3. bytes \in Seq(Bytes) /\ StandsFor(bytes, codepoint)
      BY <3>2, BytesStandFor
    <3> HIDE DEF bytes
    <3> QED
      BY <1>1, <2>2, <3>3 DEF IsWritten
  <2> QED
    BY <2>1, <2>2
<1>4. /\ utfPc' = "read" /\ output' = output \o bytes
      /\ UNCHANGED <<utfName, string, codepoint>>
  BY DEF codepoint_to_utf8
<1> HIDE DEF bytes
<1>5. /\ output' \in Seq(Bytes) /\ Len(output') = Len(output) + Len(bytes)
      /\ Len(output) \in Nat /\ Len(bytes) \in Nat
      /\ \A a \in Nat \ {0}, b \in 0 .. Len(output) : SubSeq(output', a, b) = SubSeq(output, a, b)
      /\ SubSeq(output', Len(output) + 1, Len(output')) = bytes
  <2>1. output \in Seq(Bytes)
    BY DEF UtfInv
  <2> QED
    BY <1>3, <1>4, <2>1, PartsOfMore
<1>6. WrittenUpTo(d + 1)'
  <2>1. PICK ends \in [1 .. d -> 0 .. Len(output)] :
          /\ Len(output) = IF d = 0 THEN 0 ELSE ends[d]
          /\ \A k \in 1 .. d : IsWritten(SubSeq(output, BeginsAt(ends, k), ends[k]), utfName[k])
    BY <1>1 DEF WrittenUpTo
  <2> DEFINE ends2 == [k \in 1 .. d + 1 |-> IF k = d + 1 THEN Len(output') ELSE ends[k]]
  <2>2. /\ ends2 \in [1 .. d + 1 -> 0 .. Len(output')] /\ ends2[d + 1] = Len(output')
        /\ \A k \in 1 .. d : ends2[k] = ends[k]
    <3>1. d \in Nat /\ Len(output) \in Nat /\ Len(output') \in Nat /\ Len(output) <= Len(output')
      BY <1>5
    <3> QED
      BY <2>1, <3>1
  <2> HIDE DEF ends2
  <2>3. ASSUME NEW k \in 1 .. d + 1
        PROVE  IsWritten(SubSeq(output', BeginsAt(ends2, k), ends2[k]), utfName[k])
    <3>1. CASE k = d + 1
      <4>1. BeginsAt(ends2, k) = Len(output) + 1
        BY <2>1, <2>2, <3>1 DEF BeginsAt
      <4>2. SubSeq(output', BeginsAt(ends2, k), ends2[k]) = bytes
        BY <1>5, <2>2, <3>1, <4>1
      <4> QED
        BY <1>1, <1>3, <3>1, <4>2
    <3>2. CASE k # d + 1
      <4>1. k \in 1 .. d /\ ends2[k] = ends[k] /\ ends[k] \in 0 .. Len(output)
        BY <2>1, <2>2, <3>2
      <4>2. BeginsAt(ends2, k) = BeginsAt(ends, k) /\ BeginsAt(ends, k) \in Nat \ {0}
        <5>1. k # 1 => k - 1 \in 1 .. d /\ ends[k - 1] \in 0 .. Len(output)
          BY <2>1, <4>1
        <5> QED
          BY <1>5, <2>2, <5>1 DEF BeginsAt
      <4>3. SubSeq(output', BeginsAt(ends2, k), ends2[k]) = SubSeq(output, BeginsAt(ends, k), ends[k])
        BY <1>5, <4>1, <4>2
      <4> QED
        BY <2>1, <4>1, <4>3
    <3> QED
      BY <3>1, <3>2
  <2>4. Len(output') = IF d + 1 = 0 THEN 0 ELSE ends2[d + 1]
    BY <2>2
  <2> QED
    BY <1>4, <2>2, <2>3, <2>4 DEF WrittenUpTo
<1>7. string' = rest[d + 1] /\ d + 1 \in 0 .. Len(utfName') /\ LeftToRead(rest, utfName)'
  BY <1>0, <1>1, <1>2, <1>4
<1>8. utfName' \in Seq(CodePoints) /\ utfName' # <<>> /\ codepoint' \in UnitValues
  BY <1>2, <1>4
<1> QED
  BY <1>4, <1>5, <1>6, <1>7, <1>8 DEF UtfInv

LEMMA UtfStep == ASSUME UtfInv, [UtfNext]_utfVars PROVE UtfInv'
<1>1. CASE UNCHANGED utfVars
  BY <1>1 DEF utfVars, UtfInv, WrittenUpTo, LeftToRead
<1> QED
  BY <1>1, ReadUtf, WriteUtf DEF UtfNext

\* What the invariant promises.
LEMMA UtfFacts == UtfInv => UtfTypeOK /\ NameWritten
<1> SUFFICES ASSUME UtfInv PROVE UtfTypeOK /\ NameWritten
  OBVIOUS
<1> DEFINE n == Len(utfName)
<1>0. PICK rest :
        /\ LeftToRead(rest, utfName)
        /\ \E d \in 0 .. n :
             /\ WrittenUpTo(d)
             /\ \/ utfPc = "read" /\ string = rest[d]
                \/ utfPc = "write" /\ d < n /\ string = rest[d + 1]
  BY DEF UtfInv
<1>1. PICK d \in 0 .. n :
        /\ WrittenUpTo(d)
        /\ \/ utfPc = "read" /\ string = rest[d]
           \/ utfPc = "write" /\ d < n /\ string = rest[d + 1]
  BY <1>0
<1>2. utfName \in Seq(CodePoints) /\ n \in Nat \ {0}
  BY DEF UtfInv
<1>3. UtfTypeOK
  <2>1. string \in Seq(UnitValues)
    <3>1. rest \in [0 .. n -> Seq(UnitValues)] /\ (d < n => d + 1 \in 0 .. n)
      BY <1>0, <1>2 DEF LeftToRead
    <3> HIDE DEF n
    <3> QED
      BY <1>1, <3>1
  <2> QED
    BY <1>1, <2>1 DEF UtfTypeOK, UtfInv, Bytes
<1>4. NameWritten
  <2> SUFFICES ASSUME utfPc = "read", string = <<>> PROVE NameWritten
    BY DEF NameWritten
  <2>1. d = n
    <3>1. rest[d] = <<>>
      BY <1>1
    <3> SUFFICES ASSUME d < n PROVE FALSE
      BY <1>2
    <3>2. d \in 0 .. n - 1 /\ d + 1 \in 1 .. n /\ d + 1 \in 0 .. n
      BY <1>2
    <3>3. rest[d] = Units(utfName[d + 1]) \o rest[d + 1] /\ rest[d + 1] \in Seq(UnitValues)
      BY <1>0, <3>2 DEF LeftToRead
    <3>4. utfName[d + 1] \in CodePoints
      BY <1>2, <3>2
    <3>5. Units(utfName[d + 1]) \in Seq(UnitValues) /\ Len(Units(utfName[d + 1])) >= 1
      BY <3>4, UnitFacts
    <3>6. \A a \in Seq(UnitValues), b \in Seq(UnitValues) : Len(a) >= 1 => a \o b # <<>>
      OBVIOUS
    <3>7. rest[d] # <<>>
      BY <3>3, <3>5, <3>6, Zenon
    <3> QED
      BY <3>1, <3>7, Zenon
  <2>2. PICK ends \in [1 .. n -> 0 .. Len(output)] :
          /\ Len(output) = IF n = 0 THEN 0 ELSE ends[n]
          /\ \A k \in 1 .. n : IsWritten(SubSeq(output, BeginsAt(ends, k), ends[k]), utfName[k])
    BY <1>1, <2>1 DEF WrittenUpTo
  <2>3. ends[n] = Len(output) /\ DOMAIN utfName = 1 .. n
    BY <1>2, <2>2
  <2> QED
    BY <2>2, <2>3 DEF NameWritten, BeginsAt
<1> QED
  BY <1>3, <1>4

-----------------------------------------------------------------------------
(***************************************************************************)
(* The parts together: each moves alone, so what its own steps keep holds. *)
(***************************************************************************)
LEMMA KernelStep ==
  ASSUME [KernelPartsNext]_kernelPartsVars
  PROVE  /\ [AtaNext]_ataVars /\ [SortNext]_sortVars /\ [UtfNext]_utfVars
<1>1. CASE UNCHANGED kernelPartsVars
  BY <1>1 DEF kernelPartsVars
<1>2. CASE KernelPartsNext
  <2>1. CASE Only("disk") /\ AtaNext
    BY <2>1 DEF Only
  <2>2. CASE Only("cli") /\ CliNext
    BY <2>2 DEF Only
  <2>3. CASE Only("printf") /\ PrintfNext
    BY <2>3 DEF Only
  <2>4. CASE Only("quicksort") /\ SortNext
    BY <2>4 DEF Only
  <2>5. CASE Only("utf") /\ UtfNext
    BY <2>5 DEF Only
  <2> QED
    BY <1>2, <2>1, <2>2, <2>3, <2>4, <2>5 DEF KernelPartsNext
<1> QED
  BY <1>1, <1>2

\* The kernel's disk driver does what its callers are promised, for every drive that is
\* attached or missing, every geometry, every read and every pace of the drive: a read
\* that returns true has put the sectors asked for into the caller's buffer, whatever the
\* tries before it met, and a command goes to the drive meant, when it is idle (disk.c).
THEOREM DrivesServed == KernelPartsSpec => DrivesAreServed
<1>1. KernelPartsInit => AtaInit
  BY DEF KernelPartsInit
<1>2. AtaInv /\ [KernelPartsNext]_kernelPartsVars => AtaInv'
  BY KernelStep, AtaStep
<1>3. KernelPartsSpec => []AtaInv
  BY <1>1, <1>2, InitAtaInv, PTL DEF KernelPartsSpec
<1>4. KernelPartsInit => Service!Init
  BY <1>1 DEF AtaInit, Service!Init, InCall
<1>5. AtaInv /\ [KernelPartsNext]_kernelPartsVars =>
        [Service!Call \/ Service!Return]_<<IF InCall THEN req ELSE Nothing, ataResult>>
  BY KernelStep, AtaServes
<1>6. AtaInv /\ [KernelPartsNext]_kernelPartsVars =>
        [ataPc = "command" /\ ataPc' = "busyWait" =>
           /\ Selected(Channel(Id)) = Id
           /\ Id \in Attached => (drive[Id].todo = <<>> /\ ~drive[Id].drq)]_ataVars
  BY AtaCommands
<1> QED
  BY <1>3, <1>4, <1>5, <1>6, AtaTyped, PTL
  DEF KernelPartsSpec, DrivesAreServed, ImplementsDisk, Service!Spec, CommandsToIdleDrive

\* For every array of less than half of a size_t, equal elements included: quicksort has
\* left it sorted, with the same elements, when it returns, and reads outside of it only
\* if its first element is the one smallest (stdlib.c).
THEOREM ArraysAreSorted ==
  KernelPartsSpec => [](QuicksortTypeOK /\ Sorts /\ LeavesForSmallestFirst)
<1>1. KernelPartsInit => SortInit
  BY QuicksortAssumption DEF KernelPartsInit, Input, SortInit
<1>2. SortInv /\ [KernelPartsNext]_kernelPartsVars => SortInv'
  BY KernelStep, SortStep
<1> QED
  BY <1>1, <1>2, InitSortInv, SortFacts, PTL DEF KernelPartsSpec

\* What would read long file names: quicksort as above, and, for every name of any code
\* points and any length: a code point of one unit that is not ASCII is written in its
\* place and shortest form, whatever others are in the name; of a surrogate pair it is the
\* first unit that is written so, and of ASCII nothing (stdlib.c, string.c).
THEOREM LongNames == KernelPartsSpec => []LongNamesComeThrough
<1>1. KernelPartsInit => UtfInit
  BY UtfAssumption DEF KernelPartsInit, Input, UtfInit
<1>2. UtfInv /\ [KernelPartsNext]_kernelPartsVars => UtfInv'
  BY KernelStep, UtfStep
<1>3. KernelPartsSpec => []UtfInv
  BY <1>1, <1>2, InitUtfInv, PTL DEF KernelPartsSpec
<1>4. QuicksortTypeOK /\ Sorts /\ LeavesForSmallestFirst /\ UtfInv => LongNamesComeThrough
  BY UtfFacts DEF LongNamesComeThrough
<1> QED
  BY <1>3, <1>4, ArraysAreSorted, PTL
=============================================================================
