------------------------- MODULE MaildirInboundProofs -------------------------
(***************************************************************************)
(* Proofs about the inbound maildir, for any number of mails, of pollers that *)
(* share the mailbox, and of faults.                                         *)
(***************************************************************************)
EXTENDS MaildirInbound, FiniteSetTheorems, TLAPS

\* A mail has at most one copy: spoken, or held by one poller.
OneCopy ==
    /\ \A m \in Messages : spoken[m] <= 1
    /\ \A m \in Messages : spoken[m] = 1 => kind[m] = "allowed" /\ box[m] = "cur"
    /\ \A m \in Messages, p \in Pollers :
          m \in replies[p] => spoken[m] = 0 /\ kind[m] = "allowed" /\ box[m] = "cur"
    /\ \A m \in Messages, p, q \in Pollers : m \in replies[p] /\ m \in replies[q] => p = q

\* A reply that left new/ has a copy, unless something failed.
HasCopy ==
    \A m \in Messages :
        kind[m] = "allowed" /\ box[m] = "cur" /\ faults = 0 =>
            spoken[m] = 1 \/ \E p \in Pollers : m \in replies[p]

\* A poller has a mail exactly while it moves it, one that was there to read.
HasFile ==
    \A p \in Pollers :
        /\ step[p] = "moving" <=> file[p] # NoMessage
        /\ file[p] \in Messages => box[file[p]] # "unsent" /\ kind[file[p]] # "unreadable"

Readers(m) == {p \in Pollers : file[p] = m}

\* Until a mail is moved, every count of it is a poller that has it or a fault.
Counted ==
    /\ \A m \in Messages : box[m] # "cur" => counted[m] <= faults + Cardinality(Readers(m))
    /\ DropsAreAccounted

Inductive == TypeOK /\ OneCopy /\ HasCopy /\ HasFile /\ Counted

LEMMA CountsReaders ==
    ASSUME NEW m
    PROVE  /\ IsFiniteSet(Readers(m))
           /\ Cardinality(Readers(m)) \in Nat /\ Cardinality(Pollers) \in Nat
           /\ Cardinality(Readers(m)) <= Cardinality(Pollers)
  BY MaildirAssumption, FS_Subset, FS_CardinalityType DEF Readers

LEMMA InductiveInit == Init => Inductive
  <1> SUFFICES ASSUME Init PROVE Inductive
    OBVIOUS
  <1>1. TypeOK
    BY MaildirAssumption DEF Init, TypeOK, Kinds
  <1>2. OneCopy /\ HasCopy /\ HasFile
    BY MaildirAssumption DEF Init, OneCopy, HasCopy, HasFile
  <1>3. \A m \in Messages : Cardinality(Readers(m)) >= 0 /\ Cardinality(Pollers) >= 0
    BY CountsReaders
  <1>4. Counted
    BY <1>3, CountsReaders DEF Init, Counted, DropsAreAccounted
  <1> QED BY <1>1, <1>2, <1>4 DEF Inductive

LEMMA TypeStep == TypeOK /\ HasFile /\ [Next]_vars => TypeOK'
  <1> SUFFICES ASSUME TypeOK, HasFile, [Next]_vars PROVE TypeOK'
    OBVIOUS
  <1> USE MaildirAssumption DEF TypeOK
  <1>1. ASSUME NEW m \in Messages, Deposit(m) PROVE TypeOK'
    BY <1>1 DEF Deposit, pollVars
  <1>2. ASSUME NEW p \in Pollers, Open(p) PROVE TypeOK'
    BY <1>2 DEF Open
  <1>3. ASSUME NEW p \in Pollers, NEW m \in Messages, Skip(p, m) PROVE TypeOK'
    BY <1>3 DEF Skip
  <1>4. ASSUME NEW p \in Pollers, NEW m \in Messages, Read(p, m) PROVE TypeOK'
    BY <1>4 DEF Read
  <1>5. ASSUME NEW p \in Pollers, NEW m \in Messages, Publish(p, m) PROVE TypeOK'
    BY <1>5 DEF Publish, Fault
  <1>6. ASSUME NEW p \in Pollers, Move(p) PROVE TypeOK'
    <2>1. file[p] \in Messages
      BY <1>6 DEF Move, HasFile
    <2> QED BY <1>6, <2>1 DEF Move
  <1>7. ASSUME NEW p \in Pollers, MoveFails(p) PROVE TypeOK'
    BY <1>7 DEF MoveFails, Fault
  <1>8. ASSUME NEW p \in Pollers, Return(p) PROVE TypeOK'
    BY <1>8 DEF Return
  <1>9. ASSUME NEW p \in Pollers, Crash(p) PROVE TypeOK'
    BY <1>9 DEF Crash, Fault
  <1>10. CASE UNCHANGED vars
    BY <1>10 DEF vars, pollVars
  <1> QED BY <1>1, <1>2, <1>3, <1>4, <1>5, <1>6, <1>7, <1>8, <1>9, <1>10 DEF Next

LEMMA HasFileStep == TypeOK /\ HasFile /\ [Next]_vars => HasFile'
  <1> SUFFICES ASSUME TypeOK, HasFile, [Next]_vars PROVE HasFile'
    OBVIOUS
  <1> USE MaildirAssumption DEF TypeOK, HasFile
  <1>1. ASSUME NEW m \in Messages, Deposit(m) PROVE HasFile'
    BY <1>1 DEF Deposit, pollVars
  <1>2. ASSUME NEW p \in Pollers, Open(p) PROVE HasFile'
    BY <1>2 DEF Open
  <1>3. ASSUME NEW p \in Pollers, NEW m \in Messages, Skip(p, m) PROVE HasFile'
    BY <1>3 DEF Skip
  <1>4. ASSUME NEW p \in Pollers, NEW m \in Messages, Read(p, m) PROVE HasFile'
    BY <1>4 DEF Read
  <1>5. ASSUME NEW p \in Pollers, NEW m \in Messages, Publish(p, m) PROVE HasFile'
    BY <1>5 DEF Publish
  <1>6. ASSUME NEW p \in Pollers, Move(p) PROVE HasFile'
    BY <1>6 DEF Move
  <1>7. ASSUME NEW p \in Pollers, MoveFails(p) PROVE HasFile'
    BY <1>7 DEF MoveFails
  <1>8. ASSUME NEW p \in Pollers, Return(p) PROVE HasFile'
    BY <1>8 DEF Return
  <1>9. ASSUME NEW p \in Pollers, Crash(p) PROVE HasFile'
    BY <1>9 DEF Crash
  <1>10. CASE UNCHANGED vars
    BY <1>10 DEF vars, pollVars
  <1> QED BY <1>1, <1>2, <1>3, <1>4, <1>5, <1>6, <1>7, <1>8, <1>9, <1>10 DEF Next

-----------------------------------------------------------------------------
(* The copies of a reply *)

LEMMA CopiesStep ==
    TypeOK /\ HasFile /\ OneCopy /\ HasCopy /\ [Next]_vars => OneCopy' /\ HasCopy'
  <1> SUFFICES ASSUME TypeOK, HasFile, OneCopy, HasCopy, [Next]_vars
               PROVE  OneCopy' /\ HasCopy'
    OBVIOUS
  <1> USE MaildirAssumption DEF TypeOK
  <1>1. CASE UNCHANGED <<kind, box, replies, faults, spoken>>
    BY <1>1 DEF OneCopy, HasCopy
  <1>2. ASSUME NEW m \in Messages, Deposit(m) PROVE OneCopy' /\ HasCopy'
    BY <1>2 DEF Deposit, pollVars, OneCopy, HasCopy
  <1>3. ASSUME NEW p \in Pollers, NEW m \in Messages, Publish(p, m)
        PROVE  OneCopy' /\ HasCopy'
    <2>1. /\ m \in replies[p] /\ spoken[m] = 0
          /\ \A q \in Pollers : m \in replies[q] => q = p
          /\ kind' = kind /\ box' = box
          /\ replies' = [replies EXCEPT ![p] = @ \ {m}]
          /\ faults' = faults \/ faults' = faults + 1
      BY <1>3 DEF Publish, Fault, OneCopy
    <2>2. CASE spoken' = [spoken EXCEPT ![m] = @ + 1] /\ faults' = faults
      <3>1. spoken'[m] = 1 /\ \A x \in Messages \ {m} : spoken'[x] = spoken[x]
        BY <2>1, <2>2
      <3> QED BY <2>1, <2>2, <3>1 DEF OneCopy, HasCopy
    <2>3. CASE spoken' = spoken /\ faults' = faults + 1
      <3>1. faults' # 0
        BY <2>3
      <3> QED BY <2>1, <2>3, <3>1 DEF OneCopy, HasCopy
    <2> QED BY <1>3, <2>2, <2>3 DEF Publish, Fault
  <1>4. ASSUME NEW p \in Pollers, Move(p) PROVE OneCopy' /\ HasCopy'
    <2> DEFINE m == file[p]
    <2>1. /\ m \in Messages /\ box[m] = "new"
          /\ kind' = kind /\ spoken' = spoken /\ faults' = faults
          /\ box' = [box EXCEPT ![m] = "cur"]
          /\ replies' = IF kind[m] = "allowed"
                        THEN [replies EXCEPT ![p] = @ \cup {m}] ELSE replies
      BY <1>4 DEF Move, HasFile
    <2>2. spoken[m] = 0 /\ \A q \in Pollers : m \notin replies[q]
      BY <2>1 DEF OneCopy
    <2> HIDE DEF m
    <2>3. /\ \A x \in Messages \ {m} : box'[x] = box[x]
          /\ box'[m] = "cur"
          /\ \A x \in Messages \ {m}, q \in Pollers : x \in replies'[q] <=> x \in replies[q]
          /\ \A q \in Pollers : m \in replies'[q] <=> (q = p /\ kind[m] = "allowed")
      BY <2>1, <2>2
    <2>4. OneCopy'
      BY <2>1, <2>2, <2>3 DEF OneCopy
    <2>5. HasCopy'
      BY <2>1, <2>2, <2>3 DEF HasCopy
    <2> QED BY <2>4, <2>5
  <1>5. ASSUME NEW p \in Pollers, MoveFails(p) PROVE OneCopy' /\ HasCopy'
    <2>1. UNCHANGED <<kind, box, replies, spoken>> /\ faults' \in {faults, faults + 1}
      BY <1>5 DEF MoveFails, Fault
    <2>2. faults' = 0 => faults = 0
      BY <2>1
    <2> QED BY <2>1, <2>2 DEF OneCopy, HasCopy
  <1>6. ASSUME NEW p \in Pollers, Crash(p) PROVE OneCopy' /\ HasCopy'
    <2>1. /\ UNCHANGED <<kind, box, spoken>>
          /\ \A q \in Pollers : replies'[q] \subseteq replies[q]
      BY <1>6 DEF Crash
    <2>2. faults' # 0
      BY <1>6 DEF Crash, Fault
    <2> QED BY <2>1, <2>2 DEF OneCopy, HasCopy
  <1>7. ASSUME NEW p \in Pollers,
               \/ Open(p) \/ Return(p)
               \/ \E m \in Messages : Skip(p, m) \/ Read(p, m)
        PROVE  UNCHANGED <<kind, box, replies, faults, spoken>>
    BY <1>7 DEF Open, Return, Skip, Read
  <1>8. CASE UNCHANGED vars
    BY <1>1, <1>8 DEF vars, pollVars
  <1> QED BY <1>1, <1>2, <1>3, <1>4, <1>5, <1>6, <1>7, <1>8 DEF Next

-----------------------------------------------------------------------------
(* The counts of a mail *)

LEMMA CountedStep ==
    TypeOK /\ TypeOK' /\ HasFile /\ Counted /\ [Next]_vars => Counted'
  <1> SUFFICES ASSUME TypeOK, TypeOK', HasFile, Counted, [Next]_vars
               PROVE  Counted'
    OBVIOUS
  <1> DEFINE P == Cardinality(Pollers)
             R(m) == Cardinality(Readers(m))
  <1>0. /\ P \in Nat /\ faults \in Nat /\ faults' \in Nat
        /\ \A m \in Messages : /\ R(m) \in Nat /\ R(m) <= P /\ IsFiniteSet(Readers(m))
                               /\ counted[m] \in Nat
    BY CountsReaders, MaildirAssumption DEF TypeOK
  <1>1. CASE UNCHANGED <<box, file, faults, counted>>
    BY <1>1 DEF Counted, DropsAreAccounted, Readers
  <1>2. ASSUME NEW m \in Messages, Deposit(m) PROVE Counted'
    <2>1. UNCHANGED <<file, faults, counted>> /\ box[m] # "cur"
      BY <1>2 DEF Deposit, pollVars
    <2>2. \A x \in Messages : box'[x] # "cur" => box[x] # "cur"
      BY <1>2, <2>1 DEF Deposit, TypeOK
    <2> QED BY <2>1, <2>2 DEF Counted, DropsAreAccounted, Readers
  <1>3. ASSUME NEW p \in Pollers, NEW m \in Messages, Read(p, m) PROVE Counted'
    <2>1. /\ box' = box /\ faults' = faults /\ box[m] # "cur"
          /\ file' = [file EXCEPT ![p] = m] /\ file[p] = NoMessage
          /\ counted'[m] \in {counted[m], counted[m] + 1}
          /\ \A x \in Messages \ {m} : counted'[x] = counted[x]
      BY <1>3, MaildirAssumption DEF Read, HasFile, TypeOK
    <2>2. /\ Readers(m)' = Readers(m) \cup {p} /\ p \notin Readers(m)
          /\ \A x \in Messages \ {m} : Readers(x)' = Readers(x)
      BY <2>1, MaildirAssumption DEF Readers, TypeOK
    <2>3. R(m)' = R(m) + 1 /\ R(m)' <= P
      BY <1>0, <2>2, FS_AddElement, FS_Subset, MaildirAssumption DEF Readers
    <2>4. counted'[m] <= faults + R(m)' /\ counted'[m] <= faults + P
      <3>1. counted[m] <= faults + R(m) /\ counted[m] \in Nat /\ R(m) \in Nat
        BY <1>0, <2>1 DEF Counted
      <3>2. counted'[m] <= faults + (R(m) + 1) /\ R(m) + 1 <= P
        BY <1>0, <2>1, <2>3, <3>1
      <3>3. counted'[m] \in Nat
        BY <2>1, <3>1
      <3> HIDE DEF P, R
      <3> QED BY <1>0, <2>3, <3>1, <3>2, <3>3
    <2> QED BY <2>1, <2>2, <2>4 DEF Counted, DropsAreAccounted
  <1>4. ASSUME NEW p \in Pollers, Move(p) PROVE Counted'
    <2>1. /\ file[p] \in Messages /\ faults' = faults /\ counted' = counted
          /\ box' = [box EXCEPT ![file[p]] = "cur"]
          /\ file' = [file EXCEPT ![p] = NoMessage]
      BY <1>4 DEF Move, HasFile, TypeOK
    <2>2. \A x \in Messages : box'[x] # "cur" => x # file[p] /\ box[x] # "cur"
      BY <2>1 DEF TypeOK
    <2>3. \A x \in Messages \ {file[p]} : Readers(x)' = Readers(x)
      BY <2>1, MaildirAssumption DEF Readers, TypeOK
    <2> QED BY <2>1, <2>2, <2>3 DEF Counted, DropsAreAccounted
  <1>5. ASSUME NEW p \in Pollers, MoveFails(p) \/ Crash(p) PROVE Counted'
    <2>1. /\ box' = box /\ counted' = counted
          /\ file' = [file EXCEPT ![p] = NoMessage]
          /\ \/ faults' = faults /\ box[file[p]] # "new" /\ step[p] = "moving"
             \/ faults' = faults + 1
      BY <1>5 DEF MoveFails, Crash, Fault
    <2>2. \A x \in Messages : Readers(x)' = Readers(x) \ {p}
      BY <2>1, MaildirAssumption DEF Readers, TypeOK
    <2>3. \A x \in Messages :
             /\ R(x)' \in Nat /\ R(x) - 1 <= R(x)'
             /\ file[p] # x => R(x)' = R(x)
      <3> SUFFICES ASSUME NEW x \in Messages
                   PROVE  /\ R(x)' \in Nat /\ R(x) - 1 <= R(x)'
                          /\ file[p] # x => R(x)' = R(x)
        OBVIOUS
      <3>1. R(x)' = Cardinality(Readers(x) \ {p})
        BY <2>2
      <3>2. /\ IsFiniteSet(Readers(x)) /\ R(x) \in Nat
            /\ IsFiniteSet(Readers(x) \ {p})
            /\ Cardinality(Readers(x) \ {p}) = IF p \in Readers(x) THEN R(x) - 1 ELSE R(x)
        BY <1>0, FS_RemoveElement
      <3>3. Cardinality(Readers(x) \ {p}) \in Nat
        BY <3>2, FS_CardinalityType
      <3>4. file[p] # x => p \notin Readers(x)
        BY DEF Readers
      <3> HIDE DEF R
      <3> QED BY <3>1, <3>2, <3>3, <3>4
    <2>4. \A x \in Messages : counted[x] <= faults' + P
      BY <1>0, <2>1 DEF Counted, DropsAreAccounted
    <2>5. ASSUME NEW x \in Messages, box[x] # "cur"
          PROVE  counted[x] <= faults' + R(x)'
      <3>1. counted[x] <= faults + R(x) /\ counted[x] \in Nat /\ R(x) \in Nat
        BY <1>0, <2>5 DEF Counted
      <3>2. CASE faults' = faults + 1
        <4>1. R(x)' \in Nat /\ R(x) - 1 <= R(x)'
          BY <2>3
        <4> HIDE DEF R
        <4> QED BY <1>0, <3>1, <3>2, <4>1
      <3>3. CASE faults' = faults /\ box[file[p]] # "new" /\ step[p] = "moving"
        <4>1. file[p] # x
          BY <2>5, <3>3, MaildirAssumption DEF HasFile, TypeOK
        <4>2. R(x)' = R(x)
          BY <2>3, <4>1
        <4> HIDE DEF R
        <4> QED BY <3>1, <3>3, <4>2
      <3> QED BY <2>1, <3>2, <3>3
    <2> QED BY <2>1, <2>4, <2>5 DEF Counted, DropsAreAccounted
  <1>6. ASSUME NEW p \in Pollers, NEW m \in Messages, Publish(p, m) PROVE Counted'
    <2>1. UNCHANGED <<box, file, counted>> /\ faults' \in {faults, faults + 1}
      BY <1>6 DEF Publish, Fault
    <2>2. faults <= faults'
      BY <1>0, <2>1
    <2>3. \A x \in Messages : Readers(x)' = Readers(x)
      BY <2>1 DEF Readers
    <2>4. \A x \in Messages : counted[x] <= faults + P => counted[x] <= faults' + P
      BY <1>0, <2>2
    <2>5. \A x \in Messages : counted[x] <= faults + R(x) => counted[x] <= faults' + R(x)
      BY <1>0, <2>2
    <2> QED BY <2>1, <2>3, <2>4, <2>5 DEF Counted, DropsAreAccounted
  <1>7. ASSUME NEW p \in Pollers,
               Open(p) \/ Return(p) \/ (\E m \in Messages : Skip(p, m))
        PROVE  UNCHANGED <<box, file, faults, counted>>
    BY <1>7 DEF Open, Return, Skip
  <1>8. CASE UNCHANGED vars
    BY <1>1, <1>8 DEF vars, pollVars
  <1> QED BY <1>1, <1>2, <1>3, <1>4, <1>5, <1>6, <1>7, <1>8 DEF Next

-----------------------------------------------------------------------------
(* The inbox *)

place == [m \in Messages |-> Place(m)]

\* A mail whose file and copies stay where they are stays where it is in its life.
LEMMA PlaceStays ==
    ASSUME TypeOK, TypeOK', OneCopy, OneCopy', NEW m \in Messages,
           kind' = kind, box'[m] = box[m], spoken'[m] = spoken[m],
           \A p \in Pollers : m \in replies'[p] <=> m \in replies[p]
    PROVE  Place(m)' = Place(m)
  BY DEF Place, TypeOK

LEMMA StartsAsInbox == Init => Box!Init
  BY DEF Init, Box!Init, Place

\* Each step of a poller is one of the inbox, or none.
LEMMA StepsAsInbox == Inductive /\ Inductive' /\ [Next]_vars => [Box!Next]_(Box!vars)
  <1> SUFFICES ASSUME Inductive, Inductive', [Next]_vars PROVE [Box!Next]_(Box!vars)
    OBVIOUS
  <1>1. TypeOK /\ TypeOK' /\ OneCopy /\ OneCopy' /\ HasFile
    BY DEF Inductive
  <1>2. ASSUME NEW m \in Messages, kind' = kind, NEW to, Place(m)' = to,
               \A x \in Messages \ {m} : Place(x)' = Place(x)
        PROVE  place' = [place EXCEPT ![m] = to]
    BY <1>2 DEF place
  <1>3. ASSUME NEW m \in Messages, Deposit(m) PROVE Box!Next
    <2>1. /\ box[m] = "unsent" /\ box' = [box EXCEPT ![m] = "new"]
          /\ UNCHANGED <<kind, replies, faults, spoken>>
      BY <1>3 DEF Deposit, pollVars
    <2>2. Place(m) = "unsent" /\ Place(m)' = "mailbox"
      BY <1>1, <2>1 DEF Place, TypeOK
    <2>3. \A x \in Messages \ {m} : Place(x)' = Place(x)
      BY <1>1, <2>1, PlaceStays DEF TypeOK
    <2>4. place' = [place EXCEPT ![m] = "mailbox"]
      BY <1>2, <2>1, <2>2, <2>3
    <2> QED
      BY <2>1, <2>2, <2>4 DEF Box!Next, Box!Arrive, Box!Goes, place
  <1>4. ASSUME NEW p \in Pollers, NEW m \in Messages, m = file[p], Move(p) PROVE Box!Next
    <2> DEFINE to == IF kind[m] = "allowed" THEN "in hand" ELSE "dropped"
    <2>1. /\ box[m] = "new" /\ kind[m] # "unreadable"
          /\ box' = [box EXCEPT ![m] = "cur"]
          /\ replies' = IF kind[m] = "allowed"
                        THEN [replies EXCEPT ![p] = @ \cup {m}] ELSE replies
          /\ UNCHANGED <<kind, faults, spoken>>
      BY <1>1, <1>4 DEF Move, HasFile, TypeOK
    <2>2. Place(m) = "mailbox" /\ Place(m)' = to
      BY <1>1, <2>1 DEF Place, TypeOK
    <2>3. \A x \in Messages \ {m} : Place(x)' = Place(x)
      <3> SUFFICES ASSUME NEW x \in Messages \ {m} PROVE Place(x)' = Place(x)
        OBVIOUS
      <3>1. box'[x] = box[x] /\ \A q \in Pollers : x \in replies'[q] <=> x \in replies[q]
        BY <1>1, <2>1 DEF TypeOK
      <3> QED
        BY <1>1, <2>1, <3>1, PlaceStays
    <2>4. place' = [place EXCEPT ![m] = to]
      BY <1>2, <2>1, <2>2, <2>3
    <2> QED
      BY <2>1, <2>2, <2>4 DEF Box!Next, Box!Consume, Box!Goes, place
  <1>5. ASSUME NEW p \in Pollers, NEW m \in Messages, Publish(p, m) PROVE Box!Next
    <2>1. /\ m \in replies[p] /\ spoken[m] = 0 /\ kind[m] = "allowed" /\ box[m] = "cur"
          /\ \A q \in Pollers : m \in replies[q] => q = p
          /\ kind' = kind /\ box' = box
          /\ replies' = [replies EXCEPT ![p] = @ \ {m}]
      BY <1>1, <1>5 DEF Publish, OneCopy
    <2>2. Place(m) = "in hand" /\ \A q \in Pollers : m \notin replies'[q]
      BY <1>1, <2>1 DEF Place, TypeOK
    <2>3. \A x \in Messages \ {m}, q \in Pollers : x \in replies'[q] <=> x \in replies[q]
      BY <1>1, <2>1 DEF TypeOK
    <2>4. CASE spoken' = [spoken EXCEPT ![m] = @ + 1] /\ faults' = faults
      <3>1. spoken'[m] = 1 /\ \A x \in Messages \ {m} : spoken'[x] = spoken[x]
        BY <1>1, <2>1, <2>4 DEF TypeOK
      <3>2. Place(m)' = "done"
        BY <1>1, <2>1, <2>2, <3>1 DEF Place
      <3>3. \A x \in Messages \ {m} : Place(x)' = Place(x)
        BY <1>1, <2>1, <2>3, <3>1, PlaceStays
      <3>4. place' = [place EXCEPT ![m] = "done"]
        BY <1>2, <2>1, <3>2, <3>3
      <3> QED
        BY <2>1, <2>2, <2>4, <3>4 DEF Box!Next, Box!Speak, Box!Goes, place
    <2>5. CASE spoken' = spoken /\ faults' = faults + 1
      <3>1. Place(m)' = "lost"
        BY <1>1, <2>1, <2>2, <2>5 DEF Place
      <3>2. \A x \in Messages \ {m} : Place(x)' = Place(x)
        BY <1>1, <2>1, <2>3, <2>5, PlaceStays
      <3>3. place' = [x \in Messages |-> IF x \in {m} THEN "lost" ELSE place[x]]
        BY <3>1, <3>2 DEF place
      <3>4. {m} \in SUBSET {x \in Messages : place[x] = "in hand"}
        BY <2>2 DEF place
      <3> QED
        BY <2>1, <2>5, <3>3, <3>4 DEF Box!Next, Box!Fail, place
    <2> QED
      BY <1>5, <2>4, <2>5 DEF Publish, Fault
  <1>6. ASSUME NEW p \in Pollers, MoveFails(p) PROVE Box!Next \/ UNCHANGED Box!vars
    <2>1. UNCHANGED <<kind, box, replies, spoken>>
      BY <1>6 DEF MoveFails
    <2>2. \A x \in Messages : Place(x)' = Place(x)
      BY <1>1, <2>1, PlaceStays
    <2>3. place' = place /\ place = [x \in Messages |-> IF x \in {} THEN "lost" ELSE place[x]]
      BY <2>2 DEF place
    <2>4. CASE faults' = faults
      BY <2>1, <2>3, <2>4 DEF Box!vars, place
    <2>5. CASE faults' = faults + 1
      <3>1. {} \in SUBSET {x \in Messages : place[x] = "in hand"}
        OBVIOUS
      <3> QED
        BY <2>1, <2>3, <2>5, <3>1 DEF Box!Next, Box!Fail, place
    <2> QED
      BY <1>6, <2>4, <2>5 DEF MoveFails, Fault
  <1>7. ASSUME NEW p \in Pollers, Crash(p) PROVE Box!Next
    <2>1. /\ replies' = [replies EXCEPT ![p] = {}] /\ faults' = faults + 1
          /\ UNCHANGED <<kind, box, spoken>>
      BY <1>7 DEF Crash, Fault
    <2>2. ASSUME NEW x \in replies[p]
          PROVE  /\ x \in Messages /\ Place(x) = "in hand" /\ Place(x)' = "lost"
      <3>1. /\ x \in Messages /\ spoken[x] = 0 /\ kind[x] = "allowed" /\ box[x] = "cur"
            /\ \A q \in Pollers : x \in replies[q] => q = p
        BY <1>1 DEF OneCopy, TypeOK
      <3>2. \A q \in Pollers : x \notin replies'[q]
        BY <1>1, <2>1, <3>1 DEF TypeOK
      <3> QED
        BY <2>1, <3>1, <3>2 DEF Place
    <2>3. ASSUME NEW x \in Messages, x \notin replies[p] PROVE Place(x)' = Place(x)
      <3>1. \A q \in Pollers : x \in replies'[q] <=> x \in replies[q]
        BY <1>1, <2>1, <2>3 DEF TypeOK
      <3> QED
        BY <1>1, <2>1, <3>1, PlaceStays
    <2>4. place' = [x \in Messages |-> IF x \in replies[p] THEN "lost" ELSE place[x]]
      BY <2>2, <2>3 DEF place
    <2>5. replies[p] \in SUBSET {x \in Messages : place[x] = "in hand"}
      BY <2>2 DEF place
    <2> QED
      BY <2>1, <2>4, <2>5 DEF Box!Next, Box!Fail, place
  <1>8. ASSUME NEW p \in Pollers,
               Open(p) \/ Return(p) \/ \E m \in Messages : Skip(p, m) \/ Read(p, m)
        PROVE  UNCHANGED <<kind, box, replies, faults, spoken>>
    BY <1>8 DEF Open, Return, Skip, Read
  <1>9. ASSUME UNCHANGED <<kind, box, replies, faults, spoken>> \/ UNCHANGED vars
        PROVE  UNCHANGED Box!vars
    <2>1. UNCHANGED <<kind, box, replies, faults, spoken>>
      BY <1>9 DEF vars, pollVars
    <2>2. \A x \in Messages : Place(x)' = Place(x)
      BY <1>1, <2>1, PlaceStays
    <2> QED
      BY <2>1, <2>2 DEF Box!vars
  <1> QED
    <2>1. \A p \in Pollers : Move(p) => file[p] \in Messages
      BY <1>1 DEF Move, HasFile, TypeOK
    <2> QED
      BY <1>3, <1>4, <1>5, <1>6, <1>7, <1>8, <1>9, <2>1 DEF Next

-----------------------------------------------------------------------------
(* The theorems *)

\* The inductive invariant holds in every reachable state.
THEOREM MaildirInvariant == Spec => []Inductive
  <1>1. Inductive /\ [Next]_vars => Inductive'
    BY TypeStep, HasFileStep, CopiesStep, CountedStep DEF Inductive
  <1> QED BY InductiveInit, <1>1, PTL DEF Spec

\* The pollers, the mailbox and the counts keep their types (inbound.rs).
THEOREM TypeCorrect == Spec => []TypeOK
  <1>1. Inductive => TypeOK
    BY DEF Inductive
  <1> QED BY MaildirInvariant, <1>1, PTL

LEMMA CopiesAreCounted ==
    ASSUME TypeOK, OneCopy, NEW m \in Messages
    PROVE  /\ Copies(m) <= 1
           /\ Copies(m) = 1 <=> spoken[m] = 1 \/ \E p \in Pollers : m \in replies[p]
  <1> DEFINE H == {p \in Pollers : m \in replies[p]}
  <1>1. spoken[m] \in {0, 1}
    BY DEF TypeOK, OneCopy
  <1>2. CASE H = {}
    <2>1. Cardinality(H) = 0
      BY <1>2, FS_EmptySet
    <2> QED BY <1>1, <1>2, <2>1 DEF Copies
  <1>3. ASSUME NEW p \in H PROVE Cardinality(H) = 1 /\ spoken[m] = 0
    <2>1. H = {p} /\ spoken[m] = 0
      BY DEF OneCopy
    <2> QED BY <2>1, FS_Singleton
  <1> QED BY <1>1, <1>2, <1>3 DEF Copies

\* No reply is spoken twice or held by two pollers, for any number of pollers of
\* one mailbox and of crashes (inbound.rs:11-12): the rename decides.
THEOREM SpokenOnce == Spec => []NoDoubleSpeak
  <1>1. Inductive => NoDoubleSpeak
    <2> SUFFICES ASSUME Inductive, NEW m \in Messages
                 PROVE  /\ Copies(m) <= 1
                        /\ Copies(m) = 1 => kind[m] = "allowed" /\ box[m] = "cur"
      BY DEF NoDoubleSpeak
    <2> QED BY CopiesAreCounted DEF Inductive, OneCopy
  <1> QED BY MaildirInvariant, <1>1, PTL

\* Without a failure no reply that left new/ is lost (poll and its caller).
THEOREM NothingLost == Spec => []NoReplyLostUnlessFault
  <1>1. Inductive => NoReplyLostUnlessFault
    <2> SUFFICES ASSUME Inductive, NEW m \in Messages,
                        kind[m] = "allowed", box[m] = "cur", faults = 0
                 PROVE  Copies(m) = 1
      BY DEF NoReplyLostUnlessFault
    <2> QED BY CopiesAreCounted DEF Inductive, HasCopy
  <1> QED BY MaildirInvariant, <1>1, PTL

\* A mail is counted as unauthorized no more often than it has readers at once
\* and failures (poll's count of drops).
THEOREM DropsAccounted == Spec => []DropsAreAccounted
  <1>1. Inductive => DropsAreAccounted
    BY DEF Inductive, Counted
  <1> QED BY MaildirInvariant, <1>1, PTL

\* The pollers of one mailbox, however many, are an inbox in which each mail is
\* consumed in one step and spoken once (inbound.rs:79-146).
THEOREM ImplementsInbox == Spec => KeepsInboxPromise
  <1>1. Inductive /\ Inductive' /\ [Next]_vars => [Box!Next]_(Box!vars)
    BY StepsAsInbox
  <1> QED BY StartsAsInbox, <1>1, MaildirInvariant, PTL DEF Spec, KeepsInboxPromise, Box!Spec
=============================================================================
