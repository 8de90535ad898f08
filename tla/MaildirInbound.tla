--------------------------- MODULE MaildirInbound ---------------------------
(***************************************************************************)
(* inbound.rs: poll reads the replies of the caregivers from a maildir and    *)
(* moves each of them from new/ to cur/ before it hands it to its caller, who *)
(* publishes it.  The maildir protocol lets several readers share a mailbox   *)
(* and has no lock: all that orders two of them is that rename is atomic.     *)
(*                                                                         *)
(* A message is a file.  What the poll prints and the text of a reply are     *)
(* left out.                                                                 *)
(***************************************************************************)
EXTENDS Naturals, FiniteSets

CONSTANTS
    Messages,   \* the mails that arrive
    NoMessage,  \* no mail
    Pollers,    \* the tasks that poll the mailbox
    MaxFaults   \* bound: crashes, failed renames and failed publishes

ASSUME MaildirAssumption ==
    /\ IsFiniteSet(Messages) /\ IsFiniteSet(Pollers)
    /\ NoMessage \notin Messages
    /\ MaxFaults \in Nat

VARIABLES
    kind,       \* what poll makes of each mail
    box,        \* where the file of each mail is
    step,       \* where each poller is
    entries,    \* the directory entries it has still to look at
    file,       \* the one it has read
    replies,    \* the mails it has accepted, not yet published
    faults,     \* faults so far
    spoken,     \* history: how often each mail was published
    counted     \* history: how often each mail was counted as unauthorized

pollVars == <<step, entries, file, replies>>
vars == <<kind, box, step, entries, file, replies, faults, spoken, counted>>

\* "unreadable" is a directory, or not UTF-8; "malformed" has no From header
\* or no body.
Kinds == {"allowed", "stranger", "malformed", "unreadable"}

TypeOK ==
    /\ kind \in [Messages -> Kinds]
    /\ box \in [Messages -> {"unsent", "new", "cur"}]
    /\ step \in [Pollers -> {"idle", "scanning", "moving", "publishing"}]
    /\ entries \in [Pollers -> SUBSET Messages]
    /\ file \in [Pollers -> Messages \cup {NoMessage}]
    /\ replies \in [Pollers -> SUBSET Messages]
    /\ faults \in 0 .. MaxFaults
    /\ spoken \in [Messages -> Nat]
    /\ counted \in [Messages -> Nat]

Init ==
    /\ kind \in [Messages -> Kinds]
    /\ box = [m \in Messages |-> "unsent"]
    /\ step = [p \in Pollers |-> "idle"]
    /\ entries = [p \in Pollers |-> {}]
    /\ file = [p \in Pollers |-> NoMessage]
    /\ replies = [p \in Pollers |-> {}]
    /\ faults = 0
    /\ spoken = [m \in Messages |-> 0]
    /\ counted = [m \in Messages |-> 0]

Fault == faults < MaxFaults /\ faults' = faults + 1

\* The mail system renames a complete file into new/.
Deposit(m) ==
    /\ box[m] = "unsent"
    /\ box' = [box EXCEPT ![m] = "new"]
    /\ UNCHANGED <<kind, pollVars, faults, spoken, counted>>

\* Faulty variant: the entry "." is not filtered out.
OpenWithDot(p) ==
    /\ step[p] = "idle"
    /\ step' = [step EXCEPT ![p] = "scanning"]
    /\ entries' = [entries EXCEPT ![p] = {NoMessage} \cup {m \in Messages : box[m] = "new"}]
    /\ UNCHANGED <<kind, box, file, replies, faults, spoken, counted>>

\* read_dir; a mail deposited later is seen by a later poll.
Open(p) ==
    /\ step[p] = "idle"
    /\ step' = [step EXCEPT ![p] = "scanning"]
    /\ entries' = [entries EXCEPT ![p] = {m \in Messages : box[m] = "new"}]
    /\ UNCHANGED <<kind, box, file, replies, faults, spoken, counted>>

\* Faulty variant: such an entry ends the poll with an error.
SkipAborts(p, m) ==
    /\ step[p] = "scanning"
    /\ m \in entries[p]
    /\ box[m] # "new" \/ kind[m] = "unreadable"
    /\ step' = [step EXCEPT ![p] = "idle"]
    /\ entries' = [entries EXCEPT ![p] = {}]
    /\ replies' = [replies EXCEPT ![p] = {}]
    /\ UNCHANGED <<kind, box, file, faults, spoken, counted>>

\* An entry that is gone, no file or unreadable is passed over.
Skip(p, m) ==
    /\ step[p] = "scanning"
    /\ m \in entries[p]
    /\ box[m] # "new" \/ kind[m] = "unreadable"
    /\ entries' = [entries EXCEPT ![p] = @ \ {m}]
    /\ UNCHANGED <<kind, box, step, file, replies, faults, spoken, counted>>

\* The file is read and parsed; an unauthorized sender is counted at once.
Read(p, m) ==
    /\ step[p] = "scanning"
    /\ m \in entries[p]
    /\ box[m] = "new" /\ kind[m] # "unreadable"
    /\ entries' = [entries EXCEPT ![p] = @ \ {m}]
    /\ file' = [file EXCEPT ![p] = m]
    /\ step' = [step EXCEPT ![p] = "moving"]
    /\ counted' = IF kind[m] = "stranger"
                  THEN [counted EXCEPT ![m] = @ + 1] ELSE counted
    /\ UNCHANGED <<kind, box, replies, faults, spoken>>

\* Faulty variant: an unauthorized mail stays in new/.
MoveAllowedOnly(p) ==
    /\ step[p] = "moving"
    /\ box[file[p]] = "new"
    /\ IF kind[file[p]] = "allowed"
       THEN /\ box' = [box EXCEPT ![file[p]] = "cur"]
            /\ replies' = [replies EXCEPT ![p] = @ \cup {file[p]}]
       ELSE UNCHANGED <<box, replies>>
    /\ step' = [step EXCEPT ![p] = "scanning"]
    /\ file' = [file EXCEPT ![p] = NoMessage]
    /\ UNCHANGED <<kind, entries, faults, spoken, counted>>

\* move_to_cur succeeds: the rename found the file in new/.  Only a mail from
\* the allowlist is kept for the caller.
Move(p) ==
    /\ step[p] = "moving"
    /\ box[file[p]] = "new"
    /\ box' = [box EXCEPT ![file[p]] = "cur"]
    /\ replies' = IF kind[file[p]] = "allowed"
                  THEN [replies EXCEPT ![p] = @ \cup {file[p]}] ELSE replies
    /\ step' = [step EXCEPT ![p] = "scanning"]
    /\ file' = [file EXCEPT ![p] = NoMessage]
    /\ UNCHANGED <<kind, entries, faults, spoken, counted>>

\* Faulty variant: the result of the rename is ignored.
MoveFailsIgnored(p) ==
    /\ step[p] = "moving"
    /\ \/ box[file[p]] # "new" /\ UNCHANGED faults
       \/ Fault
    /\ replies' = IF kind[file[p]] = "allowed"
                  THEN [replies EXCEPT ![p] = @ \cup {file[p]}] ELSE replies
    /\ step' = [step EXCEPT ![p] = "scanning"]
    /\ file' = [file EXCEPT ![p] = NoMessage]
    /\ UNCHANGED <<kind, box, entries, spoken, counted>>

\* It fails: another poller moved the file, or the file system refuses.
MoveFails(p) ==
    /\ step[p] = "moving"
    /\ \/ box[file[p]] # "new" /\ UNCHANGED faults
       \/ Fault
    /\ step' = [step EXCEPT ![p] = "scanning"]
    /\ file' = [file EXCEPT ![p] = NoMessage]
    /\ UNCHANGED <<kind, box, entries, replies, spoken, counted>>

\* poll returns its replies.
Return(p) ==
    /\ step[p] = "scanning"
    /\ entries[p] = {}
    /\ step' = [step EXCEPT ![p] = IF replies[p] = {} THEN "idle" ELSE "publishing"]
    /\ UNCHANGED <<kind, box, entries, file, replies, faults, spoken, counted>>

\* Faulty variant: only one reply of a poll is published.
PublishOnlyOne(p, m) ==
    /\ step[p] = "publishing"
    /\ m \in replies[p]
    /\ spoken' = [spoken EXCEPT ![m] = @ + 1]
    /\ replies' = [replies EXCEPT ![p] = {}]
    /\ step' = [step EXCEPT ![p] = "idle"]
    /\ UNCHANGED <<kind, box, entries, file, faults, counted>>

\* The caller publishes a reply, or fails to; either way it has no other copy.
Publish(p, m) ==
    /\ step[p] = "publishing"
    /\ m \in replies[p]
    /\ \/ /\ spoken' = [spoken EXCEPT ![m] = @ + 1]
          /\ UNCHANGED faults
       \/ Fault /\ UNCHANGED spoken
    /\ replies' = [replies EXCEPT ![p] = @ \ {m}]
    /\ step' = [step EXCEPT ![p] = IF replies[p] = {m} THEN "idle" ELSE @]
    /\ UNCHANGED <<kind, box, entries, file, counted>>

\* The poller dies and starts again; what it held is gone.
Crash(p) ==
    /\ Fault
    /\ step[p] # "idle"
    /\ step' = [step EXCEPT ![p] = "idle"]
    /\ entries' = [entries EXCEPT ![p] = {}]
    /\ file' = [file EXCEPT ![p] = NoMessage]
    /\ replies' = [replies EXCEPT ![p] = {}]
    /\ UNCHANGED <<kind, box, spoken, counted>>

Next ==
    \/ \E m \in Messages : Deposit(m)
    \/ \E p \in Pollers :
          \/ Open(p)
          \/ \E m \in Messages : Skip(p, m) \/ Read(p, m) \/ Publish(p, m)
          \/ Move(p)
          \/ MoveFails(p)
          \/ Return(p)
          \/ Crash(p)

Spec == Init /\ [][Next]_vars

\* Every poller keeps polling and its calls return.
Poll(p) ==
    \/ Open(p) \/ Move(p) \/ MoveFails(p) \/ Return(p)
    \/ \E m \in Messages : Skip(p, m) \/ Read(p, m) \/ Publish(p, m)

FairSpec == Spec /\ \A p \in Pollers : WF_vars(Poll(p))

-----------------------------------------------------------------------------
\* Where a mail is in its life, whatever the pollers are doing.
Place(m) ==
    CASE box[m] = "unsent" -> "unsent"
      [] box[m] = "new" -> "mailbox"
      [] box[m] = "cur" /\ kind[m] # "allowed" -> "dropped"
      [] box[m] = "cur" /\ kind[m] = "allowed" ->
            IF \E p \in Pollers : m \in replies[p] THEN "in hand"
            ELSE IF spoken[m] > 0 THEN "done" ELSE "lost"

Box == INSTANCE Inbox WITH place <- [m \in Messages |-> Place(m)]

\* Any number of polls of one maildir are together an inbox that gives out each
\* mail in one step: the rename of move_to_cur decides who has it, and the other
\* steps of the pollers, taken in any order, change nothing for the mails
\* (inbound.rs:79-146).
KeepsInboxPromise == Box!Spec

\* The places a consumed reply may be in, each counted as often as it is there.
Copies(m) == spoken[m] + Cardinality({p \in Pollers : m \in replies[p]})

\* No reply is spoken twice, and none is both spoken and waiting to be, however
\* two polls of the mailbox interleave and whatever crashes between them
\* (inbound.rs:11-12).  Only an allowed mail that left new/ has a copy.
NoDoubleSpeak ==
    \A m \in Messages :
        /\ Copies(m) <= 1
        /\ Copies(m) = 1 => kind[m] = "allowed" /\ box[m] = "cur"

\* A reply that left new/ is spoken or about to be, unless something failed
\* after the move.
NoReplyLostUnlessFault ==
    \A m \in Messages :
        kind[m] = "allowed" /\ box[m] = "cur" /\ faults = 0 => Copies(m) = 1

\* A mail is counted as unauthorized once, once more for every failure, and
\* once more for every other poller that read it at the same time.
DropsAreAccounted ==
    \A m \in Messages : counted[m] <= faults + Cardinality(Pollers)

\* If nothing fails, every mail of an allowed sender is spoken, and every other
\* one that can be read leaves new/ (inbound.rs:121-122,139-141).
EventuallyConsumed ==
    \A m \in Messages :
        box[m] = "new" ~>
            \/ kind[m] = "allowed" /\ spoken[m] = 1
            \/ kind[m] \in {"stranger", "malformed"} /\ box[m] = "cur"
            \/ kind[m] = "unreadable"
            \/ faults > 0

=============================================================================
