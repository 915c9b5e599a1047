------------------------- MODULE ReleaseManagerProofs -------------------------
(***************************************************************************)
(* Machine-checked proofs about ReleaseManager, for every number of        *)
(* revisions, transactions, mishaps and starts of the engineering worker.  *)
(***************************************************************************)
EXTENDS ReleaseManager, TLAPS

-----------------------------------------------------------------------------
(* Type correctness, with what it rests on: revision 0, the first last     *)
(* known good, is never released or rolled back, and a release that was    *)
(* staged has a backup of the approval policy it replaced.                 *)

\* The places where nothing of the release need be lifted, staged or undone.
Before == {"idle", "gate", "quiet", "stranded", "source", "breaker", "breakerWait",
           "freeze", "preflight", "end", "exit"}

\* Those where the approval policy that the release replaced has been backed up
BackedUp == {"runtime", "mcp", "host", "hostWait", "manager", "verify", "commit",
             "commitWait", "close", "align", "runlink"}

\* and those where the receipts of a lift are written
Returning == {"receipt", "consume"}

DiskOK ==
    /\ recs \in [Revs -> Recs] /\ marker \in BOOLEAN /\ backup \in BOOLEAN
    /\ ticket \in [Revs -> {None, "pending", "consumed"}]
    /\ lift \in [Revs -> {None, "pending", "active", "stranded", "returned"}]
    /\ rlift \in [Revs -> {None, "pending", "active", "returned", "finished"}]
    /\ prior \in [Revs -> {Unset} \cup Revs]
    /\ recs[0].state = "closed" /\ ticket[0] = None
    /\ \A c \in Revs \ {0} : recs[c].state = "closed" => prior[c] \in Revs

\* Every failure of a policy helper leaves a policy, so that one is never broken.
LiveOK == live \in [Surfaces -> Revs \cup {Broken}] /\ live["policy"] \in Revs

ControlOK ==
    /\ lkg \in [rev : Revs, policy : Revs] /\ breaker \in {"open", "closed"}
    /\ reqs \subseteq Requests /\ root \in Jobs \cup {NoJob}

HostOK ==
    /\ hostq \in Seq(Installs) /\ hjob \in [rev : Revs, awaited : BOOLEAN, on : BOOLEAN]
    /\ stray \in BOOLEAN

\* The copies of records that the owner's commands and the promoters hold.
CopiesOK ==
    /\ loaded \in Copies /\ desk \in Copies
    /\ desk # NoDesk => desk.c # 0 /\ desk.rec.state = "production_eligible"
    /\ loaded.c = 0 => loaded.rec.state \in {"absent", "closed"}

RestOK ==
    /\ main \in Revs /\ guard \in BOOLEAN
    /\ eng \in [state : {"inactive", "activating", "admitted", "active"}, starts : 0 .. MaxStarts]
    /\ ordered \in BOOLEAN /\ torn \subseteq {"deploy", "rollback"} /\ txns \in 0 .. MaxTxns

TxnOK ==
    /\ txn \in Txns
    /\ txn.pc # "idle" => txn.kind # None
    /\ txn.c = 0 =>
           /\ txn.pc \in Before /\ ~txn.opened
           /\ txn.kind # "rollback" /\ txn.rec.state \in {"absent", "closed"}
    /\ txn.pc \in BackedUp \/ "policy" \in txn.att \/ txn.kind = "rollback" => prior[txn.c] \in Revs
    /\ txn.rec.state = "closed" => prior[txn.c] \in Revs \/ txn.pc \in Before \cup Returning

TypeInv ==
    DiskOK /\ LiveOK /\ ControlOK /\ HostOK /\ CopiesOK /\ RestOK /\ TxnOK /\ faults \in 0 .. MaxFaults

(* The parts make up the type invariant.                                   *)
LEMMA TypesHold == TypeInv => TypeOK
BY DEF TypeInv, DiskOK, LiveOK, ControlOK, HostOK, CopiesOK, RestOK, TxnOK, TypeOK

(* Revision 0 is a revision; a broken surface and a missing backup are not. *)
LEMMA RevFacts == 0 \in Revs /\ Revs \subseteq Int /\ Broken \notin Revs /\ Unset \notin Revs
BY BoundsAssumption DEF Revs, Broken, Unset

(* The empty values are of their types.                                    *)
LEMMA EmptyTypes ==
  /\ NoRecord \in Recs /\ NoRecord.state = "absent"
  /\ NoDesk \in Copies /\ NoDesk.c = 0 /\ NoDesk.rec = NoRecord
  /\ Idle \in Txns /\ Idle.pc = "idle" /\ Idle.kind = None /\ Idle.c = 0 /\ ~Idle.opened
  /\ Idle.rec = NoRecord /\ Idle.att = {}
  /\ NoInstall \in [rev : Revs, awaited : BOOLEAN, on : BOOLEAN]
<1>1. NoRecord \in Recs /\ NoRecord.state = "absent"
  BY RevFacts DEF NoRecord, Recs, RecStates
<1>2. NoDesk \in Copies /\ NoDesk.c = 0 /\ NoDesk.rec = NoRecord
  BY <1>1, RevFacts DEF NoDesk, Copies
<1>3. Idle \in Txns
  BY <1>1, RevFacts DEF Idle, Txns, Pcs
<1>4. NoInstall \in [rev : Revs, awaited : BOOLEAN, on : BOOLEAN]
  BY RevFacts DEF NoInstall
<1>5. /\ Idle.pc = "idle" /\ Idle.kind = None /\ Idle.c = 0 /\ ~Idle.opened
      /\ Idle.rec = NoRecord /\ Idle.att = {}
  BY DEF Idle
<1> QED BY <1>1, <1>2, <1>3, <1>4, <1>5

(* No transaction is a good transaction.                                   *)
LEMMA IdleOK == txn' = Idle => TxnOK'
BY EmptyTypes DEF TxnOK, Before, BackedUp, None

(* The initial state is well typed.                                        *)
LEMMA TypeInit == Init => TypeInv
<1> SUFFICES ASSUME Init PROVE TypeInv
  OBVIOUS
<1> USE RevFacts, EmptyTypes
<1>1. recs \in [Revs -> Recs] /\ recs[0].state = "closed"
  <2>1. [state |-> "closed", base |-> 0, approved |-> TRUE] \in Recs
    BY DEF Recs, RecStates
  <2> QED BY <2>1 DEF Init
<1>2. DiskOK
  <2>1. \A c \in Revs \ {0} : recs[c] = NoRecord
    BY DEF Init
  <2> QED BY <1>1, <2>1 DEF Init, DiskOK
<1>3. LiveOK
  BY DEF Init, LiveOK, Surfaces
<1>4. ControlOK
  BY DEF Init, ControlOK
<1>5. HostOK /\ CopiesOK
  <2>1. stray \in BOOLEAN
    BY DEF Init
  <2> QED BY <2>1 DEF Init, HostOK, CopiesOK
<1>6. RestOK /\ faults \in 0 .. MaxFaults
  <2>1. 0 \in 0 .. MaxStarts /\ 0 \in 0 .. MaxTxns /\ 0 \in 0 .. MaxFaults
    BY BoundsAssumption
  <2>2. eng \in [state : {"inactive", "activating", "admitted", "active"}, starts : 0 .. MaxStarts]
    BY <2>1 DEF Init
  <2>3. ordered \in BOOLEAN /\ guard \in BOOLEAN
    BY DEF Init
  <2>4. main \in Revs /\ txns \in 0 .. MaxTxns /\ faults \in 0 .. MaxFaults /\ torn = {}
    BY <2>1 DEF Init
  <2> QED BY <2>2, <2>3, <2>4 DEF RestOK
<1>7. TxnOK
  BY DEF Init, TxnOK, Before, BackedUp, None
<1> QED BY <1>2, <1>3, <1>4, <1>5, <1>6, <1>7 DEF TypeInv

(* Parts that are not changed stay as they are.                            *)
LEMMA PartsKept ==
  ASSUME TypeInv
  PROVE  /\ UNCHANGED disk => DiskOK'
         /\ UNCHANGED live => LiveOK'
         /\ UNCHANGED control => ControlOK'
         /\ UNCHANGED host => HostOK'
         /\ UNCHANGED <<loaded, desk>> => CopiesOK'
         /\ UNCHANGED <<main, guard, eng, hist>> => RestOK'
         /\ UNCHANGED <<txn, prior>> => TxnOK'
<1>1. UNCHANGED disk => DiskOK'
  BY DEF TypeInv, DiskOK, disk
<1>2. UNCHANGED live => LiveOK'
  BY DEF TypeInv, LiveOK
<1>3. UNCHANGED control => ControlOK'
  BY DEF TypeInv, ControlOK, control
<1>4. UNCHANGED host => HostOK'
  BY DEF TypeInv, HostOK, host
<1>5. UNCHANGED <<loaded, desk>> => CopiesOK'
  BY DEF TypeInv, CopiesOK
<1>6. UNCHANGED <<main, guard, eng, hist>> => RestOK'
  BY DEF TypeInv, RestOK, hist
<1>7. UNCHANGED <<txn, prior>> => TxnOK'
  BY DEF TypeInv, TxnOK
<1> QED BY <1>1, <1>2, <1>3, <1>4, <1>5, <1>6, <1>7

\* u is transaction t, perhaps elsewhere, with a reply or an error.
Keeps(t, u) ==
    /\ u \in Txns /\ u.kind = t.kind /\ u.c = t.c /\ u.opened = t.opened
    /\ u.rec = t.rec /\ u.att = t.att

(* A transaction that goes elsewhere is otherwise as it was.               *)
LEMMA Went ==
  ASSUME NEW t \in Txns, NEW pc \in Pcs, NEW e \in BOOLEAN, NEW r \in {None, "ok", "no"}
  PROVE  /\ Keeps(t, [t EXCEPT !.pc = pc]) /\ [t EXCEPT !.pc = pc].pc = pc
         /\ Keeps(t, [t EXCEPT !.pc = pc, !.reply = r]) /\ [t EXCEPT !.pc = pc, !.reply = r].pc = pc
         /\ Keeps(t, [t EXCEPT !.reply = r]) /\ [t EXCEPT !.reply = r].pc = t.pc
         /\ Keeps(t, [t EXCEPT !.pc = pc, !.err = e, !.reply = r])
         /\ [t EXCEPT !.pc = pc, !.err = e, !.reply = r].pc = pc
         /\ Keeps(t, t)
BY DEF Txns, Keeps

(* One record is saved, of a release other than the first.                 *)
LEMMA RecSaved ==
  ASSUME TypeInv, NEW c \in Revs \ {0}, NEW r \in Recs, recs' = [recs EXCEPT ![c] = r],
         r.state = "closed" => prior[c] \in Revs,
         UNCHANGED <<marker, backup, ticket, lift, rlift, prior>>
  PROVE  DiskOK'
BY RevFacts DEF TypeInv, DiskOK

(* A transaction keeps to what is known of it wherever it goes.            *)
LEMMA TxnKept ==
  ASSUME TypeInv, Keeps(txn, txn'), prior' = prior,
         \/ txn'.pc = txn.pc
         \/ /\ txn.pc \notin {"idle"} \cup Returning /\ (txn'.pc \in Before \/ txn.pc \notin Before)
            /\ txn'.pc \in BackedUp => txn.pc \in BackedUp
  PROVE  TxnOK'
BY DEF TypeInv, TxnOK, Keeps

(* What is not changed by a step of the transaction stays well typed.      *)
LEMMA OnlyTxn ==
  ASSUME TypeInv, faults' \in 0 .. MaxFaults, StepOnly, TxnOK' PROVE TypeInv'
BY PartsKept DEF StepOnly, TypeInv

\* ... when it changes the surfaces ...
LEMMA OnlyLive ==
  ASSUME TypeInv, faults' \in 0 .. MaxFaults, StepLive, LiveOK', TxnOK' PROVE TypeInv'
BY PartsKept DEF StepLive, TypeInv

\* ... or the files of the freeze and the records.
LEMMA OnlyDisk ==
  ASSUME TypeInv, faults' \in 0 .. MaxFaults, StepDisk, DiskOK', TxnOK' PROVE TypeInv'
BY PartsKept DEF StepDisk, TypeInv

(* A transaction that only goes on to its next place.                      *)
LEMMA Gone ==
  ASSUME TypeInv, NEW pc \in Pcs, Goto(pc), prior' = prior, txn.pc \notin {"idle"} \cup Returning,
         pc \in Before \/ txn.pc \notin Before, pc \in BackedUp => txn.pc \in BackedUp
  PROVE  TxnOK'
<1>1. txn \in Txns
  BY DEF TypeInv, TxnOK
<1>2. Keeps(txn, txn') /\ txn'.pc = pc
  BY <1>1, Went DEF Goto
<1> QED BY <1>2, TxnKept

(* Preparing, approving, unfreezing, selecting and loading releases.       *)
LEMMA PrepareType ==
  ASSUME TypeInv, faults' \in 0 .. MaxFaults,
         \/ \E c \in Revs : \/ CreateRecord(c) \/ Preproduction(c) \/ Approve(c)
                             \/ OwnerUnfreeze(c) \/ ManualLoad(c)
         \/ PrepareRevalidate \/ DeskSave \/ Merge \/ TimerScan \/ TimerDemote \/ Busy
  PROVE  /\ TypeInv'
         /\ UNCHANGED <<txn, guard, live, lkg, breaker, root, host, eng, marker, lift, rlift,
                        prior, hist>>
<1> USE RevFacts, EmptyTypes DEF disk, control
<1>0. /\ recs \in [Revs -> Recs] /\ recs[0].state = "closed" /\ main \in Revs
      /\ loaded \in Copies /\ desk \in Copies /\ reqs \subseteq Requests
  BY DEF TypeInv, DiskOK, CopiesOK, RestOK, ControlOK
<1> DEFINE Same == UNCHANGED <<txn, guard, live, lkg, breaker, root, host, eng, marker, lift,
                               rlift, prior, hist>>
<1> SUFFICES Same /\ DiskOK' /\ ControlOK' /\ CopiesOK' /\ main' \in Revs
  BY PartsKept DEF TypeInv, RestOK, hist
<1> HIDE DEF Same
<1>1. ASSUME NEW c \in Revs, CreateRecord(c) PROVE Same /\ DiskOK' /\ ControlOK' /\ CopiesOK' /\ main' \in Revs
  <2> DEFINE r == [recs[c] EXCEPT !.state = "release_candidate", !.base = live["runtime"]]
  <2>1. c # 0 /\ recs' = [recs EXCEPT ![c] = r]
    BY <1>0, <1>1 DEF CreateRecord
  <2>2. r \in Recs /\ r.state # "closed"
    <3>1. recs[c] \in Recs /\ live["runtime"] \in Revs
      BY <1>0, <1>1 DEF CreateRecord
    <3> QED BY <3>1 DEF Recs, RecStates
  <2> HIDE DEF r
  <2>3. DiskOK'
    BY <1>1, <2>1, <2>2, RecSaved DEF CreateRecord
  <2> QED BY <1>0, <1>1, <2>3, PartsKept DEF CreateRecord, Same
<1>2. ASSUME NEW c \in Revs, Preproduction(c) PROVE Same /\ DiskOK' /\ ControlOK' /\ CopiesOK' /\ main' \in Revs
  <2> DEFINE r == [recs[c] EXCEPT !.state = "production_eligible"]
  <2>1. c # 0 /\ recs' = [recs EXCEPT ![c] = r]
    BY <1>0, <1>2 DEF Preproduction
  <2>2. r \in Recs /\ r.state # "closed"
    BY <1>0 DEF Recs, RecStates
  <2> HIDE DEF r
  <2>3. DiskOK'
    BY <1>2, <2>1, <2>2, RecSaved DEF Preproduction
  <2> QED BY <1>0, <1>2, <2>3, PartsKept DEF Preproduction, Same
<1>3. ASSUME TimerDemote PROVE Same /\ DiskOK' /\ ControlOK' /\ CopiesOK' /\ main' \in Revs
  <2> DEFINE r == [recs[main] EXCEPT !.state = "development"]
  <2>1. main # 0 /\ recs' = [recs EXCEPT ![main] = r]
    BY <1>0, <1>3 DEF TimerDemote
  <2>2. r \in Recs /\ r.state # "closed"
    BY <1>0 DEF Recs, RecStates
  <2> HIDE DEF r
  <2>3. DiskOK'
    <3>1. UNCHANGED <<marker, backup, ticket, lift, rlift, prior>>
      BY <1>3 DEF TimerDemote
    <3> QED BY <1>0, <2>1, <2>2, <3>1, RecSaved
  <2> QED BY <1>0, <1>3, <2>3, PartsKept DEF TimerDemote, Same
<1>4. ASSUME DeskSave PROVE Same /\ DiskOK' /\ ControlOK' /\ CopiesOK' /\ main' \in Revs
  <2>1. desk.c \in Revs \ {0} /\ desk.rec \in Recs /\ desk.rec.state # "closed"
    BY <1>0, <1>4 DEF DeskSave, Copies, TypeInv, CopiesOK
  <2>2. DiskOK'
    <3>1. /\ recs' = [recs EXCEPT ![desk.c] = desk.rec]
          /\ UNCHANGED <<marker, backup, ticket, lift, rlift, prior>>
      BY <1>4 DEF DeskSave
    <3> QED BY <2>1, <3>1, RecSaved
  <2>3. CopiesOK'
    BY <1>4 DEF DeskSave, TypeInv, CopiesOK
  <2> QED BY <1>0, <1>4, <2>2, <2>3, PartsKept DEF DeskSave, Same
<1>5. ASSUME NEW c \in Revs, NEW r \in Recs, r.state = "production_eligible", c # 0,
             desk' = [c |-> c, rec |-> r], loaded' = loaded
      PROVE  CopiesOK'
  <2>1. desk' \in Copies /\ desk'.c # 0 /\ desk'.rec.state = "production_eligible"
    BY <1>5 DEF Copies
  <2> QED BY <1>5, <2>1 DEF TypeInv, CopiesOK
<1>6. ASSUME NEW c \in Revs, Approve(c) PROVE Same /\ DiskOK' /\ ControlOK' /\ CopiesOK' /\ main' \in Revs
  <2> DEFINE r == [recs[c] EXCEPT !.approved = TRUE]
  <2>1. recs[c] \in Recs /\ recs[c].state = "production_eligible" /\ c # 0
    BY <1>0, <1>6 DEF Approve
  <2>2. r \in Recs /\ r.state = "production_eligible"
    BY <2>1 DEF Recs
  <2>3. desk' = [c |-> c, rec |-> r] /\ loaded' = loaded
    BY <1>6 DEF Approve
  <2> HIDE DEF r
  <2>4. CopiesOK'
    BY <1>5, <2>1, <2>2, <2>3
  <2> QED BY <1>0, <1>6, <2>4, PartsKept DEF Approve, Same
<1>7. ASSUME NEW c \in Revs, OwnerUnfreeze(c) PROVE Same /\ DiskOK' /\ ControlOK' /\ CopiesOK' /\ main' \in Revs
  <2>1. recs[c] \in Recs /\ recs[c].state = "production_eligible" /\ c # 0
    BY <1>0, <1>7 DEF OwnerUnfreeze
  <2>2. CopiesOK'
    BY <1>5, <1>7, <2>1 DEF OwnerUnfreeze
  <2>3. DiskOK'
    BY <1>7, <2>1 DEF OwnerUnfreeze, TypeInv, DiskOK
  <2> QED BY <1>0, <1>7, <2>2, <2>3, PartsKept DEF OwnerUnfreeze, Same
<1>8. ASSUME NEW c \in Revs, NEW r \in Recs, c = 0 => r.state = "closed",
             loaded' = [c |-> c, rec |-> r], desk' = desk
      PROVE  CopiesOK'
  <2>1. loaded' \in Copies /\ (loaded'.c = 0 => loaded'.rec.state \in {"absent", "closed"})
    BY <1>8 DEF Copies
  <2> QED BY <1>8, <2>1 DEF TypeInv, CopiesOK
<1>9. ASSUME NEW c \in Revs, ManualLoad(c) PROVE Same /\ DiskOK' /\ ControlOK' /\ CopiesOK' /\ main' \in Revs
  BY <1>0, <1>8, <1>9, PartsKept DEF ManualLoad, Same
<1>10. ASSUME TimerScan PROVE Same /\ DiskOK' /\ ControlOK' /\ CopiesOK' /\ main' \in Revs
  BY <1>0, <1>8, <1>10, PartsKept DEF TimerScan, Same
<1>11. ASSUME PrepareRevalidate PROVE Same /\ DiskOK' /\ ControlOK' /\ CopiesOK' /\ main' \in Revs
  <2>1. [act |-> "revalidate", rev |-> lkg.rev, awaited |-> FALSE] \in Requests
    BY DEF TypeInv, ControlOK, Requests
  <2>2. ControlOK'
    BY <1>11, <2>1 DEF PrepareRevalidate, TypeInv, ControlOK
  <2> QED BY <1>0, <1>11, <2>2, PartsKept DEF PrepareRevalidate, Same
<1>12. ASSUME Merge PROVE Same /\ DiskOK' /\ ControlOK' /\ CopiesOK' /\ main' \in Revs
  <2>1. main' \in Revs
    BY <1>0, <1>12, BoundsAssumption DEF Merge, Revs
  <2> QED BY <1>12, <2>1, PartsKept DEF Merge, Same
<1>13. ASSUME Busy PROVE Same /\ DiskOK' /\ ControlOK' /\ CopiesOK' /\ main' \in Revs
  <2>1. CopiesOK'
    BY <1>13 DEF Busy, TypeInv, CopiesOK
  <2> QED BY <1>0, <1>13, <2>1, PartsKept DEF Busy, Same
<1> QED BY <1>1, <1>2, <1>3, <1>4, <1>6, <1>7, <1>9, <1>10, <1>11, <1>12, <1>13

(* A request left for root, and one left for the host worker.              *)
LEMMA SubmitType ==
  ASSUME TypeInv, faults' \in 0 .. MaxFaults, NEW act \in {"open", "revalidate", "set_last_known_good"},
         NEW rev \in Revs, NEW wait \in Pcs, Submit(act, rev, wait), txn.pc \notin {"idle"} \cup Returning,
         wait \in Before \/ txn.pc \notin Before, wait \in BackedUp => txn.pc \in BackedUp
  PROVE  TypeInv'
<1>1. txn \in Txns
  BY DEF TypeInv, TxnOK
<1>2. Keeps(txn, txn') /\ txn'.pc = wait
  <2>1. None \in {None, "ok", "no"}
    OBVIOUS
  <2> QED BY <1>1, <2>1, Went DEF Submit
<1>3. TxnOK'
  BY <1>2, TxnKept DEF Submit, disk
<1>4. ControlOK'
  <2>1. [act |-> act, rev |-> rev, awaited |-> TRUE] \in Requests
    BY DEF Requests
  <2> QED BY <2>1 DEF Submit, TypeInv, ControlOK
<1> QED BY <1>3, <1>4, PartsKept DEF Submit, TypeInv

\* A host request is submitted and waited for.
LEMMA SubmitHostType ==
  ASSUME TypeInv, faults' \in 0 .. MaxFaults,
         NEW rev \in Revs, NEW wait \in Pcs, SubmitHost(rev, wait), txn.pc \notin {"idle"} \cup Returning,
         txn.pc \notin Before, wait \in BackedUp => txn.pc \in BackedUp
  PROVE  TypeInv'
<1>1. txn \in Txns
  BY DEF TypeInv, TxnOK
<1>2. /\ txn' \in Txns /\ txn'.pc = wait /\ txn'.kind = txn.kind /\ txn'.c = txn.c
      /\ txn'.opened = txn.opened /\ txn'.rec = txn.rec /\ txn'.att = txn.att \cup {"host"}
  BY <1>1 DEF SubmitHost, Txns, Surfaces
<1>3. TxnOK'
  <2>1. prior' = prior /\ txn.c # 0 /\ txn'.c # 0
    BY <1>2 DEF SubmitHost, disk, TypeInv, TxnOK
  <2>2. txn.kind # None
    BY DEF TypeInv, TxnOK
  <2>3. txn'.pc \in BackedUp \/ "policy" \in txn'.att \/ txn'.kind = "rollback" => prior'[txn'.c] \in Revs
    BY <1>2, <2>1 DEF TypeInv, TxnOK
  <2>4. txn'.rec.state = "closed" => prior'[txn'.c] \in Revs
    BY <1>2, <2>1 DEF TypeInv, TxnOK
  <2> QED BY <1>2, <2>1, <2>2, <2>3, <2>4 DEF TxnOK
<1>4. HostOK'
  <2>1. [rev |-> rev, awaited |-> TRUE] \in Installs
    BY DEF Installs
  <2> QED BY <2>1 DEF SubmitHost, TypeInv, HostOK
<1> QED BY <1>3, <1>4, PartsKept DEF SubmitHost, TypeInv

(* An answer.                                                              *)
LEMMA AnsweredType ==
  ASSUME TypeInv, faults' \in 0 .. MaxFaults, NEW wait \in Pcs \ ({"idle"} \cup Returning), NEW ok \in Pcs, NEW no \in Pcs,
         Answered(wait, ok, no), {ok, no} \subseteq Before \/ wait \notin Before,
         ok \in BackedUp => wait \in BackedUp, no \in BackedUp => wait \in BackedUp
  PROVE  TypeInv'
<1> DEFINE pc == IF txn.reply = "ok" THEN ok ELSE no
<1>1. /\ pc \in Pcs /\ (pc \in Before \/ txn.pc \notin Before)
      /\ pc \in BackedUp => txn.pc \in BackedUp
      /\ Goto(pc) /\ txn.pc \notin {"idle"} \cup Returning /\ StepOnly
  BY DEF Answered, At
<1> HIDE DEF pc
<1>2. TxnOK'
  BY <1>1, Gone DEF StepOnly, disk
<1> QED BY <1>1, <1>2, OnlyTxn

(* Requests that nobody waits for any more.                                *)
LEMMA AbandonType ==
  ASSUME TypeInv, Abandon PROVE HostOK' /\ (UNCHANGED <<lkg, breaker>> => ControlOK')
<1>1. \A q \in Requests : [q EXCEPT !.awaited = FALSE] \in Requests
  BY DEF Requests
<1>2. root' \in Jobs \cup {NoJob}
  <2>1. [NoJob EXCEPT !.awaited = FALSE] = NoJob
    <3> DEFINE One == [act : {None}, rev : {0}, awaited : {FALSE}, policy : {0}]
    <3>1. [NoJob EXCEPT !.awaited = FALSE] \in One /\ NoJob \in One
      BY DEF NoJob
    <3>2. \A x \in One : x = [act |-> x.act, rev |-> x.rev, awaited |-> x.awaited, policy |-> x.policy]
      OBVIOUS
    <3>3. \A x \in One : x.act = None /\ x.rev = 0 /\ x.awaited = FALSE /\ x.policy = 0
      OBVIOUS
    <3> HIDE DEF One
    <3>4. ASSUME NEW x \in One PROVE x = NoJob
      <4>1. x = [act |-> x.act, rev |-> x.rev, awaited |-> x.awaited, policy |-> x.policy]
        BY <3>2
      <4>2. x.act = None /\ x.rev = 0 /\ x.awaited = FALSE /\ x.policy = 0
        BY <3>3
      <4> QED BY <4>1, <4>2, Zenon DEF NoJob
    <3> QED BY <3>1, <3>4
  <2>2. \A j \in Jobs : [j EXCEPT !.awaited = FALSE] \in Jobs
    BY DEF Jobs
  <2> QED BY <2>1, <2>2 DEF TypeInv, ControlOK, Abandon
<1>3. reqs' \subseteq Requests
  BY <1>1 DEF TypeInv, ControlOK, Abandon
<1>4. hjob' \in [rev : Revs, awaited : BOOLEAN, on : BOOLEAN]
  BY DEF TypeInv, HostOK, Abandon
<1>5. hostq' \in Seq(Installs)
  <2>1. \A x \in Installs : [x EXCEPT !.awaited = FALSE] \in Installs
    BY DEF Installs
  <2>2. hostq \in Seq(Installs)
    BY DEF TypeInv, HostOK
  <2>3. /\ \A i \in DOMAIN hostq : hostq[i] \in Installs
        /\ \E n \in Nat : DOMAIN hostq = 1 .. n
    BY <2>2
  <2>4. PICK n \in Nat : DOMAIN hostq = 1 .. n
    BY <2>3
  <2>5. hostq' = [i \in 1 .. n |-> [hostq[i] EXCEPT !.awaited = FALSE]]
    BY <2>4 DEF Abandon
  <2>6. hostq' \in [1 .. n -> Installs]
    BY <2>1, <2>3, <2>4, <2>5
  <2> QED BY <2>6
<1>6. stray' \in BOOLEAN
  BY DEF TypeInv, HostOK, Abandon
<1>7. HostOK'
  BY <1>4, <1>5, <1>6 DEF HostOK
<1>8. UNCHANGED <<lkg, breaker>> => ControlOK'
  BY <1>2, <1>3 DEF TypeInv, ControlOK
<1> QED BY <1>7, <1>8

(* A deadline.                                                             *)
LEMMA TimedOutType ==
  ASSUME TypeInv, faults' \in 0 .. MaxFaults, NEW wait \in Pcs \ ({"idle"} \cup Returning), NEW no \in Pcs,
         TimedOut(wait, no), no \in Before \/ wait \notin Before, no \notin BackedUp
  PROVE  TypeInv'
<1>1. txn \in Txns /\ "no" \in {None, "ok", "no"}
  BY DEF TypeInv, TxnOK
<1>2. Keeps(txn, txn') /\ txn'.pc = no
  BY <1>1 DEF TimedOut, Keeps, Txns
<1>3. TxnOK'
  BY <1>2, TxnKept DEF TimedOut, At, disk
<1>4. HostOK' /\ ControlOK'
  BY AbandonType DEF TimedOut
<1> QED BY <1>3, <1>4, PartsKept DEF TimedOut, TypeInv

(* A transaction takes the lock.                                           *)
LEMMA LockType ==
  ASSUME TypeInv, faults' \in 0 .. MaxFaults, Acquire \/ \E c \in Revs : RollbackClosed(c)
  PROVE  TypeInv'
<1> USE RevFacts, EmptyTypes
<1>0. txns' \in 0 .. MaxTxns
  <2>1. txns \in 0 .. MaxTxns /\ MaxTxns \in Nat
    BY BoundsAssumption DEF TypeInv, RestOK
  <2>2. txns' = txns \/ (txns < MaxTxns /\ txns' = txns + 1)
    BY DEF Acquire, RollbackClosed
  <2> QED BY <2>1, <2>2
<1>a. RestOK'
  <2>1. UNCHANGED <<main, guard, eng, ordered, torn>>
    BY DEF Acquire, RollbackClosed
  <2> QED BY <1>0, <2>1 DEF TypeInv, RestOK
<1>1. ASSUME NEW c \in Revs, NEW r \in Recs, NEW k \in {"deploy", "rollback"},
             txn' = [Idle EXCEPT !.pc = "gate", !.kind = k, !.c = c, !.rec = r], prior' = prior,
             c = 0 => k = "deploy" /\ r.state \in {"absent", "closed"},
             k = "rollback" => prior[c] \in Revs
      PROVE  TxnOK'
  <2>1. /\ txn' \in Txns /\ txn'.pc = "gate" /\ txn'.kind = k /\ txn'.c = c /\ txn'.rec = r
        /\ ~txn'.opened /\ txn'.att = {}
    <3>1. "gate" \in Pcs
      BY DEF Pcs
    <3> QED BY <1>1, <3>1, EmptyTypes DEF Txns
  <2> QED BY <1>1, <2>1 DEF TxnOK, Before, Returning, BackedUp, None
<1>2. ASSUME Acquire PROVE TypeInv'
  <2>1. /\ loaded.c \in Revs /\ loaded.rec \in Recs
        /\ loaded.c = 0 => loaded.rec.state \in {"absent", "closed"}
    BY DEF TypeInv, CopiesOK, Copies
  <2>2. TxnOK'
    <3>1. /\ txn' = [Idle EXCEPT !.pc = "gate", !.kind = "deploy", !.c = loaded.c, !.rec = loaded.rec]
          /\ prior' = prior
      BY <1>2 DEF Acquire, disk
    <3> QED BY <1>1, <2>1, <3>1
  <2>3. CopiesOK'
    BY <1>2 DEF Acquire, TypeInv, CopiesOK
  <2> QED BY <1>2, <1>a, <2>2, <2>3, PartsKept DEF Acquire, TypeInv
<1>3. ASSUME NEW c \in Revs, RollbackClosed(c) PROVE TypeInv'
  <2>1. DiskOK'
    BY <1>3 DEF RollbackClosed, TypeInv, DiskOK
  <2>2. c # 0 /\ recs[c] \in Recs /\ prior[c] \in Revs
    BY <1>3 DEF RollbackClosed, TypeInv, DiskOK, None
  <2>3. TxnOK'
    <3>1. CASE Locked
      BY <1>3, <3>1, PartsKept DEF RollbackClosed
    <3>2. CASE ~Locked
      <4>1. /\ txn' = [Idle EXCEPT !.pc = "gate", !.kind = "rollback", !.c = c, !.rec = recs[c]]
            /\ prior' = prior
        BY <1>3, <3>2 DEF RollbackClosed
      <4> QED BY <1>1, <2>2, <4>1
    <3> QED BY <3>1, <3>2
  <2> QED BY <1>3, <1>a, <2>1, <2>3, PartsKept DEF RollbackClosed, TypeInv
<1> QED BY <1>2, <1>3

(* The gates and checks of a transaction up to its lift of the freeze.     *)
LEMMA GatesType ==
  ASSUME TypeInv, faults' \in 0 .. MaxFaults,
         Gate \/ Quiescent \/ RestoreStranded \/ CheckFails \/ RollbackCheckFails
         \/ Source \/ Breaker \/ Freeze
  PROVE  TypeInv'
<1>0. txn \in Txns /\ txn.c \in Revs /\ lkg.rev \in Revs
  BY DEF TypeInv, TxnOK, ControlOK, Txns
<1>1. ASSUME Gate PROVE TypeInv'
  <2>1. DiskOK'
    <3>1. rlift' \in [Revs -> {None, "pending", "active", "returned", "finished"}]
      BY <1>0, <1>1 DEF Gate, TypeInv, DiskOK
    <3> QED BY <1>1, <3>1 DEF Gate, TypeInv, DiskOK
  <2>2. TxnOK'
    <3>1. CASE Goto("quiet")
      <4>1. "quiet" \in Pcs /\ "quiet" \in Before /\ "quiet" \notin BackedUp /\ prior' = prior
            /\ txn.pc \notin {"idle"} \cup Returning
        BY <1>1 DEF Gate, At, Pcs, Before, Returning, BackedUp
      <4> QED BY <3>1, <4>1, Gone
    <3>2. CASE txn' = Idle
      BY <3>2, IdleOK
    <3> QED BY <1>1, <3>1, <3>2 DEF Gate
  <2>3. RestOK'
    BY <1>1 DEF Gate, TypeInv, RestOK, hist
  <2> QED BY <1>1, <2>1, <2>2, <2>3, PartsKept DEF Gate, TypeInv
<1>2. ASSUME Quiescent PROVE TypeInv'
  <2>1. PICK pc \in {"end", "stranded", "align"} :
           Goto(pc) /\ (pc = "align" => txn.kind # "deploy")
    BY <1>2 DEF Quiescent
  <2>2. /\ pc \in Pcs /\ prior' = prior /\ txn.pc \notin {"idle"} \cup Returning /\ StepOnly
        /\ pc # "align" => pc \in Before /\ pc \notin BackedUp
    BY <1>2, <2>1 DEF Quiescent, At, Pcs, Before, Returning, BackedUp, StepOnly, disk
  <2>3. TxnOK'
    <3>1. CASE pc # "align"
      BY <2>1, <2>2, <3>1, Gone
    <3>2. CASE pc = "align"
      <4>1. Keeps(txn, txn') /\ txn'.pc = "align" /\ txn.kind = "rollback"
        BY <1>0, <2>1, <2>2, <3>2 DEF Goto, Keeps, Txns, TypeInv, TxnOK
      <4> QED BY <2>2, <3>2, <4>1 DEF Keeps, TypeInv, TxnOK, None
    <3> QED BY <3>1, <3>2
  <2> QED BY <2>2, <2>3, OnlyTxn
<1>3. ASSUME RestoreStranded PROVE TypeInv'
  <2>1. DiskOK'
    <3>1. lift' \in [Revs -> {None, "pending", "active", "stranded", "returned"}]
      BY <1>3 DEF RestoreStranded, TypeInv, DiskOK
    <3>2. marker' \in BOOLEAN
      BY <1>3 DEF RestoreStranded, TypeInv, DiskOK
    <3> QED BY <1>3, <3>1, <3>2 DEF RestoreStranded, TypeInv, DiskOK
  <2>2. PICK pc \in {"source", "end"} : Goto(pc)
    BY <1>3 DEF RestoreStranded
  <2>3. pc \in Pcs /\ pc \notin BackedUp /\ prior' = prior /\ txn.pc \notin {"idle"} \cup Returning /\ StepDisk
        /\ pc \in Before
    BY <1>3, <2>2 DEF RestoreStranded, At, Pcs, Before, Returning, BackedUp
  <2>4. TxnOK'
    BY <2>2, <2>3, Gone
  <2> QED BY <2>1, <2>3, <2>4, OnlyDisk
<1>4. ASSUME CheckFails \/ RollbackCheckFails PROVE TypeInv'
  <2>1. /\ "end" \in Pcs /\ "end" \notin BackedUp /\ prior' = prior /\ txn.pc \notin {"idle"} \cup Returning /\ StepOnly
        /\ "end" \in Before /\ Goto("end")
    BY <1>4 DEF CheckFails, RollbackCheckFails, Pcs, Before, Returning, BackedUp, StepOnly, disk
  <2>2. TxnOK'
    BY <2>1, Gone
  <2> QED BY <2>1, <2>2, OnlyTxn
<1>5. ASSUME Source PROVE TypeInv'
  <2>1. Keeps(txn, txn') /\ txn'.pc = "breaker" /\ StepOnly /\ prior' = prior /\ txn.pc \notin {"idle"} \cup Returning
    <3>1. marker \in BOOLEAN
      BY DEF TypeInv, DiskOK
    <3> QED BY <1>0, <1>5, <3>1 DEF Source, Keeps, Txns, At, Pcs, StepOnly, disk, Returning
  <2>2. TxnOK'
    BY <2>1, TxnKept DEF Before, Returning, BackedUp
  <2> QED BY <2>1, <2>2, OnlyTxn
<1>6. ASSUME Breaker PROVE TypeInv'
  <2>0. /\ {"freeze", "breakerWait"} \subseteq Pcs /\ {"freeze", "breakerWait"} \subseteq Before
        /\ {"freeze", "breakerWait"} \cap BackedUp = {} /\ txn.pc \notin {"idle"} \cup Returning
    BY <1>6 DEF Breaker, At, Pcs, Before, Returning, BackedUp
  <2>1. CASE Goto("freeze") /\ StepOnly
    <3>1. TxnOK'
      BY <2>0, <2>1, Gone DEF StepOnly, disk
    <3> QED BY <2>1, <3>1, OnlyTxn
  <2>2. CASE Submit("revalidate", lkg.rev, "breakerWait")
    BY <1>0, <2>0, <2>2, SubmitType
  <2> QED BY <1>6, <2>1, <2>2 DEF Breaker
<1>7. ASSUME Freeze PROVE TypeInv'
  <2>0. prior' = prior /\ StepOnly /\ txn.pc \notin {"idle"} \cup Returning
    BY <1>7 DEF Freeze, At, StepOnly, disk, Returning
  <2>1. CASE Goto("preflight")
    <3>1. "preflight" \in Pcs /\ "preflight" \in Before /\ "preflight" \notin BackedUp
      BY DEF Pcs, Before, Returning, BackedUp
    <3>2. TxnOK'
      BY <2>0, <2>1, <3>1, Gone
    <3> QED BY <2>0, <3>2, OnlyTxn
  <2>2. CASE Goto("lift") /\ ticket[txn.c] = "pending" /\ txn.rec.state = "production_eligible"
    <3>1. Keeps(txn, txn') /\ txn'.pc = "lift"
      BY <1>0, <2>2, Went DEF Goto, Pcs
    <3>2. txn.c # 0
      BY <2>2 DEF TypeInv, DiskOK, None
    <3>3. TxnOK'
      BY <2>0, <2>2, <3>1, <3>2 DEF Keeps, TypeInv, TxnOK, BackedUp
    <3> QED BY <2>0, <3>3, OnlyTxn
  <2> QED BY <1>7, <2>1, <2>2 DEF Freeze
<1> QED BY <1>1, <1>2, <1>3, <1>4, <1>5, <1>6, <1>7

(* The lift of the freeze, and the two saves before production is touched. *)
LEMMA LiftType ==
  ASSUME TypeInv, faults' \in 0 .. MaxFaults, Lift \/ Unlink \/ Activate \/ Preflight \/ Start
  PROVE  TypeInv'
<1> DEFINE Lifts == [Revs -> {None, "pending", "active", "stranded", "returned"}]
<1>0. txn \in Txns /\ txn.c \in Revs /\ txn.rec \in Recs /\ lift \in Lifts
  BY DEF TypeInv, TxnOK, Txns, DiskOK
<1>1. ASSUME Lift PROVE TypeInv'
  <2>1. DiskOK'
    <3>1. lift' \in Lifts
      <4>1. lift' = lift \/ lift' = [lift EXCEPT ![txn.c] = "pending"]
        BY <1>1 DEF Lift
      <4> QED BY <1>0, <4>1
    <3>2. backup' \in BOOLEAN
      BY <1>1 DEF Lift, TypeInv, DiskOK
    <3> QED BY <1>1, <3>1, <3>2 DEF Lift, TypeInv, DiskOK
  <2>2. PICK pc \in {"unlink", "end"} : Goto(pc)
    BY <1>1 DEF Lift
  <2>3. /\ pc \in Pcs /\ pc \notin BackedUp /\ prior' = prior /\ txn.pc \notin {"idle"} \cup Returning /\ StepDisk
        /\ txn.pc \notin Before
    BY <1>1, <2>2 DEF Lift, At, Pcs, BackedUp, Before, Returning
  <2>4. TxnOK'
    BY <2>2, <2>3, Gone
  <2> QED BY <2>1, <2>3, <2>4, OnlyDisk
<1>2. ASSUME Unlink PROVE TypeInv'
  <2>1. DiskOK'
    BY <1>2 DEF Unlink, TypeInv, DiskOK
  <2>2. /\ "activate" \in Pcs /\ "activate" \notin BackedUp /\ prior' = prior /\ txn.pc \notin {"idle"} \cup Returning
        /\ StepDisk /\ txn.pc \notin Before /\ Goto("activate")
    BY <1>2 DEF Unlink, At, Pcs, BackedUp, Before, Returning
  <2>3. TxnOK'
    BY <2>2, Gone
  <2> QED BY <2>1, <2>2, <2>3, OnlyDisk
<1>3. ASSUME Activate PROVE TypeInv'
  <2>1. DiskOK'
    <3>1. lift' \in Lifts
      BY <1>0, <1>3 DEF Activate
    <3> QED BY <1>3, <3>1 DEF Activate, TypeInv, DiskOK
  <2>2. /\ txn' \in Txns /\ txn'.pc = "preflight" /\ txn'.kind = txn.kind /\ txn'.c = txn.c
        /\ txn'.rec = txn.rec /\ txn'.att = txn.att /\ prior' = prior
    BY <1>0, <1>3 DEF Activate, Txns, Pcs
  <2>3. txn.c # 0 /\ txn.kind # None
    BY <1>3 DEF Activate, At, TypeInv, TxnOK, Before, Returning
  <2>4. TxnOK'
    BY <2>2, <2>3 DEF TypeInv, TxnOK, BackedUp, Before
  <2> QED BY <1>3, <2>1, <2>4, OnlyDisk DEF Activate
<1>4. ASSUME Preflight PROVE TypeInv'
  <2>1. txn.c # 0 /\ txn.rec.state # "closed" /\ txn.kind # None
    BY <1>4 DEF Preflight, At, TypeInv, TxnOK
  <2>2. DiskOK'
    <3>1. /\ recs' = [recs EXCEPT ![txn.c] = txn.rec]
          /\ UNCHANGED <<marker, backup, ticket, lift, rlift, prior>>
      BY <1>4 DEF Preflight, StepRecs
    <3> QED BY <1>0, <2>1, <3>1, RecSaved
  <2>3. Keeps(txn, txn') /\ txn'.pc = "start"
    <3>1. "start" \in Pcs
      BY DEF Pcs
    <3> QED BY <1>0, <1>4, <3>1, Went DEF Preflight, Goto
  <2>4. TxnOK'
    BY <1>4, <2>1, <2>3 DEF Preflight, StepRecs, Keeps, TypeInv, TxnOK, BackedUp
  <2> QED BY <1>4, <2>2, <2>4, OnlyDisk DEF Preflight, StepRecs
<1>5. ASSUME Start PROVE TypeInv'
  <2>1. txn.c # 0 /\ txn.kind # None
    BY <1>5 DEF Start, At, TypeInv, TxnOK, Before, Returning
  <2>2. /\ txn' \in Txns /\ txn'.pc = "policy" /\ txn'.kind = txn.kind /\ txn'.c = txn.c
        /\ txn'.rec \in Recs /\ txn'.rec.state = "production" /\ txn'.att = txn.att /\ prior' = prior
    BY <1>0, <1>5 DEF Start, Txns, Pcs, Recs, RecStates
  <2>3. DiskOK'
    <3>1. /\ recs' = [recs EXCEPT ![txn.c] = txn'.rec]
          /\ UNCHANGED <<marker, backup, ticket, lift, rlift, prior>>
      BY <1>5 DEF Start
    <3> QED BY <1>0, <2>1, <2>2, <3>1, RecSaved
  <2>4. TxnOK'
    BY <2>1, <2>2 DEF TypeInv, TxnOK, BackedUp
  <2> QED BY <1>5, <2>3, <2>4, OnlyDisk DEF Start, StepDisk
<1> QED BY <1>1, <1>2, <1>3, <1>4, <1>5

(* One surface changes.                                                    *)
LEMMA SurfaceSet ==
  ASSUME TypeInv, NEW s \in Surfaces, NEW v \in Revs \cup {Broken}, s = "policy" => v \in Revs,
         live' = [live EXCEPT ![s] = v]
  PROVE  LiveOK'
<1>1. live \in [Surfaces -> Revs \cup {Broken}] /\ live["policy"] \in Revs /\ "policy" \in Surfaces
  BY DEF TypeInv, LiveOK, Surfaces
<1>2. live' \in [Surfaces -> Revs \cup {Broken}]
  BY <1>1
<1>3. live'["policy"] \in Revs
  BY <1>1
<1> QED BY <1>2, <1>3 DEF LiveOK

(* The forward steps on the surfaces.                                      *)
LEMMA DeployType ==
  ASSUME TypeInv, faults' \in 0 .. MaxFaults,
         StagePolicy \/ DeploySurface("runtime", "mcp") \/ DeploySurface("mcp", "host")
         \/ HelperFails \/ InstallManager \/ Verify \/ Close
  PROVE  TypeInv'
<1>0. /\ txn \in Txns /\ txn.c \in Revs /\ txn.rec \in Recs /\ txn.att \subseteq Surfaces
      /\ live["policy"] \in Revs
      /\ live \in [Surfaces -> Revs \cup {Broken}]
  BY DEF TypeInv, TxnOK, Txns, LiveOK
<1>1. /\ txn.c # 0 /\ txn.kind # None /\ txn.pc \notin {"idle"} \cup Returning /\ txn.pc \notin Before
      /\ txn.pc # "policy" => txn.pc \in BackedUp
  BY DEF StagePolicy, DeploySurface, HelperFails, InstallManager, Verify, Close, At, TypeInv,
         TxnOK, Before, Returning, BackedUp
<1>2. ASSUME /\ txn' \in Txns /\ txn'.kind = txn.kind /\ txn'.c = txn.c
             /\ prior'[txn.c] \in Revs
      PROVE  TxnOK'
  BY <1>1, <1>2 DEF TxnOK
<1>3. txn.pc \in BackedUp => prior[txn.c] \in Revs
  BY DEF TypeInv, TxnOK
<1>4. ASSUME StagePolicy PROVE TypeInv'
  <2> DEFINE base == IF prior[txn.c] = Unset THEN live["policy"] ELSE prior[txn.c]
             agrees == live["policy"] \in {base, txn.c}
  <2>1. base \in Revs /\ prior \in [Revs -> {Unset} \cup Revs]
    BY <1>0 DEF TypeInv, DiskOK
  <2>2. /\ prior' = [prior EXCEPT ![txn.c] = base]
        /\ recs' = IF agrees THEN [recs EXCEPT ![txn.c] = txn.rec] ELSE recs
        /\ live' = IF agrees THEN [live EXCEPT !["policy"] = txn.c] ELSE live
        /\ txn' = IF agrees THEN [txn EXCEPT !.pc = "runtime", !.att = @ \cup {"policy"}]
                            ELSE [txn EXCEPT !.pc = "undoMcp"]
    BY <1>4 DEF StagePolicy
  <2> HIDE DEF base, agrees
  <2>3. prior' \in [Revs -> {Unset} \cup Revs] /\ prior'[txn.c] \in Revs
        /\ \A c \in Revs : prior[c] \in Revs => prior'[c] \in Revs
    BY <1>0, <2>1, <2>2
  <2>4. recs' \in [Revs -> Recs] /\ \A c \in Revs \ {txn.c} : recs'[c] = recs[c]
    BY <1>0, <2>2 DEF TypeInv, DiskOK
  <2>5. DiskOK'
    BY <1>0, <1>1, <1>4, <2>3, <2>4, RevFacts DEF StagePolicy, TypeInv, DiskOK
  <2>6. LiveOK'
    <3>1. CASE agrees
      <4>1. "policy" \in Surfaces /\ live' = [live EXCEPT !["policy"] = txn.c]
        BY <2>2, <3>1 DEF Surfaces
      <4> QED BY <1>0, <4>1, SurfaceSet
    <3>2. CASE ~agrees
      BY <2>2, <3>2, PartsKept
    <3> QED BY <3>1, <3>2
  <2>7. txn' \in Txns /\ txn'.kind = txn.kind /\ txn'.c = txn.c
    <3>1. CASE agrees
      BY <1>0, <2>2, <3>1 DEF Txns, Pcs, Surfaces
    <3>2. CASE ~agrees
      BY <1>0, <2>2, <3>2 DEF Txns, Pcs
    <3> QED BY <3>1, <3>2
  <2> QED BY <1>2, <1>4, <2>3, <2>5, <2>6, <2>7, PartsKept DEF StagePolicy, TypeInv
<1>5. ASSUME StepLive, LiveOK', txn.pc \in BackedUp \/ prior[txn.c] \in Revs,
             txn' \in Txns /\ txn'.kind = txn.kind /\ txn'.c = txn.c
      PROVE  TypeInv'
  <2>1. TxnOK'
    BY <1>2, <1>3, <1>5 DEF StepLive, disk
  <2> QED BY <1>5, <2>1, OnlyLive
<1>6. ASSUME NEW s \in {"runtime", "mcp"}, NEW next \in {"mcp", "host"}, DeploySurface(s, next)
      PROVE  TypeInv'
  <2>1. s \in Surfaces /\ s # "policy" /\ live' = [live EXCEPT ![s] = txn.c] /\ StepLive
        /\ txn.pc \in BackedUp
    BY <1>6 DEF DeploySurface, Surfaces, At, BackedUp
  <2>2. LiveOK'
    BY <1>0, <2>1, SurfaceSet
  <2>3. txn' \in Txns /\ txn'.kind = txn.kind /\ txn'.c = txn.c
    BY <1>0, <1>6, <2>1 DEF DeploySurface, Txns, Pcs
  <2> QED BY <1>5, <2>1, <2>2, <2>3
<1>7. ASSUME HelperFails PROVE TypeInv'
  <2>1. LiveOK'
    <3>1. CASE live' = live
      BY <3>1, PartsKept
    <3>2. ASSUME NEW v \in Leftovers(txn.pc, txn.c), live' = [live EXCEPT ![txn.pc] = v],
                 txn.pc \notin {"policy", "verify"}
          PROVE  LiveOK'
      <4>1. txn.pc \in Surfaces /\ txn.pc # "policy"
        BY <1>7, <3>2 DEF HelperFails, Surfaces
      <4>2. v \in Revs \cup {Broken}
        BY <1>0, <3>2, <4>1 DEF Leftovers
      <4> QED BY <3>2, <4>1, <4>2, SurfaceSet
    <3> QED BY <1>7, <3>1, <3>2 DEF HelperFails
  <2>2. /\ txn' \in Txns /\ txn'.kind = txn.kind /\ txn'.c = txn.c /\ txn'.pc = "undoMcp"
        /\ "policy" \in txn'.att => "policy" \in txn.att
    <3> DEFINE more == {txn.pc} \cap {"runtime", "mcp"}
    <3>1. more \subseteq Surfaces /\ "policy" \notin more
      BY DEF Surfaces
    <3>2. txn' = [txn EXCEPT !.pc = "undoMcp", !.att = @ \cup more]
      BY <1>7 DEF HelperFails
    <3> HIDE DEF more
    <3> QED BY <1>0, <3>1, <3>2 DEF Txns, Pcs
  <2>3. TxnOK'
    <3>1. prior' = prior /\ txn'.pc \notin BackedUp
      BY <1>7, <2>2 DEF HelperFails, StepLive, disk, BackedUp
    <3>2. "policy" \in txn.att \/ txn.kind = "rollback" => prior[txn.c] \in Revs
      BY DEF TypeInv, TxnOK
    <3>3. txn'.rec = txn.rec
      BY <1>0, <1>7 DEF HelperFails, Txns
    <3>4. txn.rec.state = "closed" => prior[txn.c] \in Revs
      BY <1>1 DEF TypeInv, TxnOK
    <3> QED BY <1>1, <2>2, <3>1, <3>2, <3>3, <3>4 DEF TxnOK
  <2> QED BY <1>7, <2>1, <2>3, OnlyLive DEF HelperFails
<1>8. ASSUME InstallManager PROVE TypeInv'
  <2>1. LiveOK'
    <3>1. CASE live' = live
      BY <3>1, PartsKept
    <3>2. CASE live' = [live EXCEPT !["manager"] = txn.c]
      BY <1>0, <3>2, SurfaceSet DEF Surfaces
    <3> QED BY <1>8, <3>1, <3>2 DEF InstallManager
  <2>2. txn' \in Txns /\ txn'.kind = txn.kind /\ txn'.c = txn.c
    <3>1. CASE Goto("undoMcp")
      BY <1>0, <3>1 DEF Goto, Txns, Pcs
    <3>2. CASE txn' = [txn EXCEPT !.pc = "verify", !.att = @ \cup {"manager"}]
      BY <1>0, <3>2 DEF Txns, Pcs, Surfaces
    <3> QED BY <1>8, <3>1, <3>2 DEF InstallManager
  <2>3. txn.pc \in BackedUp
    BY <1>8 DEF InstallManager, At, BackedUp
  <2> QED BY <1>5, <1>8, <2>1, <2>2, <2>3 DEF InstallManager
<1>9. ASSUME Verify PROVE TypeInv'
  <2>1. PICK pc \in {"commit", "undoMcp"} : Goto(pc)
    BY <1>9 DEF Verify
  <2>2. pc \in Pcs /\ txn.pc \in BackedUp /\ StepOnly /\ prior' = prior
    BY <1>9 DEF Verify, At, Pcs, BackedUp, StepOnly, disk
  <2>3. TxnOK'
    BY <1>1, <2>1, <2>2, Gone
  <2> QED BY <2>2, <2>3, OnlyTxn
<1>10. ASSUME Close PROVE TypeInv'
  <2>1. txn' \in Txns /\ txn'.kind = txn.kind /\ txn'.c = txn.c /\ txn'.rec \in Recs
    BY <1>0, <1>10 DEF Close, Txns, Pcs, Recs, RecStates
  <2>2. prior[txn.c] \in Revs /\ prior' = prior
    BY <1>3, <1>10 DEF Close, At, BackedUp, StepRecs
  <2>3. DiskOK'
    <3>1. /\ recs' = [recs EXCEPT ![txn.c] = txn'.rec]
          /\ UNCHANGED <<marker, backup, ticket, lift, rlift, prior>>
      BY <1>10 DEF Close, StepRecs
    <3> QED BY <1>0, <1>1, <2>1, <2>2, <3>1, RecSaved
  <2>4. TxnOK'
    BY <1>2, <2>1, <2>2
  <2> QED BY <1>10, <2>3, <2>4, OnlyDisk DEF Close, StepRecs
<1> QED BY <1>4, <1>6, <1>7, <1>8, <1>9, <1>10

(* The undoing of a release.                                               *)
LEMMA UndoType ==
  ASSUME TypeInv, faults' \in 0 .. MaxFaults,
         \/ UndoSurface("undoMcp", "mcp", "undoHost") \/ UndoSurface("undoRuntime", "runtime", "undoVerify")
         \/ UndoSurfaceFails("undoMcp", "mcp", "undoHost")
         \/ UndoSurfaceFails("undoRuntime", "runtime", "undoVerify")
         \/ UndoHost \/ UndoHostDone \/ UndoHostTimedOut \/ UndoManager \/ UndoManagerFails
         \/ UndoPolicy \/ UndoPolicyFails \/ (\E ok \in BOOLEAN : UndoVerify(ok)) \/ SaveFailure
  PROVE  TypeInv'
<1> DEFINE Undoing == {"undoMcp", "undoHost", "undoHostWait", "undoManager", "undoPolicy",
                       "undoRuntime", "undoVerify", "open", "rcommit", "end"}
<1>0. /\ txn \in Txns /\ txn.c \in Revs /\ txn.rec \in Recs /\ txn.att \subseteq Surfaces
      /\ live \in [Surfaces -> Revs \cup {Broken}] /\ Base \in Revs
  BY DEF TypeInv, TxnOK, Txns, LiveOK, Base, Recs
<1>1. txn.c # 0 /\ txn.kind # None /\ txn.pc \notin {"idle"} \cup Returning /\ txn.pc \notin Before
  BY DEF UndoSurface, UndoSurfaceFails, UndoHost, UndoHostDone, UndoHostTimedOut, UndoManager,
         UndoManagerFails, UndoPolicy, UndoPolicyFails, UndoVerify, SaveFailure, At, TypeInv,
         TxnOK, Before, Returning
<1>2. Undoing \subseteq Pcs /\ Undoing \cap BackedUp = {}
  BY DEF Pcs, BackedUp
<1> HIDE DEF Undoing
<1>3. ASSUME NEW pc \in Undoing, Goto(pc), prior' = prior PROVE TxnOK'
  BY <1>1, <1>2, <1>3, Gone
<1>4. ASSUME NEW pc \in Undoing, UndoError(pc), prior' = prior PROVE TxnOK'
  <2> DEFINE e == IF txn.kind = "deploy" THEN pc ELSE "end"
  <2>1. e \in Undoing /\ txn' = [txn EXCEPT !.pc = e, !.err = TRUE, !.reply = None]
    BY <1>4 DEF UndoError, Undoing
  <2> HIDE DEF e
  <2>2. Keeps(txn, txn') /\ txn'.pc = e
    BY <1>0, <1>2, <2>1 DEF Keeps, Txns
  <2> QED BY <1>1, <1>2, <1>4, <2>1, <2>2, TxnKept
<1>5. ASSUME StepOnly \/ StepLive PROVE prior' = prior
  BY <1>5 DEF StepOnly, StepLive, disk
<1>6. ASSUME NEW p, NEW s \in {"mcp", "runtime"}, NEW next \in Undoing,
             UndoSurface(p, s, next) \/ UndoSurfaceFails(p, s, next)
      PROVE  TypeInv'
  <2>0. StepLive /\ s \in Surfaces /\ s # "policy"
    BY <1>6 DEF UndoSurface, UndoSurfaceFails, Surfaces
  <2>1. LiveOK'
    <3>1. CASE live' = live
      BY <3>1, PartsKept
    <3>2. ASSUME NEW v \in Leftovers(s, Base), live' = [live EXCEPT ![s] = v] PROVE LiveOK'
      <4>1. v \in Revs \cup {Broken}
        BY <1>0, <2>0, <3>2 DEF Leftovers
      <4> QED BY <2>0, <3>2, <4>1, SurfaceSet
    <3>3. Base \in Leftovers(s, Base)
      BY DEF Leftovers
    <3> QED BY <1>6, <3>1, <3>2, <3>3 DEF UndoSurface, UndoSurfaceFails
  <2>2. TxnOK'
    BY <1>3, <1>4, <1>5, <1>6, <2>0 DEF UndoSurface, UndoSurfaceFails
  <2> QED BY <2>0, <2>1, <2>2, OnlyLive
<1>7. ASSUME UndoHost PROVE TypeInv'
  <2>1. CASE Goto("undoManager") /\ StepOnly
    <3>1. TxnOK'
      BY <1>3, <1>5, <2>1 DEF Undoing
    <3> QED BY <2>1, <3>1, OnlyTxn
  <2>2. CASE SubmitHost(Base, "undoHostWait")
    <3>1. "undoHostWait" \in Pcs /\ "undoHostWait" \notin BackedUp
      BY DEF Pcs, BackedUp
    <3> QED BY <1>0, <1>1, <2>2, <3>1, SubmitHostType
  <2> QED BY <1>7, <2>1, <2>2 DEF UndoHost
<1>8. ASSUME UndoHostDone \/ UndoPolicyFails PROVE TypeInv'
  <2>1. TxnOK'
    BY <1>3, <1>4, <1>5, <1>8 DEF UndoHostDone, UndoPolicyFails, Undoing
  <2> QED BY <1>8, <2>1, OnlyTxn DEF UndoHostDone, UndoPolicyFails
<1>9. ASSUME UndoHostTimedOut PROVE TypeInv'
  <2>1. TxnOK'
    BY <1>4, <1>9 DEF UndoHostTimedOut, Undoing, disk
  <2>2. HostOK' /\ ControlOK'
    BY <1>9, AbandonType DEF UndoHostTimedOut
  <2> QED BY <1>9, <2>1, <2>2, PartsKept DEF UndoHostTimedOut, TypeInv
<1>10. ASSUME UndoManager \/ UndoManagerFails PROVE TypeInv'
  <2>1. StepLive
    BY <1>10 DEF UndoManager, UndoManagerFails
  <2>2. LiveOK'
    <3>1. CASE live' = live
      BY <3>1, PartsKept
    <3>2. CASE live' = [live EXCEPT !["manager"] = Base]
      BY <1>0, <3>2, SurfaceSet DEF Surfaces
    <3> QED BY <1>10, <3>1, <3>2 DEF UndoManager, UndoManagerFails
  <2>3. TxnOK'
    BY <1>3, <1>4, <1>5, <1>10, <2>1 DEF UndoManager, UndoManagerFails, Undoing
  <2> QED BY <2>1, <2>2, <2>3, OnlyLive
<1>11. ASSUME UndoPolicy PROVE TypeInv'
  <2>0. "policy" \in txn.att => prior[txn.c] \in Revs
    BY DEF TypeInv, TxnOK
  <2>1. LiveOK'
    <3>1. CASE live' = live
      BY <3>1, PartsKept
    <3>2. CASE "policy" \in txn.att /\ live' = [live EXCEPT !["policy"] = prior[txn.c]]
      BY <2>0, <3>2, SurfaceSet DEF Surfaces
    <3> QED BY <1>11, <3>1, <3>2 DEF UndoPolicy
  <2>2. DiskOK'
    <3>0. UNCHANGED <<marker, backup, ticket, lift, rlift, prior>>
      BY <1>11 DEF UndoPolicy
    <3>1. CASE recs' = recs
      BY <3>0, <3>1, PartsKept DEF disk
    <3>2. CASE "policy" \in txn.att /\ recs' = [recs EXCEPT ![txn.c] = txn.rec]
      BY <1>0, <1>1, <2>0, <3>0, <3>2, RecSaved
    <3> QED BY <1>11, <3>1, <3>2 DEF UndoPolicy
  <2>3. TxnOK'
    BY <1>3, <1>11 DEF UndoPolicy, Undoing
  <2> QED BY <1>11, <2>1, <2>2, <2>3, PartsKept DEF UndoPolicy, TypeInv
<1>12. ASSUME NEW ok \in BOOLEAN, UndoVerify(ok) PROVE TypeInv'
  <2>1. CASE txn.kind = "deploy"
    <3> DEFINE st == IF ok THEN "rolled_back" ELSE "failed"
    <3>1. st \in RecStates \ {"closed"} /\ txn' = [txn EXCEPT !.pc = "open", !.rec.state = st]
      BY <1>12, <2>1 DEF UndoVerify, RecStates
    <3> HIDE DEF st
    <3>2. /\ txn' \in Txns /\ txn'.pc = "open" /\ txn'.kind = txn.kind /\ txn'.c = txn.c
          /\ txn'.att = txn.att /\ txn'.rec.state = st
      BY <1>0, <3>1 DEF Txns, Pcs, Recs
    <3>3. prior' = prior
      BY <1>5, <1>12 DEF UndoVerify
    <3>4. TxnOK'
      BY <1>1, <3>1, <3>2, <3>3 DEF TypeInv, TxnOK, BackedUp
    <3> QED BY <1>12, <3>4, OnlyTxn DEF UndoVerify
  <2>2. CASE txn.kind # "deploy"
    <3>1. PICK pc \in {"rcommit", "end"} : Goto(pc)
      BY <1>12, <2>2 DEF UndoVerify, Goto
    <3>2. pc \in Undoing
      BY DEF Undoing
    <3>3. TxnOK'
      BY <1>3, <1>5, <1>12, <3>1, <3>2 DEF UndoVerify
    <3> QED BY <1>12, <3>3, OnlyTxn DEF UndoVerify
  <2> QED BY <2>1, <2>2
<1>13. ASSUME SaveFailure PROVE TypeInv'
  <2>0. UNCHANGED <<marker, backup, ticket, lift, rlift, prior>>
        /\ recs' = [recs EXCEPT ![txn.c] = txn.rec] /\ Goto("end")
    BY <1>13 DEF SaveFailure, StepRecs
  <2>1. DiskOK'
    <3>1. txn.rec.state = "closed" => prior[txn.c] \in Revs
      BY <1>1 DEF TypeInv, TxnOK
    <3> QED BY <1>0, <1>1, <2>0, <3>1, RecSaved
  <2>2. TxnOK'
    BY <1>3, <2>0 DEF Undoing
  <2> QED BY <1>13, <2>1, <2>2, OnlyDisk DEF SaveFailure, StepRecs
<1> QED BY <1>6, <1>7, <1>8, <1>9, <1>10, <1>11, <1>12, <1>13 DEF Undoing

(* The lift and the record of a rollback, and the end of a transaction.    *)
LEMMA EndType ==
  ASSUME TypeInv, faults' \in 0 .. MaxFaults,
         RollbackLift \/ RollbackUnlink \/ RollbackSave \/ Ungate \/ End \/ Receipt \/ Consume \/ Exit
  PROVE  TypeInv'
<1> DEFINE Lifts == [Revs -> {None, "pending", "active", "stranded", "returned"}]
           RLifts == [Revs -> {None, "pending", "active", "returned", "finished"}]
<1>0. /\ txn \in Txns /\ txn.c \in Revs /\ txn.rec \in Recs /\ rlift \in RLifts /\ lift \in Lifts
      /\ txn.kind = "rollback" => prior[txn.c] \in Revs
      /\ txn.pc # "idle" => txn.kind # None
      /\ txn.pc \notin Before => txn.c # 0
      /\ txn.opened => txn.c # 0
  BY DEF TypeInv, TxnOK, Txns, DiskOK
<1>1. ASSUME RollbackLift PROVE TypeInv'
  <2>1. DiskOK'
    <3>1. rlift' \in RLifts
      BY <1>0, <1>1 DEF RollbackLift
    <3> QED BY <1>1, <3>1 DEF RollbackLift, TypeInv, DiskOK
  <2>2. /\ "runlink" \in Pcs /\ txn.pc \in BackedUp /\ prior' = prior /\ txn.pc \notin {"idle"} \cup Returning
        /\ txn.pc \notin Before /\ Goto("runlink")
    BY <1>1 DEF RollbackLift, At, Pcs, BackedUp, Before, Returning
  <2>3. TxnOK'
    BY <2>2, Gone
  <2> QED BY <1>1, <2>1, <2>3, OnlyDisk DEF RollbackLift
<1>2. ASSUME RollbackUnlink PROVE TypeInv'
  <2>1. DiskOK'
    BY <1>2 DEF RollbackUnlink, TypeInv, DiskOK
  <2>2. /\ txn' \in Txns /\ txn'.pc = "ropen" /\ txn'.kind = txn.kind /\ txn'.c = txn.c
        /\ txn'.rec = txn.rec
    BY <1>0, <1>2 DEF RollbackUnlink, Txns, Pcs
  <2>3. prior' = prior /\ txn.c # 0 /\ txn.kind # None /\ prior[txn.c] \in Revs
    BY <1>0, <1>2 DEF RollbackUnlink, At, Before, BackedUp, TypeInv, TxnOK
  <2>4. TxnOK'
    BY <2>2, <2>3 DEF TxnOK
  <2> QED BY <1>2, <2>1, <2>4, OnlyDisk DEF RollbackUnlink
<1>3. ASSUME RollbackSave PROVE TypeInv'
  <2>1. /\ txn' \in Txns /\ txn'.pc = "rclose" /\ txn'.kind = txn.kind /\ txn'.c = txn.c
        /\ txn'.rec \in Recs /\ txn'.rec.state = "rolled_back" /\ txn'.att = txn.att
    BY <1>0, <1>3 DEF RollbackSave, Txns, Pcs, Recs, RecStates
  <2>2. prior' = prior /\ txn.c # 0 /\ txn.kind # None
    BY <1>0, <1>3 DEF RollbackSave, At, Before, StepRecs
  <2>3. DiskOK'
    <3>1. /\ recs' = [recs EXCEPT ![txn.c] = txn'.rec]
          /\ UNCHANGED <<marker, backup, ticket, lift, rlift, prior>>
      BY <1>3 DEF RollbackSave, StepRecs
    <3> QED BY <1>0, <2>1, <2>2, <3>1, RecSaved
  <2>4. TxnOK'
    BY <2>1, <2>2 DEF TypeInv, TxnOK, BackedUp
  <2> QED BY <1>3, <2>3, <2>4, OnlyDisk DEF RollbackSave, StepRecs
<1>4. ASSUME NEW pc \in Pcs, Goto(pc), prior' = prior, txn.pc \in {"end"} \cup Returning,
             pc \in {"exit"} \cup Returning, txn.c # 0 \/ pc = "exit"
      PROVE  TxnOK'
  <2>1. Keeps(txn, txn') /\ txn'.pc = pc
    BY <1>0, <1>4 DEF Goto, Keeps, Txns
  <2>2. txn.pc # "idle"
    BY <1>4 DEF Returning
  <2>3. pc \notin BackedUp /\ pc \in Before \cup Returning /\ "exit" \in Before
    BY <1>4 DEF Returning, BackedUp, Before
  <2>4. txn'.c = 0 =>
           /\ txn'.pc \in Before /\ ~txn'.opened
           /\ txn'.kind # "rollback" /\ txn'.rec.state \in {"absent", "closed"}
    BY <1>4, <2>1, <2>3 DEF TypeInv, TxnOK, Keeps
  <2> QED BY <1>4, <2>1, <2>2, <2>3, <2>4 DEF TypeInv, TxnOK, Keeps
<1>5. ASSUME End PROVE TypeInv'
  <2>1. DiskOK'
    <3>1. marker' \in BOOLEAN
      BY <1>5 DEF End, TypeInv, DiskOK
    <3> QED BY <1>5, <3>1 DEF End, TypeInv, DiskOK
  <2>2. TxnOK'
    <3>0. prior' = prior /\ txn.pc \in {"end"} \cup Returning
      BY <1>5 DEF End, At
    <3>1. CASE txn.opened /\ Goto("receipt")
      BY <1>0, <1>4, <3>0, <3>1 DEF Returning, Pcs
    <3>2. CASE Goto("exit")
      BY <1>4, <3>0, <3>2 DEF Pcs
    <3> QED BY <1>5, <3>1, <3>2 DEF End
  <2> QED BY <1>5, <2>1, <2>2, OnlyDisk DEF End
<1>6. ASSUME Receipt PROVE TypeInv'
  <2>0. txn.c # 0 /\ prior' = prior /\ txn.pc \in {"end"} \cup Returning
    BY <1>0, <1>6 DEF Receipt, At, Before, Returning
  <2>1. DiskOK'
    <3>1. lift' \in Lifts /\ rlift' \in RLifts
      BY <1>0, <1>6 DEF Receipt
    <3> QED BY <1>6, <3>1 DEF Receipt, TypeInv, DiskOK
  <2>2. TxnOK'
    <3>1. PICK pc \in {"exit", "consume"} : Goto(pc)
      BY <1>6 DEF Receipt
    <3>2. pc \in Pcs /\ pc \in {"exit"} \cup Returning
      BY DEF Pcs, Returning
    <3> QED BY <1>4, <2>0, <3>1, <3>2
  <2> QED BY <1>6, <2>1, <2>2, OnlyDisk DEF Receipt
<1>7. ASSUME Consume PROVE TypeInv'
  <2>0. txn.c # 0 /\ prior' = prior /\ txn.pc \in {"end"} \cup Returning /\ Goto("exit")
    BY <1>0, <1>7 DEF Consume, At, Before, Returning
  <2>1. DiskOK'
    <3>1. /\ ticket' \in [Revs -> {None, "pending", "consumed"}]
          /\ ticket'[0] = None
      BY <1>0, <1>7, <2>0, RevFacts DEF Consume, TypeInv, DiskOK
    <3> QED BY <1>7, <3>1 DEF Consume, TypeInv, DiskOK
  <2>2. TxnOK'
    BY <1>4, <2>0 DEF Pcs
  <2> QED BY <1>7, <2>1, <2>2, OnlyDisk DEF Consume
<1>8. ASSUME Exit PROVE TypeInv'
  <2>1. DiskOK'
    <3>1. rlift' \in RLifts
      BY <1>0, <1>8 DEF Exit
    <3> QED BY <1>8, <3>1 DEF Exit, TypeInv, DiskOK
  <2>2. TxnOK'
    BY <1>8, IdleOK DEF Exit
  <2>3. RestOK'
    BY <1>8 DEF Exit, TypeInv, RestOK, hist
  <2> QED BY <1>8, <2>1, <2>2, <2>3, PartsKept DEF Exit, TypeInv
<1>9. ASSUME Ungate PROVE TypeInv'
  <2>1. RestOK'
    BY <1>9 DEF Ungate, TypeInv, RestOK, hist
  <2>2. TxnOK'
    BY <1>9, PartsKept DEF Ungate, disk
  <2> QED BY <1>9, <2>1, <2>2, PartsKept DEF Ungate, TypeInv
<1> QED BY <1>1, <1>2, <1>3, <1>5, <1>6, <1>7, <1>8, <1>9

(* The root workers.                                                       *)
LEMMA RootType ==
  ASSUME TypeInv, faults' \in 0 .. MaxFaults,
         (\E q \in reqs : RootPick(q) \/ RootDrift(q)) \/ RootCommit \/ HostPick \/ HostDone \/ HostFails
  PROVE  TypeInv'
<1>0. /\ txn \in Txns /\ reqs \subseteq Requests /\ root \in Jobs \cup {NoJob}
      /\ lkg \in [rev : Revs, policy : Revs] /\ breaker \in {"open", "closed"}
      /\ hostq \in Seq(Installs) /\ hjob \in [rev : Revs, awaited : BOOLEAN, on : BOOLEAN]
      /\ live \in [Surfaces -> Revs \cup {Broken}] /\ live["policy"] \in Revs
  BY DEF TypeInv, TxnOK, ControlOK, HostOK, LiveOK
<1>1. ASSUME NEW q, NEW r \in {"ok", "no"}, txn' = Reply(q, r) \/ txn' = txn, prior' = prior PROVE TxnOK'
  <2>1. CASE txn' = txn
    BY <1>1, <2>1, PartsKept
  <2>2. CASE txn' = [txn EXCEPT !.reply = r]
    <3>1. Keeps(txn, txn') /\ txn'.pc = txn.pc
      BY <1>0, <2>2 DEF Keeps, Txns
    <3> QED BY <1>1, <3>1, TxnKept
  <2> QED BY <1>1, <2>1, <2>2 DEF Reply
<1>2. ASSUME NEW q \in reqs, RootPick(q) \/ RootDrift(q) PROVE TypeInv'
  <2>1. ControlOK'
    <3>1. Verified(q) \in Jobs
      BY <1>0 DEF Verified, Requests, Jobs
    <3> QED BY <1>0, <1>2, <3>1 DEF RootPick, RootDrift, ControlOK
  <2>2. TxnOK'
    <3>1. txn' = Reply(q, "no") \/ txn' = txn
      BY <1>2 DEF RootPick, RootDrift
    <3>2. prior' = prior
      BY <1>2 DEF RootPick, RootDrift, disk
    <3> QED BY <1>1, <3>1, <3>2
  <2> QED BY <1>2, <2>1, <2>2, PartsKept DEF RootPick, RootDrift, TypeInv
<1>3. ASSUME RootCommit PROVE TypeInv'
  <2>1. ControlOK'
    <3>1. lkg' \in [rev : Revs, policy : Revs]
      <4>1. root \in Jobs
        BY <1>0, <1>3 DEF RootCommit
      <4> QED BY <1>0, <1>3, <4>1 DEF RootCommit, Jobs
    <3>2. breaker' \in {"open", "closed"} /\ root' = NoJob /\ reqs' = reqs
      BY <1>3 DEF RootCommit
    <3> QED BY <1>0, <3>1, <3>2 DEF ControlOK
  <2>2. TxnOK'
    <3>1. txn' = Reply(root, "ok") /\ prior' = prior
      BY <1>3 DEF RootCommit, disk
    <3> QED BY <1>1, <3>1
  <2> QED BY <1>3, <2>1, <2>2, PartsKept DEF RootCommit, TypeInv
<1>4. ASSUME HostPick PROVE TypeInv'
  <2>1. Head(hostq) \in Installs /\ Tail(hostq) \in Seq(Installs)
    BY <1>0, <1>4 DEF HostPick
  <2>2. HostOK'
    <3>1. hjob' \in [rev : Revs, awaited : BOOLEAN, on : BOOLEAN]
      <4>1. CASE hjob' = hjob
        BY <1>0, <4>1
      <4>2. CASE hjob' = [rev |-> Head(hostq).rev, awaited |-> Head(hostq).awaited, on |-> TRUE]
        BY <2>1, <4>2 DEF Installs
      <4> QED BY <1>4, <4>1, <4>2 DEF HostPick
    <3>2. stray' \in BOOLEAN
      BY <1>4 DEF HostPick, TypeInv, HostOK
    <3> QED BY <1>4, <2>1, <3>1, <3>2 DEF HostPick, HostOK
  <2>3. TxnOK'
    <3>1. (txn' = Reply(Head(hostq), "no") \/ txn' = txn) /\ prior' = prior
      BY <1>4 DEF HostPick, disk
    <3> QED BY <1>1, <3>1
  <2> QED BY <1>4, <2>2, <2>3, PartsKept DEF HostPick, TypeInv
<1>5. ASSUME HostDone \/ HostFails PROVE TypeInv'
  <2>1. HostOK'
    <3>1. stray' \in BOOLEAN
      BY <1>5 DEF HostDone, HostFails
    <3> QED BY <1>0, <1>5, <3>1, EmptyTypes DEF HostDone, HostFails, HostOK
  <2>2. LiveOK'
    <3>1. PICK v \in Leftovers("host", hjob.rev) : live' = [live EXCEPT !["host"] = v]
      BY <1>5 DEF HostDone, HostFails, Leftovers
    <3>2. "host" \in Surfaces /\ v \in Revs \cup {Broken}
      BY <1>0, <3>1 DEF Leftovers, Surfaces
    <3> QED BY <3>1, <3>2, SurfaceSet
  <2>3. TxnOK'
    <3>1. (txn' = Reply(hjob, "ok") \/ txn' = Reply(hjob, "no")) /\ prior' = prior
      BY <1>5 DEF HostDone, HostFails, disk
    <3> QED BY <1>1, <3>1
  <2> QED BY <1>5, <2>1, <2>2, <2>3, PartsKept DEF HostDone, HostFails, TypeInv
<1> QED BY <1>2, <1>3, <1>4, <1>5

(* The owner's freeze, the engineering worker, kills and reboots.          *)
LEMMA OutsideType ==
  ASSUME TypeInv, faults' \in 0 .. MaxFaults,
         \/ OwnerFreeze \/ Kill \/ Reboot
         \/ EngStart \/ EngGate \/ EngIs("admitted", "active") \/ EngIs("active", "inactive")
  PROVE  TypeInv'
<1> DEFINE States == {"inactive", "activating", "admitted", "active"}
<1>0. /\ txn \in Txns /\ eng \in [state : States, starts : 0 .. MaxStarts]
      /\ torn \subseteq {"deploy", "rollback"} /\ txn.kind \in {None, "deploy", "rollback"}
  BY DEF TypeInv, TxnOK, RestOK, Txns
<1>1. ASSUME OwnerFreeze PROVE TypeInv'
  <2>1. DiskOK'
    BY <1>1 DEF OwnerFreeze, TypeInv, DiskOK
  <2>2. RestOK'
    BY <1>1 DEF OwnerFreeze, TypeInv, RestOK
  <2> QED BY <1>1, <2>1, <2>2, PartsKept DEF OwnerFreeze, TypeInv
<1>2. torn \cup ({txn.kind} \ {None}) \subseteq {"deploy", "rollback"}
  BY <1>0
<1>3. ASSUME Kill PROVE TypeInv'
  <2>1. HostOK' /\ ControlOK'
    BY <1>3, AbandonType DEF Kill
  <2>2. RestOK'
    BY <1>2, <1>3 DEF Kill, TypeInv, RestOK
  <2>3. TxnOK'
    BY <1>3, IdleOK DEF Kill
  <2> QED BY <1>3, <2>1, <2>2, <2>3, PartsKept DEF Kill, TypeInv
<1>4. ASSUME NEW from \in States, NEW to \in States, EngIs(from, to),
             from = "inactive" => eng.starts < MaxStarts
      PROVE  TypeInv'
  <2>1. eng.starts \in 0 .. MaxStarts /\ MaxStarts \in Nat
    BY <1>0, BoundsAssumption
  <2>2. (IF from = "inactive" THEN eng.starts + 1 ELSE eng.starts) \in 0 .. MaxStarts
    BY <1>4, <2>1
  <2>3. eng' \in [state : States, starts : 0 .. MaxStarts]
    BY <1>4, <2>2 DEF EngIs
  <2>4. RestOK'
    BY <1>4, <2>3 DEF EngIs, TypeInv, RestOK, hist
  <2> QED BY <1>4, <2>4, PartsKept DEF EngIs, disk, TypeInv
<1>5. ASSUME Reboot PROVE TypeInv'
  <2> DEFINE queue == IF hjob.on THEN <<[rev |-> hjob.rev, awaited |-> FALSE]>> \o hostq
                                 ELSE hostq
             again == reqs \cup (IF root = NoJob THEN {} ELSE {root})
  <2>1. ControlOK'
    <3>1. again \subseteq Requests \cup Jobs
      BY DEF TypeInv, ControlOK
    <3>2. \A q \in Requests \cup Jobs : [act |-> q.act, rev |-> q.rev, awaited |-> FALSE] \in Requests
      BY DEF Requests, Jobs
    <3>3. /\ reqs' = {[act |-> q.act, rev |-> q.rev, awaited |-> FALSE] : q \in again}
          /\ root' = NoJob /\ UNCHANGED <<lkg, breaker>>
      BY <1>5 DEF Reboot
    <3> HIDE DEF again
    <3> QED BY <3>1, <3>2, <3>3 DEF TypeInv, ControlOK
  <2>2. HostOK'
    <3>1. hostq \in Seq(Installs) /\ [rev |-> hjob.rev, awaited |-> FALSE] \in Installs
      BY DEF TypeInv, HostOK, Installs
    <3>2. queue \in Seq(Installs)
      <4>1. <<[rev |-> hjob.rev, awaited |-> FALSE]>> \in Seq(Installs)
        BY <3>1
      <4>2. <<[rev |-> hjob.rev, awaited |-> FALSE]>> \o hostq \in Seq(Installs)
        BY <3>1, <4>1
      <4> QED BY <3>1, <4>2
    <3>3. hostq' = [i \in DOMAIN queue |-> [queue[i] EXCEPT !.awaited = FALSE]] /\ hjob' = NoInstall
      BY <1>5 DEF Reboot
    <3> HIDE DEF queue
    <3>4. PICK n \in Nat : DOMAIN queue = 1 .. n /\ \A i \in 1 .. n : queue[i] \in Installs
      BY <3>2
    <3>5. \A x \in Installs : [x EXCEPT !.awaited = FALSE] \in Installs
      BY DEF Installs
    <3>6. hostq' = [i \in 1 .. n |-> [queue[i] EXCEPT !.awaited = FALSE]]
      BY <3>3, <3>4
    <3>7. hostq' \in [1 .. n -> Installs]
      BY <3>4, <3>5, <3>6
    <3>8. stray' \in BOOLEAN
      BY <1>5 DEF Reboot
    <3> QED BY <3>3, <3>7, <3>8, EmptyTypes DEF HostOK
  <2>3. LiveOK'
    <3>0. "host" \in Surfaces /\ live \in [Surfaces -> Revs \cup {Broken}] /\ hjob.rev \in Revs
      BY DEF TypeInv, LiveOK, HostOK, Surfaces
    <3>1. PICK v \in Leftovers("host", hjob.rev) : live' = [live EXCEPT !["host"] = v]
      BY <1>5 DEF Reboot, Leftovers
    <3>2. v \in Revs \cup {Broken}
      BY <3>0, <3>1 DEF Leftovers
    <3> QED BY <3>0, <3>1, <3>2, SurfaceSet
  <2>4. RestOK'
    <3>1. eng' \in [state : States, starts : 0 .. MaxStarts]
      BY <1>0, <1>5 DEF Reboot
    <3>2. torn' \subseteq {"deploy", "rollback"} /\ guard' \in BOOLEAN /\ UNCHANGED <<main, ordered, txns>>
      BY <1>2, <1>5 DEF Reboot
    <3> QED BY <3>1, <3>2 DEF TypeInv, RestOK
  <2>5. TxnOK'
    BY <1>5, IdleOK DEF Reboot
  <2>6. CopiesOK'
    BY <1>5, EmptyTypes DEF Reboot, CopiesOK
  <2>7. DiskOK'
    BY <1>5, PartsKept DEF Reboot
  <2> QED BY <2>1, <2>2, <2>3, <2>4, <2>5, <2>6, <2>7 DEF TypeInv
<1> QED BY <1>1, <1>3, <1>4, <1>5 DEF EngStart, EngGate

(* The requests of a transaction, their answers and their deadlines.       *)
LEMMA RequestType ==
  ASSUME TypeInv, faults' \in 0 .. MaxFaults,
         \/ At("host") /\ SubmitHost(txn.c, "hostWait")
         \/ At("commit") /\ Submit("set_last_known_good", txn.c, "commitWait")
         \/ At("open") /\ Submit("open", txn.c, "openWait")
         \/ At("ropen") /\ Submit("open", txn.c, "ropenWait")
         \/ At("rcommit") /\ Submit("set_last_known_good", Base, "rcommitWait")
         \/ At("rclose") /\ Submit("open", txn.c, "rcloseWait")
         \/ Answered("breakerWait", "freeze", "end") \/ Answered("hostWait", "manager", "undoMcp")
         \/ Answered("commitWait", "close", "undoMcp") \/ Answered("openWait", "saveFailure", "end")
         \/ Answered("ropenWait", "undoMcp", "end") \/ Answered("rcommitWait", "rsave", "end")
         \/ Answered("rcloseWait", "end", "end")
         \/ TimedOut("breakerWait", "end") \/ TimedOut("hostWait", "undoMcp")
         \/ TimedOut("commitWait", "undoMcp") \/ TimedOut("openWait", "end")
         \/ TimedOut("ropenWait", "end") \/ TimedOut("rcommitWait", "end")
         \/ TimedOut("rcloseWait", "end")
  PROVE  TypeInv'
<1>0. txn.c \in Revs /\ Base \in Revs
  BY DEF TypeInv, TxnOK, Txns, Base, Recs
<1>1. ASSUME At("host"), SubmitHost(txn.c, "hostWait") PROVE TypeInv'
  BY <1>0, <1>1, SubmitHostType DEF At, Pcs, Before, BackedUp, Returning
<1>2. ASSUME NEW act \in {"open", "revalidate", "set_last_known_good"}, NEW rev \in Revs,
             NEW p \in {"commit", "open", "ropen", "rcommit", "rclose"}, At(p),
             NEW wait \in {"commitWait", "openWait", "ropenWait", "rcommitWait", "rcloseWait"},
             Submit(act, rev, wait), wait = "commitWait" => p = "commit"
      PROVE  TypeInv'
  <2>1. /\ wait \in Pcs /\ txn.pc \notin {"idle"} \cup Returning /\ txn.pc \notin Before
        /\ wait \in BackedUp => txn.pc \in BackedUp
    BY <1>2 DEF At, Pcs, Before, BackedUp, Returning
  <2> QED BY <1>2, <2>1, SubmitType
<1>3. \/ At("host") /\ SubmitHost(txn.c, "hostWait")
      \/ At("commit") /\ Submit("set_last_known_good", txn.c, "commitWait")
      \/ At("open") /\ Submit("open", txn.c, "openWait")
      \/ At("ropen") /\ Submit("open", txn.c, "ropenWait")
      \/ At("rcommit") /\ Submit("set_last_known_good", Base, "rcommitWait")
      \/ At("rclose") /\ Submit("open", txn.c, "rcloseWait")
      => TypeInv'
  BY <1>0, <1>1, <1>2
<1> DEFINE Later == {"hostWait", "commitWait", "openWait", "ropenWait", "rcommitWait", "rcloseWait"}
<1>4. /\ Later \subseteq Pcs \ ({"idle"} \cup Returning) /\ Later \cap Before = {}
      /\ "breakerWait" \in Pcs \ ({"idle"} \cup Returning)
      /\ {"freeze", "end"} \subseteq Before /\ {"freeze", "end"} \cap BackedUp = {}
      /\ {"freeze", "end", "manager", "close", "undoMcp", "saveFailure", "rsave"} \subseteq Pcs
      /\ {"undoMcp", "saveFailure", "rsave"} \cap BackedUp = {}
      /\ {"hostWait", "commitWait"} \subseteq BackedUp
  BY DEF Pcs, Before, BackedUp, Returning
<1>5. ASSUME Answered("breakerWait", "freeze", "end") PROVE TypeInv'
  BY <1>4, <1>5, AnsweredType
<1>6. ASSUME NEW wait \in {"hostWait", "commitWait"}, NEW ok \in {"manager", "close"},
             Answered(wait, ok, "undoMcp")
      PROVE  TypeInv'
  BY <1>4, <1>6, AnsweredType
<1>7. ASSUME NEW wait \in Later, NEW ok \in {"saveFailure", "undoMcp", "rsave", "end"},
             Answered(wait, ok, "end")
      PROVE  TypeInv'
  BY <1>4, <1>7, AnsweredType
<1>8. ASSUME NEW wait \in Later \cup {"breakerWait"}, TimedOut(wait, "end") PROVE TypeInv'
  BY <1>4, <1>8, TimedOutType
<1>9. ASSUME NEW wait \in {"hostWait", "commitWait"}, TimedOut(wait, "undoMcp") PROVE TypeInv'
  BY <1>4, <1>9, TimedOutType
<1> QED BY <1>3, <1>5, <1>6, <1>7, <1>8, <1>9

(* Every step keeps the types.                                             *)
LEMMA TypeStep == TypeInv /\ [Next]_vars => TypeInv'
<1> SUFFICES ASSUME TypeInv, [Next]_vars PROVE TypeInv'
  OBVIOUS
<1>1. CASE UNCHANGED vars
  <2>1. UNCHANGED <<main, disk, loaded, desk, txn, guard, live, control, host, eng, hist, faults, prior>>
    BY <1>1 DEF vars, disk
  <2> QED BY <2>1, PartsKept DEF TypeInv
<1>2. CASE Next
  <2>1. faults' \in 0 .. MaxFaults
    <3>1. faults \in 0 .. MaxFaults /\ MaxFaults \in Nat
      BY BoundsAssumption DEF TypeInv
    <3>2. faults' = faults \/ (faults < MaxFaults /\ faults' = faults + 1)
      BY <1>2 DEF Next
    <3> QED BY <3>1, <3>2
  <2>2. ASSUME Transaction PROVE TypeInv'
    <3>1. (~txn.err /\ Complete(Base)) \in BOOLEAN
      OBVIOUS
    <3> QED BY <2>1, <2>2, <3>1, GatesType, LiftType, DeployType, UndoType, EndType, RequestType
            DEF Transaction
  <2>3. ASSUME TransactionFault PROVE TypeInv'
    BY <2>1, <2>3, DeployType, UndoType, RequestType DEF TransactionFault
  <2>4. ASSUME Normal PROVE TypeInv'
    BY <2>1, <2>2, <2>4, PrepareType, LockType, RootType, OutsideType DEF Normal
  <2>5. ASSUME Fault PROVE TypeInv'
    BY <2>1, <2>3, <2>5, RootType, OutsideType DEF Fault
  <2> QED BY <1>2, <2>4, <2>5 DEF Next
<1> QED BY <1>1, <1>2

(* The type invariant: whatever is killed, delayed or left behind, every   *)
(* record, receipt, request and surface holds a value the code gives it;   *)
(* in particular a restored approval policy always comes from a backup     *)
(* that exists (restore_mobile_release_approval_policy).                   *)
THEOREM TypeCorrect == Spec => []TypeOK
<1>1. Spec => []TypeInv
  BY TypeInit, TypeStep, PTL DEF Spec
<1> QED BY <1>1, TypesHold, PTL

-----------------------------------------------------------------------------
(* The freeze and the exclusion of the engineering worker.                 *)

\* The places of a deployment from the recovery of stranded lifts on, ...
Checking == {"source", "breaker", "breakerWait", "freeze", "lift"}
Lifting == {"unlink", "activate"}
Lifted == {"preflight", "start"}
\* ... of a rollback before it lifts the freeze, and those where the
\* engineering worker may still be found running
Aligning == {"align", "runlink"}
Harmless == {"idle", "gate", "quiet", "end", "exit"}

FlowInv ==
    /\ txn.pc = "idle" => txn.kind = None
    /\ txn.pc \in {"idle", "gate", "quiet"} => ~txn.opened
    /\ txn.pc \in {"stranded"} \cup Checking \cup Lifting \cup Lifted => txn.kind = "deploy"
    /\ txn.pc \in Aligning => txn.kind = "rollback"

\* A rollback that has lifted the freeze and has yet to return it
RollbackHolds ==
    txn.kind = "rollback" /\ txn.opened /\ txn.pc \notin {"idle", "receipt", "consume", "exit"}

FreezeInv ==
    /\ ordered /\ ~marker /\ "rollback" \notin torn => Unfinished # {} \/ RollbackHolds
    /\ txn.pc \in Checking => Unfinished = {}
    /\ txn.pc \in Lifting => lift[txn.c] = "pending"
    /\ txn.pc \in Lifted => Unfinished = {} \/ (txn.opened /\ lift[txn.c] = "active")
    /\ txn.pc = "receipt" => marker

ExclusionInv ==
    eng.state \in {"admitted", "active"} => txn.pc \in Harmless /\ ~txn.opened

LiftInv == FlowInv /\ FreezeInv /\ ExclusionInv

\* A step that leaves the freeze, its receipts and the worker alone, and takes
\* the transaction along an edge on which nothing new is claimed of them.
Edge(p, q) ==
    \/ q = p
    \/ /\ p \notin Harmless
       /\ q \notin {"idle", "gate", "quiet", "receipt", "consume", "exit", "stranded"} \cup Lifting
       /\ q \in Checking => p \in Checking
       /\ q \in Lifted => p \in Checking \cup Lifted
       /\ q \in Aligning => p \in Aligning

Alike(t, u) == u.kind = t.kind /\ u.c = t.c /\ u.opened = t.opened

Plain ==
    /\ UNCHANGED <<marker, lift, ordered, torn, eng>>
    /\ Alike(txn, txn') /\ Edge(txn.pc, txn'.pc)

(* Such a step keeps the invariant.                                        *)
LEMMA PlainKeeps == ASSUME LiftInv, Plain PROVE LiftInv'
<1>0. /\ UNCHANGED <<marker, lift, ordered, torn, eng>> /\ Unfinished' = Unfinished
      /\ txn'.kind = txn.kind /\ txn'.c = txn.c /\ txn'.opened = txn.opened
  BY DEF Plain, Alike, Unfinished
<1>1. FlowInv'
  BY <1>0 DEF Plain, Edge, LiftInv, FlowInv, Harmless, Checking, Lifting, Lifted, Aligning
<1>2. FreezeInv'
  <2>1. ordered /\ ~marker /\ "rollback" \notin torn => Unfinished # {} \/ RollbackHolds'
    BY <1>0 DEF Plain, Edge, LiftInv, FreezeInv, RollbackHolds
  <2>2. txn'.pc \in Checking => Unfinished = {}
    BY <1>0 DEF Plain, Edge, LiftInv, FreezeInv
  <2>3. txn'.pc \in Lifting => lift[txn.c] = "pending"
    BY <1>0 DEF Plain, Edge, LiftInv, FreezeInv
  <2>4. txn'.pc \in Lifted => Unfinished = {} \/ (txn.opened /\ lift[txn.c] = "active")
    BY <1>0 DEF Plain, Edge, LiftInv, FreezeInv
  <2>5. txn'.pc = "receipt" => marker
    BY <1>0 DEF Plain, Edge, LiftInv, FreezeInv
  <2> QED BY <1>0, <2>1, <2>2, <2>3, <2>4, <2>5 DEF FreezeInv
<1>3. ExclusionInv'
  BY <1>0 DEF Plain, Edge, LiftInv, ExclusionInv, Harmless
<1> QED BY <1>1, <1>2, <1>3 DEF LiftInv

(* The initial state.                                                      *)
LEMMA LiftInit == Init => LiftInv
<1> SUFFICES ASSUME Init PROVE LiftInv
  OBVIOUS
<1>1. txn = Idle /\ ordered = marker /\ eng.state = "inactive" /\ ordered \in BOOLEAN
  BY DEF Init
<1>2. Idle.pc = "idle" /\ Idle.kind = None /\ ~Idle.opened
  BY EmptyTypes
<1> QED BY <1>1, <1>2 DEF LiftInv, FlowInv, FreezeInv, ExclusionInv, Harmless, Checking,
                          Lifting, Lifted, Aligning

(* Requests, answers and deadlines are plain.                              *)
LEMMA RequestPlain ==
  ASSUME TypeInv, NEW p, NEW q, Edge(p, q), At(p),
         \/ Goto(q) /\ (StepOnly \/ StepLive \/ StepRecs)
         \/ UndoError(q) /\ (StepOnly \/ StepLive) /\ p \notin Harmless
         \/ (\E act, rev : Submit(act, rev, q)) \/ (\E rev : SubmitHost(rev, q))
         \/ TimedOut(p, q)
  PROVE  Plain
<1>1. txn \in Txns /\ txn.pc = p
  BY DEF TypeInv, TxnOK, At
<1>2. UNCHANGED <<marker, lift, ordered, torn, eng>>
  BY DEF StepOnly, StepLive, StepRecs, StepDisk, Submit, SubmitHost, TimedOut, disk, hist
<1>3. Alike(txn, txn')
  BY <1>1 DEF Goto, UndoError, Submit, SubmitHost, TimedOut, Alike, Txns
<1>4. CASE UndoError(q) /\ p \notin Harmless
  <2>1. txn'.pc \in {q, "end"}
    BY <1>1, <1>4 DEF UndoError, Txns
  <2>2. Edge(p, "end")
    BY <1>4 DEF Edge, Harmless, Lifting, Checking, Lifted, Aligning
  <2> QED BY <1>1, <1>2, <1>3, <2>1, <2>2 DEF Plain
<1>5. CASE ~(UndoError(q) /\ p \notin Harmless)
  <2>1. txn'.pc = q
    BY <1>1, <1>5 DEF Goto, Submit, SubmitHost, TimedOut, Txns
  <2> QED BY <1>1, <1>2, <1>3, <2>1 DEF Plain
<1> QED BY <1>4, <1>5

\* The places where surfaces, records and the breaker are changed
Mutating ==
    {"policy", "runtime", "mcp", "host", "hostWait", "manager", "verify", "commit",
     "commitWait", "close", "undoMcp", "undoHost", "undoHostWait", "undoManager",
     "undoPolicy", "undoRuntime", "undoVerify", "open", "openWait", "saveFailure", "ropen",
     "ropenWait", "rcommit", "rcommitWait", "rsave", "rclose", "rcloseWait"}

(* The edges of a transaction on which nothing new is claimed.             *)
LEMMA Edges ==
  /\ \A p \in Mutating, q \in Mutating \cup {"end"} : Edge(p, q)
  /\ \A p \in Checking \cup Lifted \cup Aligning : Edge(p, "end")
  /\ \A p, q \in Checking : Edge(p, q)
  /\ Edge("freeze", "preflight") /\ Edge("preflight", "start") /\ Edge("start", "policy")
  /\ Edge("align", "runlink")
  /\ Mutating \cap Harmless = {}
BY DEF Edge, Mutating, Harmless, Checking, Lifting, Lifted, Aligning

(* The transaction's plain steps before production is touched, ...         *)
LEMMA ChecksPlain ==
  ASSUME TypeInv,
         CheckFails \/ RollbackCheckFails \/ Source \/ Breaker \/ Freeze \/ Preflight \/ Start
         \/ Answered("breakerWait", "freeze", "end") \/ TimedOut("breakerWait", "end")
  PROVE  Plain
<1>0. txn \in Txns
  BY DEF TypeInv, TxnOK
<1> USE Edges
<1>1. ASSUME CheckFails \/ RollbackCheckFails PROVE Plain
  <2>1. Edge(txn.pc, "end") /\ At(txn.pc)
    BY <1>1 DEF CheckFails, RollbackCheckFails, Checking, Lifted, Aligning, Mutating, At
  <2> QED BY <1>1, <2>1, RequestPlain DEF CheckFails, RollbackCheckFails
<1>2. ASSUME Source PROVE Plain
  <2>1. txn'.pc = "breaker" /\ Alike(txn, txn')
    BY <1>0, <1>2 DEF Source, Txns, Alike
  <2>2. Edge(txn.pc, "breaker")
    BY <1>2 DEF Source, At, Checking
  <2> QED BY <1>2, <2>1, <2>2 DEF Plain, Source, StepOnly, disk, hist
<1>3. ASSUME Breaker PROVE Plain
  <2>1. Edge("breaker", "freeze") /\ Edge("breaker", "breakerWait")
    BY DEF Checking
  <2> QED BY <1>3, <2>1, RequestPlain DEF Breaker
<1>4. ASSUME Freeze PROVE Plain
  <2>1. Edge("freeze", "lift") /\ Edge("freeze", "preflight")
    BY DEF Checking
  <2> QED BY <1>4, <2>1, RequestPlain DEF Freeze
<1>5. ASSUME Preflight PROVE Plain
  BY <1>5, RequestPlain DEF Preflight
<1>6. ASSUME Start PROVE Plain
  <2>1. txn'.pc = "policy" /\ Alike(txn, txn') /\ txn.pc = "start"
    BY <1>0, <1>6 DEF Start, Txns, Alike, At
  <2> QED BY <1>6, <2>1 DEF Plain, Start, hist
<1>7. ASSUME Answered("breakerWait", "freeze", "end") PROVE Plain
  <2>1. Edge("breakerWait", "freeze") /\ Edge("breakerWait", "end")
    BY DEF Checking
  <2> QED BY <1>7, <2>1, RequestPlain DEF Answered
<1>8. ASSUME TimedOut("breakerWait", "end") PROVE Plain
  <2>1. Edge("breakerWait", "end") /\ At("breakerWait")
    BY <1>8 DEF Checking, TimedOut
  <2> QED BY <1>8, <2>1, RequestPlain
<1> QED BY <1>1, <1>2, <1>3, <1>4, <1>5, <1>6, <1>7, <1>8

(* ... and from then on.                                                   *)
LEMMA MutatingPlain ==
  ASSUME TypeInv,
         \/ StagePolicy \/ DeploySurface("runtime", "mcp") \/ DeploySurface("mcp", "host")
         \/ At("host") /\ SubmitHost(txn.c, "hostWait")
         \/ Answered("hostWait", "manager", "undoMcp")
         \/ InstallManager \/ Verify \/ HelperFails
         \/ At("commit") /\ Submit("set_last_known_good", txn.c, "commitWait")
         \/ Answered("commitWait", "close", "undoMcp") \/ Close
  PROVE  Plain
<1>0. txn \in Txns
  BY DEF TypeInv, TxnOK
<1> USE Edges
<1>1. ASSUME NEW p \in Mutating, NEW q \in Mutating \cup {"end"}, txn.pc = p, txn'.pc = q, Alike(txn, txn'),
             UNCHANGED <<marker, lift, ordered, torn, eng>>
      PROVE  Plain
  BY <1>1 DEF Plain
<1>2. ASSUME NEW p \in Mutating, NEW q \in Mutating \cup {"end"}, At(p),
             \/ Goto(q) /\ (StepOnly \/ StepLive \/ StepRecs)
             \/ (\E act, rev : Submit(act, rev, q)) \/ (\E rev : SubmitHost(rev, q))
      PROVE  Plain
  BY <1>2, RequestPlain
<1>3. ASSUME NEW s \in {"runtime", "mcp"}, NEW next \in {"mcp", "host"}, DeploySurface(s, next) PROVE Plain
  <2>1. txn.pc = s /\ txn'.pc = next /\ Alike(txn, txn')
    BY <1>0, <1>3 DEF DeploySurface, Txns, Alike, At
  <2>2. UNCHANGED <<marker, lift, ordered, torn, eng>>
    BY <1>3 DEF DeploySurface, StepLive, disk, hist
  <2>3. s \in Mutating /\ next \in Mutating
    BY DEF Mutating
  <2> QED BY <1>1, <2>1, <2>2, <2>3
<1>4. ASSUME StagePolicy PROVE Plain
  <2>1. txn.pc = "policy" /\ txn'.pc \in {"runtime", "undoMcp"} /\ Alike(txn, txn')
    <3> DEFINE agrees == live["policy"] \in {IF prior[txn.c] = Unset THEN live["policy"] ELSE prior[txn.c], txn.c}
    <3>1. /\ txn.pc = "policy"
          /\ txn' = IF agrees THEN [txn EXCEPT !.pc = "runtime", !.att = @ \cup {"policy"}]
                              ELSE [txn EXCEPT !.pc = "undoMcp"]
      BY <1>4 DEF StagePolicy, At
    <3> HIDE DEF agrees
    <3> QED BY <1>0, <3>1 DEF Txns, Alike
  <2>2. UNCHANGED <<marker, lift, ordered, torn, eng>>
    BY <1>4 DEF StagePolicy, hist
  <2> QED BY <1>1, <2>1, <2>2 DEF Mutating
<1>5. ASSUME NEW wait \in {"hostWait", "commitWait"}, NEW ok \in {"manager", "close"},
             Answered(wait, ok, "undoMcp")
      PROVE  Plain
  <2>1. PICK q \in {ok, "undoMcp"} : Goto(q)
    BY <1>5 DEF Answered
  <2>2. q \in Mutating /\ wait \in Mutating /\ At(wait) /\ StepOnly
    BY <1>5, <2>1 DEF Mutating, Answered
  <2> QED BY <1>2, <2>1, <2>2
<1>6. ASSUME InstallManager PROVE Plain
  <2>1. txn.pc = "manager" /\ txn'.pc \in {"verify", "undoMcp"} /\ Alike(txn, txn')
    BY <1>0, <1>6 DEF InstallManager, Txns, Alike, At, Goto
  <2>2. UNCHANGED <<marker, lift, ordered, torn, eng>>
    BY <1>6 DEF InstallManager, StepLive, disk, hist
  <2> QED BY <1>1, <2>1, <2>2 DEF Mutating
<1>7. ASSUME Verify PROVE Plain
  <2>1. PICK q \in {"commit", "undoMcp"} : Goto(q)
    BY <1>7 DEF Verify
  <2>2. q \in Mutating /\ "verify" \in Mutating /\ At("verify") /\ StepOnly
    BY <1>7, <2>1 DEF Mutating, Verify
  <2> QED BY <1>2, <2>1, <2>2
<1>8. ASSUME HelperFails PROVE Plain
  <2>1. txn.pc \in Mutating /\ txn'.pc = "undoMcp" /\ Alike(txn, txn')
    BY <1>0, <1>8 DEF HelperFails, Txns, Alike, Mutating
  <2>2. UNCHANGED <<marker, lift, ordered, torn, eng>>
    BY <1>8 DEF HelperFails, StepLive, disk, hist
  <2> QED BY <1>1, <2>1, <2>2 DEF Mutating
<1>9. ASSUME Close PROVE Plain
  <2>1. txn.pc = "close" /\ txn'.pc = "end" /\ Alike(txn, txn')
    BY <1>0, <1>9 DEF Close, Txns, Alike, At
  <2>2. UNCHANGED <<marker, lift, ordered, torn, eng>>
    BY <1>9 DEF Close, StepRecs, StepDisk, hist
  <2> QED BY <1>1, <2>1, <2>2 DEF Mutating
<1>10. {"host", "hostWait", "commit", "commitWait"} \subseteq Mutating
  BY DEF Mutating
<1> QED BY <1>2, <1>3, <1>4, <1>5, <1>6, <1>7, <1>8, <1>9, <1>10

(* The undoing of a release is plain, and so is the rollback of an         *)
(* accepted one but for the lift of the freeze.                            *)
LEMMA UndoPlain ==
  ASSUME TypeInv,
         \/ UndoSurface("undoMcp", "mcp", "undoHost") \/ UndoSurface("undoRuntime", "runtime", "undoVerify")
         \/ UndoSurfaceFails("undoMcp", "mcp", "undoHost")
         \/ UndoSurfaceFails("undoRuntime", "runtime", "undoVerify")
         \/ UndoHost \/ UndoHostDone \/ UndoHostTimedOut \/ UndoManager \/ UndoManagerFails
         \/ UndoPolicy \/ UndoPolicyFails \/ (\E ok \in BOOLEAN : UndoVerify(ok)) \/ SaveFailure
         \/ At("open") /\ Submit("open", txn.c, "openWait")
         \/ Answered("openWait", "saveFailure", "end")
         \/ RollbackLift
         \/ At("ropen") /\ Submit("open", txn.c, "ropenWait")
         \/ Answered("ropenWait", "undoMcp", "end")
         \/ At("rcommit") /\ Submit("set_last_known_good", Base, "rcommitWait")
         \/ Answered("rcommitWait", "rsave", "end") \/ RollbackSave
         \/ At("rclose") /\ Submit("open", txn.c, "rcloseWait")
         \/ Answered("rcloseWait", "end", "end")
         \/ TimedOut("hostWait", "undoMcp") \/ TimedOut("commitWait", "undoMcp")
         \/ TimedOut("openWait", "end") \/ TimedOut("ropenWait", "end")
         \/ TimedOut("rcommitWait", "end") \/ TimedOut("rcloseWait", "end")
         \/ Ungate
  PROVE  Plain
<1>0. txn \in Txns
  BY DEF TypeInv, TxnOK
<1> USE Edges
<1>1. ASSUME NEW p \in Mutating, NEW q \in Mutating \cup {"end"}, txn.pc = p, txn'.pc = q, Alike(txn, txn'),
             UNCHANGED <<marker, lift, ordered, torn, eng>>
      PROVE  Plain
  BY <1>1 DEF Plain
<1>2. ASSUME NEW p \in Mutating, NEW q \in Mutating \cup {"end"}, At(p),
             \/ Goto(q) /\ (StepOnly \/ StepLive \/ StepRecs)
             \/ UndoError(q) /\ (StepOnly \/ StepLive)
             \/ (\E act, rev : Submit(act, rev, q)) \/ (\E rev : SubmitHost(rev, q))
             \/ TimedOut(p, q)
      PROVE  Plain
  BY <1>2, RequestPlain
<1>3. {"undoMcp", "undoHost", "undoHostWait", "undoManager", "undoPolicy", "undoRuntime",
       "undoVerify", "open", "openWait", "saveFailure", "ropen", "ropenWait", "rcommit",
       "rcommitWait", "rsave", "rclose", "rcloseWait", "hostWait", "commitWait"} \subseteq Mutating
  BY DEF Mutating
<1>4. ASSUME NEW p \in Mutating, NEW q \in Mutating, NEW s,
             UndoSurface(p, s, q) \/ UndoSurfaceFails(p, s, q)
      PROVE  Plain
  BY <1>2, <1>4 DEF UndoSurface, UndoSurfaceFails
<1>5. ASSUME UndoHost PROVE Plain
  BY <1>2, <1>3, <1>5 DEF UndoHost
<1>6. ASSUME UndoHostDone PROVE Plain
  BY <1>2, <1>3, <1>6 DEF UndoHostDone
<1>7. ASSUME UndoHostTimedOut PROVE Plain
  <2>1. txn.pc = "undoHostWait" /\ txn'.pc \in {"undoManager", "end"} /\ Alike(txn, txn')
    BY <1>0, <1>7 DEF UndoHostTimedOut, UndoError, Txns, Alike, At
  <2>2. UNCHANGED <<marker, lift, ordered, torn, eng>>
    BY <1>7 DEF UndoHostTimedOut, disk, hist
  <2> QED BY <1>1, <1>3, <2>1, <2>2
<1>8. ASSUME UndoManager \/ UndoManagerFails PROVE Plain
  BY <1>2, <1>3, <1>8 DEF UndoManager, UndoManagerFails
<1>9. ASSUME UndoPolicy PROVE Plain
  <2>1. txn.pc = "undoPolicy" /\ txn'.pc = "undoRuntime" /\ Alike(txn, txn')
    BY <1>0, <1>9 DEF UndoPolicy, Goto, Txns, Alike, At
  <2>2. UNCHANGED <<marker, lift, ordered, torn, eng>>
    BY <1>9 DEF UndoPolicy, hist
  <2> QED BY <1>1, <1>3, <2>1, <2>2
<1>10. ASSUME UndoPolicyFails PROVE Plain
  BY <1>2, <1>3, <1>10 DEF UndoPolicyFails
<1>11. ASSUME NEW ok \in BOOLEAN, UndoVerify(ok) PROVE Plain
  <2> DEFINE st == IF ok THEN "rolled_back" ELSE "failed"
             to == IF ok THEN "rcommit" ELSE "end"
  <2>1. txn' = [txn EXCEPT !.pc = "open", !.rec.state = st] \/ txn' = [txn EXCEPT !.pc = to]
    BY <1>11 DEF UndoVerify
  <2>2. to \in {"rcommit", "end"} /\ txn.pc = "undoVerify"
    BY <1>11 DEF UndoVerify, At
  <2> HIDE DEF st, to
  <2>3. txn'.pc \in {"open", "rcommit", "end"} /\ Alike(txn, txn')
    BY <1>0, <2>1, <2>2 DEF Txns, Alike
  <2>4. UNCHANGED <<marker, lift, ordered, torn, eng>>
    BY <1>11 DEF UndoVerify, StepOnly, disk, hist
  <2> QED BY <1>1, <1>3, <2>2, <2>3, <2>4
<1>12. ASSUME SaveFailure PROVE Plain
  BY <1>2, <1>3, <1>12 DEF SaveFailure
<1>13. ASSUME NEW p \in Mutating, NEW ok \in Mutating \cup {"end"}, Answered(p, ok, "end") PROVE Plain
  BY <1>2, <1>3, <1>13 DEF Answered
<1>14. ASSUME NEW p \in Mutating, NEW q \in Mutating \cup {"end"}, TimedOut(p, q) PROVE Plain
  BY <1>2, <1>14 DEF TimedOut
<1>15. ASSUME RollbackLift PROVE Plain
  <2>1. txn.pc = "align" /\ txn'.pc = "runlink" /\ Alike(txn, txn')
    BY <1>0, <1>15 DEF RollbackLift, Goto, Txns, Alike, At
  <2> QED BY <1>15, <2>1 DEF RollbackLift, Plain, StepDisk, hist
<1>16. ASSUME RollbackSave PROVE Plain
  <2>1. txn.pc = "rsave" /\ txn'.pc = "rclose" /\ Alike(txn, txn')
    BY <1>0, <1>16 DEF RollbackSave, Txns, Alike, At
  <2>2. UNCHANGED <<marker, lift, ordered, torn, eng>>
    BY <1>16 DEF RollbackSave, StepRecs, StepDisk, hist
  <2> QED BY <1>1, <1>3, <2>1, <2>2
<1>17. ASSUME NEW p \in {"open", "ropen", "rcommit", "rclose"}, At(p), NEW act, NEW rev,
              NEW wait \in {"openWait", "ropenWait", "rcommitWait", "rcloseWait"}, Submit(act, rev, wait)
       PROVE  Plain
  BY <1>2, <1>3, <1>17
<1>18. ASSUME Ungate PROVE Plain
  BY <1>18 DEF Ungate, Plain, Alike, Edge, disk, hist
<1> QED BY <1>3, <1>4, <1>5, <1>6, <1>7, <1>8, <1>9, <1>10, <1>11, <1>12, <1>13, <1>14,
           <1>15, <1>16, <1>17, <1>18

(* What nothing says of the freeze or the worker but the state of the      *)
(* transaction, when there is none.                                        *)
LEMMA IdleLift ==
  ASSUME TypeInv, txn' = Idle, UNCHANGED <<marker, ordered, lift>>, torn \subseteq torn',
         ordered /\ ~marker /\ "rollback" \notin torn' => Unfinished # {}
  PROVE  LiftInv'
<1>1. txn'.pc = "idle" /\ txn'.kind = None /\ ~txn'.opened
  BY EmptyTypes
<1>2. Unfinished' = Unfinished
  BY DEF Unfinished
<1> QED BY <1>1, <1>2 DEF LiftInv, FlowInv, FreezeInv, ExclusionInv, Harmless, Checking,
                          Lifting, Lifted, Aligning

(* The steps that take the lock and look for the engineering worker and    *)
(* for lifts that a killed transaction left behind, ...                    *)
LEMMA LockLift ==
  ASSUME TypeInv, LiftInv,
         Acquire \/ (\E c \in Revs : RollbackClosed(c)) \/ Gate \/ Quiescent \/ RestoreStranded
  PROVE  LiftInv'
<1>0. txn \in Txns /\ (txn.pc # "idle" => txn.kind \in {"deploy", "rollback"})
  BY DEF TypeInv, TxnOK, Txns, None
<1>1. ASSUME UNCHANGED <<marker, lift, ordered, torn, eng>>, txn'.pc \in {"gate", "quiet", "end"},
             ~txn'.opened, ~txn.opened \/ txn.pc = "idle"
      PROVE  LiftInv'
  <2>1. Unfinished' = Unfinished
    BY <1>1 DEF Unfinished
  <2>2. ~RollbackHolds
    BY <1>1 DEF RollbackHolds
  <2> QED BY <1>1, <2>1, <2>2 DEF LiftInv, FlowInv, FreezeInv, ExclusionInv, Harmless, Checking,
                                  Lifting, Lifted, Aligning
<1>2. ASSUME Acquire PROVE LiftInv'
  <2>1. txn'.pc = "gate" /\ ~txn'.opened /\ txn.pc = "idle"
    BY <1>2 DEF Acquire, Idle, Locked
  <2> QED BY <1>1, <1>2, <2>1 DEF Acquire, disk
<1>3. ASSUME NEW c \in Revs, RollbackClosed(c) PROVE LiftInv'
  <2>1. CASE Locked
    <3>1. Plain
      BY <1>3, <2>1 DEF RollbackClosed, Plain, Alike, Edge
    <3> QED BY <3>1, PlainKeeps
  <2>2. CASE ~Locked
    <3>1. txn'.pc = "gate" /\ ~txn'.opened /\ txn.pc = "idle"
      BY <1>3, <2>2 DEF RollbackClosed, Idle, Locked
    <3> QED BY <1>1, <1>3, <3>1 DEF RollbackClosed
  <2> QED BY <2>1, <2>2
<1>4. ASSUME Gate PROVE LiftInv'
  <2>0. ~txn.opened /\ txn.pc = "gate" /\ UNCHANGED <<marker, lift, ordered, torn, eng>>
    BY <1>4 DEF Gate, At, LiftInv, FlowInv, hist
  <2>1. CASE Goto("quiet")
    <3>1. txn'.pc = "quiet" /\ txn'.opened = txn.opened
      BY <1>0, <2>1 DEF Goto, Txns
    <3> QED BY <1>1, <2>0, <3>1
  <2>2. CASE txn' = Idle
    <3>1. txn'.pc = "idle" /\ ~txn'.opened /\ txn'.kind = None
      BY <2>2, EmptyTypes
    <3>2. Unfinished' = Unfinished /\ ~RollbackHolds
      BY <2>0 DEF Unfinished, RollbackHolds
    <3> QED BY <2>0, <3>1, <3>2 DEF LiftInv, FlowInv, FreezeInv, ExclusionInv, Harmless, Checking,
                                    Lifting, Lifted, Aligning
  <2> QED BY <1>4, <2>1, <2>2 DEF Gate
<1>5. ASSUME Quiescent PROVE LiftInv'
  <2>0. ~txn.opened /\ txn.pc = "quiet" /\ UNCHANGED <<marker, lift, ordered, torn, eng>>
    BY <1>5 DEF Quiescent, At, LiftInv, FlowInv, StepOnly, disk, hist
  <2>1. CASE Goto("end")
    <3>1. txn'.pc = "end" /\ txn'.opened = txn.opened
      BY <1>0, <2>1 DEF Goto, Txns
    <3> QED BY <1>1, <2>0, <3>1
  <2>2. ASSUME NEW pc \in {"stranded", "align"}, Goto(pc), eng.state = "inactive",
               pc = "stranded" => txn.kind = "deploy", pc = "align" => txn.kind # "deploy"
        PROVE  LiftInv'
    <3>1. txn'.pc = pc /\ txn'.opened = txn.opened /\ txn'.kind = txn.kind
      BY <1>0, <2>2 DEF Goto, Txns
    <3>2. Unfinished' = Unfinished /\ ~RollbackHolds
      BY <2>0 DEF Unfinished, RollbackHolds
    <3>3. FlowInv'
      BY <1>0, <2>0, <2>2, <3>1 DEF FlowInv, Checking, Lifting, Lifted, Aligning
    <3>4. FreezeInv'
      BY <2>0, <2>2, <3>1, <3>2 DEF LiftInv, FreezeInv, Checking, Lifting, Lifted
    <3>5. ExclusionInv'
      BY <2>0, <2>2 DEF ExclusionInv
    <3> QED BY <3>3, <3>4, <3>5 DEF LiftInv
  <2> QED BY <1>5, <2>1, <2>2 DEF Quiescent
<1>6. ASSUME RestoreStranded PROVE LiftInv'
  <2>0. /\ txn.pc = "stranded" /\ txn.kind = "deploy" /\ UNCHANGED <<ordered, torn, eng>>
        /\ eng.state \notin {"admitted", "active"} /\ ~RollbackHolds
        /\ ordered /\ ~marker /\ "rollback" \notin torn => Unfinished # {}
    BY <1>6 DEF RestoreStranded, At, LiftInv, FlowInv, FreezeInv, ExclusionInv, Harmless,
                StepDisk, hist, RollbackHolds
  <2>1. PICK pc \in {"source", "end"} : Goto(pc) /\ (pc = "source" => Unfinished = {})
    BY <1>6 DEF RestoreStranded
  <2>2. txn'.pc = pc /\ txn'.opened = txn.opened /\ txn'.kind = txn.kind
    BY <1>0, <2>1 DEF Goto, Txns
  <2>3. \/ marker' = TRUE /\ (Unfinished = {} => Unfinished' = {})
        \/ marker' = marker /\ Unfinished' = Unfinished
    <3>1. CASE UNCHANGED <<marker, lift>>
      BY <3>1 DEF Unfinished
    <3>2. CASE /\ marker' = TRUE
               /\ lift' = [c \in Revs |-> IF c \in Unfinished THEN "stranded" ELSE lift[c]]
      BY <3>2 DEF Unfinished
    <3> QED BY <1>6, <3>1, <3>2 DEF RestoreStranded
  <2>4. FlowInv'
    BY <2>0, <2>2 DEF FlowInv, Checking, Lifting, Lifted, Aligning
  <2>5. FreezeInv'
    BY <2>0, <2>1, <2>2, <2>3 DEF FreezeInv, Checking, Lifting, Lifted
  <2>6. ExclusionInv'
    BY <2>0 DEF ExclusionInv
  <2> QED BY <2>4, <2>5, <2>6 DEF LiftInv
<1> QED BY <1>2, <1>3, <1>4, <1>5, <1>6

(* ... the steps that lift the freeze, ...                                 *)
LEMMA FreezeLift ==
  ASSUME TypeInv, LiftInv, Lift \/ Unlink \/ Activate \/ RollbackUnlink
  PROVE  LiftInv'
<1>0. /\ txn \in Txns /\ txn.c \in Revs /\ UNCHANGED <<ordered, torn, eng>>
      /\ lift \in [Revs -> {None, "pending", "active", "stranded", "returned"}]
      /\ eng.state \notin {"admitted", "active"}
      /\ txn.pc \in {"lift"} \cup Lifting => txn.kind = "deploy"
  BY DEF Lift, Unlink, Activate, RollbackUnlink, At, TypeInv, TxnOK, Txns, DiskOK, LiftInv,
         FlowInv, ExclusionInv, Harmless, StepDisk, hist, Checking
<1>a. ExclusionInv'
  BY <1>0 DEF ExclusionInv
<1>1. ASSUME Lift PROVE LiftInv'
  <2>0. txn.pc = "lift" /\ marker' = marker
    BY <1>1 DEF Lift, At
  <2>1. CASE lift' = [lift EXCEPT ![txn.c] = "pending"] /\ marker /\ Goto("unlink")
    <3>1. txn'.pc = "unlink" /\ txn'.kind = txn.kind /\ txn'.c = txn.c
      BY <1>0, <2>1 DEF Goto, Txns
    <3>2. lift'[txn.c] = "pending"
      BY <1>0, <2>1
    <3>3. FlowInv' /\ FreezeInv'
      BY <1>0, <2>0, <2>1, <3>1, <3>2 DEF FlowInv, FreezeInv, Checking, Lifting, Lifted, Aligning
    <3> QED BY <1>a, <3>3 DEF LiftInv
  <2>2. CASE Goto("end") /\ UNCHANGED lift
    <3>1. txn'.pc = "end" /\ Alike(txn, txn')
      BY <1>0, <2>2 DEF Goto, Txns, Alike
    <3>2. Plain
      BY <1>0, <2>0, <2>2, <3>1, Edges DEF Plain, Checking
    <3> QED BY <3>2, PlainKeeps
  <2> QED BY <1>1, <2>1, <2>2 DEF Lift
<1>2. ASSUME Unlink PROVE LiftInv'
  <2>0. txn.pc = "unlink" /\ lift' = lift /\ Goto("activate") /\ lift[txn.c] = "pending"
    BY <1>2 DEF Unlink, At, LiftInv, FreezeInv, Lifting
  <2>1. txn'.pc = "activate" /\ txn'.kind = txn.kind /\ txn'.c = txn.c
    BY <1>0, <2>0 DEF Goto, Txns
  <2>2. Unfinished' # {}
    BY <1>0, <2>0 DEF Unfinished
  <2>3. FlowInv' /\ FreezeInv'
    BY <1>0, <2>0, <2>1, <2>2 DEF FlowInv, FreezeInv, Checking, Lifting, Lifted, Aligning
  <2> QED BY <1>a, <2>3 DEF LiftInv
<1>3. ASSUME Activate PROVE LiftInv'
  <2>0. txn.pc = "activate" /\ lift' = [lift EXCEPT ![txn.c] = "active"]
    BY <1>3 DEF Activate, At
  <2>1. txn'.pc = "preflight" /\ txn'.kind = txn.kind /\ txn'.c = txn.c /\ txn'.opened
    BY <1>0, <1>3 DEF Activate, Txns
  <2>2. Unfinished' # {} /\ lift'[txn.c] = "active"
    BY <1>0, <2>0 DEF Unfinished
  <2>3. FlowInv' /\ FreezeInv'
    BY <1>0, <2>0, <2>1, <2>2 DEF FlowInv, FreezeInv, Checking, Lifting, Lifted, Aligning
  <2> QED BY <1>a, <2>3 DEF LiftInv
<1>4. ASSUME RollbackUnlink PROVE LiftInv'
  <2>0. txn.pc = "runlink" /\ txn.kind = "rollback"
    BY <1>4 DEF RollbackUnlink, At, LiftInv, FlowInv, Aligning
  <2>1. txn'.pc = "ropen" /\ txn'.kind = txn.kind /\ txn'.opened
    BY <1>0, <1>4 DEF RollbackUnlink, Txns
  <2>2. FlowInv' /\ FreezeInv'
    BY <2>0, <2>1 DEF FlowInv, FreezeInv, RollbackHolds, Checking, Lifting, Lifted, Aligning
  <2> QED BY <1>a, <2>2 DEF LiftInv
<1> QED BY <1>1, <1>2, <1>3, <1>4

(* ... and the steps that return it.                                       *)
LEMMA ReturnLift ==
  ASSUME TypeInv, LiftInv, End \/ Receipt \/ Consume \/ Exit
  PROVE  LiftInv'
<1>0. /\ txn \in Txns /\ UNCHANGED <<ordered, torn, eng>>
      /\ ordered /\ ~marker /\ "rollback" \notin torn => Unfinished # {} \/ RollbackHolds
  BY DEF End, Receipt, Consume, Exit, TypeInv, TxnOK, LiftInv, FreezeInv, StepDisk, hist
<1>1. ASSUME End PROVE LiftInv'
  <2>0. txn.pc = "end" /\ lift' = lift /\ Unfinished' = Unfinished
    BY <1>1 DEF End, At, Unfinished
  <2>1. CASE txn.opened /\ marker' = TRUE /\ Goto("receipt")
    <3>1. txn'.pc = "receipt"
      BY <1>0, <2>1 DEF Goto, Txns
    <3>2. eng.state \notin {"admitted", "active"}
      BY <2>1 DEF LiftInv, ExclusionInv
    <3> QED BY <1>0, <2>1, <3>1, <3>2 DEF LiftInv, FlowInv, FreezeInv, ExclusionInv, Checking,
                                          Lifting, Lifted, Aligning
  <2>2. CASE ~(txn.opened /\ ~marker) /\ marker' = marker /\ Goto("exit")
    <3>1. txn'.pc = "exit" /\ txn'.opened = txn.opened
      BY <1>0, <2>2 DEF Goto, Txns
    <3>2. ordered /\ ~marker /\ "rollback" \notin torn => Unfinished # {}
      BY <1>0, <2>2 DEF RollbackHolds
    <3>3. ExclusionInv'
      BY <1>0, <3>1 DEF LiftInv, ExclusionInv, Harmless
    <3> QED BY <1>0, <2>0, <2>2, <3>1, <3>2, <3>3 DEF LiftInv, FlowInv, FreezeInv, Checking,
                                                      Lifting, Lifted, Aligning
  <2> QED BY <1>1, <2>1, <2>2 DEF End
<1>2. ASSUME Receipt \/ Consume PROVE LiftInv'
  <2>0. /\ txn.pc \in {"receipt", "consume"} /\ marker' = marker
        /\ eng.state \notin {"admitted", "active"} /\ ~RollbackHolds
    BY <1>2 DEF Receipt, Consume, At, LiftInv, ExclusionInv, Harmless, RollbackHolds
  <2>1. txn'.pc \in {"consume", "exit"}
    BY <1>0, <1>2 DEF Receipt, Consume, Goto, Txns
  <2>2. marker \/ Unfinished' = Unfinished
    BY <1>2, <2>0 DEF Receipt, Consume, At, LiftInv, FreezeInv, Unfinished
  <2>3. FlowInv'
    BY <2>1 DEF FlowInv, Checking, Lifting, Lifted, Aligning
  <2>4. FreezeInv'
    BY <1>0, <2>0, <2>1, <2>2 DEF FreezeInv, Checking, Lifting, Lifted
  <2>5. ExclusionInv'
    BY <1>0, <2>0 DEF ExclusionInv
  <2> QED BY <2>3, <2>4, <2>5 DEF LiftInv
<1>3. ASSUME Exit PROVE LiftInv'
  <2>1. txn' = Idle /\ UNCHANGED <<marker, ordered, lift>> /\ torn' = torn
    BY <1>0, <1>3 DEF Exit
  <2>2. ordered /\ ~marker /\ "rollback" \notin torn' => Unfinished # {}
    BY <1>0, <1>3, <2>1 DEF Exit, At, RollbackHolds
  <2> QED BY <2>1, <2>2, IdleLift
<1> QED BY <1>1, <1>2, <1>3

(* The owner's freeze, the engineering worker, kills and reboots.          *)
LEMMA OutsideLift ==
  ASSUME TypeInv, LiftInv,
         \/ OwnerFreeze \/ Kill \/ Reboot
         \/ EngStart \/ EngGate \/ EngIs("admitted", "active") \/ EngIs("active", "inactive")
  PROVE  LiftInv'
<1>0. ordered /\ ~marker /\ "rollback" \notin torn => Unfinished # {} \/ RollbackHolds
  BY DEF LiftInv, FreezeInv
<1>1. ASSUME OwnerFreeze PROVE LiftInv'
  <2>1. marker' = TRUE /\ txn' = txn /\ lift' = lift /\ eng' = eng /\ Unfinished' = Unfinished
    BY <1>1 DEF OwnerFreeze, Unfinished
  <2>2. FlowInv' /\ ExclusionInv'
    BY <2>1 DEF LiftInv, FlowInv, ExclusionInv
  <2>3. FreezeInv'
    BY <2>1 DEF LiftInv, FreezeInv
  <2> QED BY <2>2, <2>3 DEF LiftInv
<1>2. ASSUME Kill \/ Reboot PROVE LiftInv'
  <2>1. /\ txn' = Idle /\ UNCHANGED <<marker, ordered, lift>>
        /\ torn' = torn \cup ({txn.kind} \ {None})
    BY <1>2 DEF Kill, Reboot, disk
  <2>2. RollbackHolds => "rollback" \in torn'
    BY <2>1 DEF RollbackHolds, None
  <2> QED BY <1>0, <2>1, <2>2, IdleLift
<1>3. ASSUME UNCHANGED <<txn, marker, lift, ordered, torn>>,
             eng'.state \in {"admitted", "active"} => txn.pc \in Harmless /\ ~txn.opened
      PROVE  LiftInv'
  <2>1. Unfinished' = Unfinished
    BY <1>3 DEF Unfinished
  <2>2. FlowInv' /\ FreezeInv'
    BY <1>3, <2>1 DEF LiftInv, FlowInv, FreezeInv, RollbackHolds
  <2> QED BY <1>3, <2>2 DEF LiftInv, ExclusionInv
<1>4. ASSUME NEW from, NEW to, EngIs(from, to),
             to \in {"admitted", "active"} => ~Locked \/ from \in {"admitted", "active"}
      PROVE  LiftInv'
  <2>1. eng.state = from /\ eng'.state = to /\ UNCHANGED <<txn, marker, lift, ordered, torn>>
    BY <1>4 DEF EngIs, disk, hist
  <2>2. ~Locked => txn.pc \in Harmless /\ ~txn.opened
    BY DEF Locked, LiftInv, FlowInv, Harmless
  <2>3. from \in {"admitted", "active"} => txn.pc \in Harmless /\ ~txn.opened
    BY <2>1 DEF LiftInv, ExclusionInv
  <2> QED BY <1>3, <1>4, <2>1, <2>2, <2>3
<1>5. ASSUME EngStart \/ EngGate \/ EngIs("admitted", "active") \/ EngIs("active", "inactive")
      PROVE  LiftInv'
  BY <1>4, <1>5 DEF EngStart, EngGate
<1> QED BY <1>1, <1>2, <1>5

(* The root workers leave the freeze alone and only answer the transaction. *)
LEMMA RootPlain ==
  ASSUME TypeInv,
         (\E q \in reqs : RootPick(q) \/ RootDrift(q)) \/ RootCommit \/ HostPick \/ HostDone \/ HostFails
  PROVE  Plain
<1>0. txn \in Txns
  BY DEF TypeInv, TxnOK
<1>1. UNCHANGED <<marker, lift, ordered, torn, eng>>
  BY DEF RootPick, RootDrift, RootCommit, HostPick, HostDone, HostFails, disk, hist
<1>2. \A q, r : Reply(q, r).pc = txn.pc /\ Alike(txn, Reply(q, r))
  BY <1>0 DEF Reply, Txns, Alike
<1>3. txn'.pc = txn.pc /\ Alike(txn, txn')
  <2>1. txn' = txn \/ \E q, r : txn' = Reply(q, r)
    BY DEF RootPick, RootDrift, RootCommit, HostPick, HostDone, HostFails
  <2>2. Alike(txn, txn)
    BY DEF Alike
  <2> QED BY <1>2, <2>1, <2>2
<1> QED BY <1>1, <1>3 DEF Plain, Edge

(* Every step keeps the invariant of the freeze.                           *)
LEMMA LiftStep == TypeInv /\ LiftInv /\ [Next]_vars => LiftInv'
<1> SUFFICES ASSUME TypeInv, LiftInv, [Next]_vars PROVE LiftInv'
  OBVIOUS
<1>0. ASSUME UNCHANGED <<txn, marker, lift, ordered, torn, eng>> PROVE LiftInv'
  <2>1. Plain
    BY <1>0 DEF Plain, Alike, Edge
  <2> QED BY <2>1, PlainKeeps
<1>1. CASE UNCHANGED vars
  BY <1>0, <1>1 DEF vars, disk, hist
<1>2. CASE Next
  <2>1. ASSUME Transaction PROVE LiftInv'
    <3>1. (~txn.err /\ Complete(Base)) \in BOOLEAN
      OBVIOUS
    <3> QED BY <2>1, <3>1, PlainKeeps, ChecksPlain, MutatingPlain, UndoPlain, LockLift, FreezeLift, ReturnLift
            DEF Transaction
  <2>2. ASSUME TransactionFault PROVE LiftInv'
    BY <2>2, PlainKeeps, ChecksPlain, MutatingPlain, UndoPlain DEF TransactionFault
  <2>3. ASSUME \/ \E c \in Revs : \/ CreateRecord(c) \/ Preproduction(c) \/ Approve(c)
                                   \/ OwnerUnfreeze(c) \/ ManualLoad(c)
               \/ PrepareRevalidate \/ DeskSave \/ Merge \/ TimerScan \/ TimerDemote \/ Busy
        PROVE  LiftInv'
    <3>1. UNCHANGED <<txn, marker, lift, ordered, torn, eng>>
      BY <2>3 DEF CreateRecord, Preproduction, Approve, OwnerUnfreeze, ManualLoad, PrepareRevalidate,
                  DeskSave, Merge, TimerScan, TimerDemote, Busy, disk, hist
    <3> QED BY <1>0, <3>1
  <2>4. ASSUME Normal PROVE LiftInv'
    BY <2>1, <2>3, <2>4, LockLift, OutsideLift, RootPlain, PlainKeeps DEF Normal
  <2>5. ASSUME Fault PROVE LiftInv'
    BY <2>2, <2>5, OutsideLift, RootPlain, PlainKeeps DEF Fault
  <2> QED BY <1>2, <2>4, <2>5 DEF Next
<1> QED BY <1>1, <1>2

(* Both invariants hold always.                                            *)
LEMMA LiftAlways == Spec => []TypeInv /\ []LiftInv
<1>1. Init => TypeInv /\ LiftInv
  BY TypeInit, LiftInit
<1>2. TypeInv /\ LiftInv /\ [Next]_vars => TypeInv' /\ LiftInv'
  BY TypeStep, LiftStep
<1> QED BY <1>1, <1>2, PTL DEF Spec

(* The owner's freeze is in force, or the next promotion finds a receipt   *)
(* from which to restore it, whatever processes were killed and however    *)
(* many releases were made, except where a rollback was cut off            *)
(* (restore_stranded_one_transaction_freeze_under_lock).                   *)
THEOREM FreezeIsRecoverable == Spec => []FreezeRecoverable
<1>1. LiftInv => FreezeRecoverable
  BY DEF LiftInv, FreezeInv, RollbackHolds, FreezeRecoverable, Locked
<1> QED BY <1>1, LiftAlways, PTL

(* Production is first touched by one step only.                           *)
LEMMA OnlyStart ==
  ASSUME txn.pc = "start", Transaction \/ TransactionFault PROVE CheckFails \/ Start
<1>1. \A p : At(p) => p = "start"
  BY DEF At
<1>2. \A w, ok, no : w # "start" => ~Answered(w, ok, no) /\ ~TimedOut(w, no)
  BY <1>1 DEF Answered, TimedOut
<1>3. /\ ~Gate /\ ~Quiescent /\ ~RestoreStranded /\ ~Source /\ ~Breaker /\ ~Freeze /\ ~Lift
      /\ ~Unlink /\ ~Activate /\ ~Preflight /\ ~StagePolicy
  BY <1>1 DEF Gate, Quiescent, RestoreStranded, Source, Breaker, Freeze, Lift, Unlink, Activate,
       Preflight, StagePolicy
<1>4. /\ ~DeploySurface("runtime", "mcp") /\ ~DeploySurface("mcp", "host") /\ ~InstallManager
      /\ ~Verify /\ ~Close /\ ~HelperFails
  BY <1>1 DEF DeploySurface, InstallManager, Verify, Close, HelperFails
<1>5. /\ ~UndoSurface("undoMcp", "mcp", "undoHost") /\ ~UndoSurface("undoRuntime", "runtime", "undoVerify")
      /\ ~UndoSurfaceFails("undoMcp", "mcp", "undoHost")
      /\ ~UndoSurfaceFails("undoRuntime", "runtime", "undoVerify")
      /\ ~UndoHost /\ ~UndoHostDone /\ ~UndoHostTimedOut /\ ~UndoManager /\ ~UndoManagerFails
      /\ ~UndoPolicy /\ ~UndoPolicyFails /\ (\A ok : ~UndoVerify(ok)) /\ ~SaveFailure
  BY <1>1 DEF UndoSurface, UndoSurfaceFails, UndoHost, UndoHostDone, UndoHostTimedOut, UndoManager,
       UndoManagerFails, UndoPolicy, UndoPolicyFails, UndoVerify, SaveFailure
<1>6. /\ ~RollbackLift /\ ~RollbackUnlink /\ ~RollbackSave /\ ~RollbackCheckFails /\ ~Ungate
      /\ ~End /\ ~Receipt /\ ~Consume /\ ~Exit
  BY <1>1 DEF RollbackLift, RollbackUnlink, RollbackSave, RollbackCheckFails, Ungate, End, Receipt,
       Consume, Exit
<1> QED BY <1>1, <1>2, <1>3, <1>4, <1>5, <1>6 DEF Transaction, TransactionFault

(* After the owner has ordered a freeze, no release touches production but *)
(* under an active lift of its own (_deploy_production_locked).            *)
THEOREM FreezeIsHeld == Spec => FreezeHeld
<1>1. TypeInv /\ LiftInv /\ TypeInv' /\ [Next]_vars
        => [At("start") /\ txn'.pc = "policy" /\ ordered /\ "rollback" \notin torn
              => txn.opened /\ lift[txn.c] = "active"]_vars
  <2> SUFFICES ASSUME TypeInv, LiftInv, [Next]_vars, At("start"), txn'.pc = "policy", ordered,
                      "rollback" \notin torn
               PROVE  txn.opened /\ lift[txn.c] = "active"
    OBVIOUS
  <2>1. /\ txn.pc = "start" /\ txn.kind = "deploy"
        /\ Unfinished = {} \/ (txn.opened /\ lift[txn.c] = "active")
        /\ ~marker => Unfinished # {}
    BY DEF At, LiftInv, FlowInv, FreezeInv, Lifted, RollbackHolds
  <2>2. txn \in Txns /\ txn' # txn
    BY <2>1 DEF TypeInv, TxnOK
  <2>3. Start
    <3>1. Next
      BY <2>2 DEF vars
    <3>2. ASSUME txn'.pc = txn.pc \/ txn'.pc \in {"end", "idle"} PROVE FALSE
      BY <2>1, <3>2
    <3>3. ASSUME Transaction \/ TransactionFault PROVE CheckFails \/ Start
      BY <2>1, <3>3, OnlyStart
    <3>4. ~CheckFails
      BY <2>2, <3>2 DEF CheckFails, Goto, Txns
    <3>5. ASSUME \/ \E c \in Revs : \/ CreateRecord(c) \/ Preproduction(c) \/ Approve(c)
                                     \/ OwnerUnfreeze(c) \/ ManualLoad(c)
                 \/ PrepareRevalidate \/ DeskSave \/ Merge \/ TimerScan \/ TimerDemote \/ Busy
                 \/ OwnerFreeze \/ EngStart \/ EngGate \/ EngIs("admitted", "active")
                 \/ EngIs("active", "inactive")
          PROVE  FALSE
      BY <2>2, <3>5 DEF CreateRecord, Preproduction, Approve, OwnerUnfreeze, ManualLoad,
           PrepareRevalidate, DeskSave, Merge, TimerScan, TimerDemote, Busy, OwnerFreeze,
           EngStart, EngGate, EngIs
    <3>6. ~Acquire /\ \A c \in Revs : ~RollbackClosed(c)
      BY <2>1, <2>2 DEF Acquire, RollbackClosed, Locked
    <3>7. ~Kill /\ ~Reboot
      BY <3>2, EmptyTypes DEF Kill, Reboot
    <3>8. ASSUME (\E q \in reqs : RootPick(q) \/ RootDrift(q)) \/ RootCommit \/ HostPick \/ HostDone \/ HostFails
          PROVE  FALSE
      <4>1. \A q, t : Reply(q, t).pc = txn.pc
        BY <2>2 DEF Reply, Txns
      <4>2. txn' = txn \/ \E q, t : txn' = Reply(q, t)
        BY <3>8 DEF RootPick, RootDrift, RootCommit, HostPick, HostDone, HostFails
      <4> QED BY <3>2, <4>1, <4>2
    <3> QED BY <3>1, <3>3, <3>4, <3>5, <3>6, <3>7, <3>8 DEF Next, Normal, Fault
  <2> QED BY <2>1, <2>3 DEF Start
<1> QED BY <1>1, LiftAlways, PTL DEF FreezeHeld, Spec

(* No transaction touches production, the freeze or a receipt while the    *)
(* engineering worker is admitted or active (temporary_worker_admission_   *)
(* gate, require_pmv3_engineering_quiescent, pmv3_worker_release_gate).    *)
THEOREM WorkerExcluded == Spec => []Exclusion
<1>1. LiftInv => Exclusion
  BY DEF LiftInv, ExclusionInv, Exclusion, Harmless
<1> QED BY <1>1, LiftAlways, PTL

-----------------------------------------------------------------------------
(* Who waits for which request, and the state of the surfaces when a       *)
(* release is closed or recorded as rolled back.                           *)

HostWaits == {"hostWait", "undoHostWait"}
RootWaits == {"breakerWait", "commitWait", "openWait", "ropenWait", "rcommitWait", "rcloseWait"}
AwaitsHost == txn.pc \in HostWaits /\ txn.reply = None
AwaitsRoot == txn.pc \in RootWaits /\ txn.reply = None
Waiting == AwaitsHost \/ AwaitsRoot

\* The host request that is waited for is behind all the others
HostWaitInv ==
    /\ \A i \in DOMAIN hostq : hostq[i].awaited => AwaitsHost /\ i = Len(hostq)
    /\ hjob.awaited => AwaitsHost /\ hjob.on /\ hostq = <<>>

\* One request to root is waited for at most; a deployment that waits for its
\* commit waits for that of its own revision
RootWaitInv ==
    /\ \A q \in reqs \cup {root} : q.awaited =>
           /\ AwaitsRoot
           /\ txn.pc = "commitWait" => q.act = "set_last_known_good" /\ q.rev = txn.c
    /\ \A q, r \in reqs : q.awaited /\ r.awaited => q = r
    /\ root.awaited => \A q \in reqs : ~q.awaited

WaitInv == HostWaitInv /\ RootWaitInv

HostQuiet == hostq = <<>> /\ ~hjob.on

(* While the transaction waits for nothing, nothing is waited for.         *)
LEMMA NotWaiting ==
  ASSUME WaitInv, ~Waiting
  PROVE  /\ \A i \in DOMAIN hostq : ~hostq[i].awaited
         /\ ~hjob.awaited
         /\ \A q \in reqs \cup {root} : ~q.awaited
BY DEF WaitInv, HostWaitInv, RootWaitInv, Waiting

(* Steps that leave the requests alone.                                    *)
LEMMA WaitSame ==
  ASSUME WaitInv, UNCHANGED <<hostq, hjob, reqs, root>>, txn' = txn \/ ~Waiting
  PROVE  WaitInv'
<1>1. CASE txn' = txn
  <2>1. (AwaitsHost <=> AwaitsHost') /\ (AwaitsRoot <=> AwaitsRoot')
    BY <1>1 DEF AwaitsHost, AwaitsRoot
  <2>2. HostWaitInv'
    BY <1>1, <2>1 DEF WaitInv, HostWaitInv
  <2>3. RootWaitInv'
    BY <1>1, <2>1 DEF WaitInv, RootWaitInv
  <2> QED BY <2>2, <2>3 DEF WaitInv
<1>2. CASE ~Waiting
  <2>1. HostWaitInv'
    BY <1>2, NotWaiting DEF HostWaitInv
  <2>2. RootWaitInv'
    BY <1>2, NotWaiting DEF RootWaitInv
  <2> QED BY <2>1, <2>2 DEF WaitInv
<1> QED BY <1>1, <1>2

(* Requests that were abandoned.                                           *)
LEMMA WaitAbandoned == ASSUME TypeInv, Abandon PROVE WaitInv'
<1>0. /\ reqs \subseteq Requests /\ root \in Jobs \cup {NoJob} /\ hostq \in Seq(Installs)
      /\ hjob \in [rev : Revs, awaited : BOOLEAN, on : BOOLEAN]
  BY DEF TypeInv, ControlOK, HostOK
<1>1. \A q \in reqs' : ~q.awaited
  BY <1>0 DEF Abandon, Requests
<1>2. ~root'.awaited
  BY <1>0 DEF Abandon, Jobs, NoJob
<1>3. ~hjob'.awaited
  BY <1>0 DEF Abandon
<1>4. \A i \in DOMAIN hostq' : ~hostq'[i].awaited
  <2> SUFFICES ASSUME NEW i \in DOMAIN hostq' PROVE ~hostq'[i].awaited
    OBVIOUS
  <2>1. i \in DOMAIN hostq /\ hostq'[i] = [hostq[i] EXCEPT !.awaited = FALSE]
    BY DEF Abandon
  <2>2. hostq[i] \in Installs
    BY <1>0, <2>1
  <2> QED BY <2>1, <2>2 DEF Installs
<1> QED BY <1>1, <1>2, <1>3, <1>4 DEF WaitInv, HostWaitInv, RootWaitInv

(* A request to root, and one to the host worker.                          *)
LEMMA WaitSubmit ==
  ASSUME TypeInv, WaitInv, ~Waiting, NEW act, NEW rev, NEW wait \in RootWaits, Submit(act, rev, wait),
         wait = "commitWait" => act = "set_last_known_good" /\ rev = txn.c
  PROVE  WaitInv'
<1>0. txn \in Txns
  BY DEF TypeInv, TxnOK
<1>1. txn'.pc = wait /\ txn'.reply = None /\ txn'.c = txn.c
  BY <1>0 DEF Submit, Txns
<1>2. AwaitsRoot'
  BY <1>1 DEF AwaitsRoot
<1> DEFINE n == [act |-> act, rev |-> rev, awaited |-> TRUE]
<1>3. reqs' = reqs \cup {n} /\ root' = root /\ UNCHANGED <<hostq, hjob>>
  BY DEF Submit, host
<1>4. n.act = act /\ n.rev = rev
  OBVIOUS
<1> HIDE DEF n
<1>5. HostWaitInv'
  BY <1>3, NotWaiting DEF HostWaitInv
<1>6. RootWaitInv'
  BY <1>1, <1>2, <1>3, <1>4, NotWaiting DEF RootWaitInv
<1> QED BY <1>5, <1>6 DEF WaitInv

\* Asking for a host job starts a wait for that job alone.
LEMMA WaitSubmitHost ==
  ASSUME TypeInv, WaitInv, ~Waiting, NEW rev, NEW wait \in HostWaits, SubmitHost(rev, wait)
  PROVE  WaitInv'
<1>0. txn \in Txns /\ hostq \in Seq(Installs)
  BY DEF TypeInv, TxnOK, HostOK
<1>1. txn'.pc = wait /\ txn'.reply = None
  BY <1>0 DEF SubmitHost, Txns
<1>2. AwaitsHost'
  BY <1>1 DEF AwaitsHost
<1>3. hostq' = Append(hostq, [rev |-> rev, awaited |-> TRUE]) /\ hjob' = hjob /\ UNCHANGED <<reqs, root>>
  BY DEF SubmitHost, control
<1>4. /\ DOMAIN hostq' = 1 .. Len(hostq) + 1 /\ Len(hostq') = Len(hostq) + 1
      /\ \A i \in 1 .. Len(hostq) : hostq'[i] = hostq[i]
      /\ DOMAIN hostq = 1 .. Len(hostq) /\ Len(hostq) \in Nat
  BY <1>0, <1>3
<1>5. HostWaitInv'
  <2> SUFFICES ASSUME NEW i \in DOMAIN hostq', hostq'[i].awaited PROVE i = Len(hostq')
    BY <1>2, <1>3, NotWaiting DEF HostWaitInv
  <2> QED BY <1>4, NotWaiting
<1>6. RootWaitInv'
  BY <1>3, NotWaiting DEF RootWaitInv
<1> QED BY <1>5, <1>6 DEF WaitInv

(* The workers take and answer requests.                                   *)
LEMMA WaitWorkers ==
  ASSUME TypeInv, WaitInv,
         (\E q \in reqs : RootPick(q) \/ RootDrift(q)) \/ RootCommit \/ HostPick \/ HostDone \/ HostFails
  PROVE  WaitInv'
<1>0. /\ txn \in Txns /\ hostq \in Seq(Installs) /\ reqs \subseteq Requests
      /\ root \in Jobs \cup {NoJob} /\ ~NoJob.awaited /\ ~NoInstall.awaited
  BY DEF TypeInv, TxnOK, HostOK, ControlOK, NoJob, NoInstall
<1>1. ASSUME NEW q, NEW t, ~q.awaited PROVE Reply(q, t) = txn
  BY <1>1 DEF Reply
<1>2. ASSUME txn' = txn PROVE (AwaitsHost' <=> AwaitsHost) /\ (AwaitsRoot' <=> AwaitsRoot)
  BY <1>2 DEF AwaitsHost, AwaitsRoot
<1>3. ASSUME NEW q \in reqs, RootPick(q) \/ RootDrift(q) PROVE WaitInv'
  <2>0. reqs' = reqs \ {q} /\ UNCHANGED <<hostq, hjob>>
    BY <1>3 DEF RootPick, RootDrift, host
  <2>1. CASE root' = Verified(q) /\ txn' = txn /\ root = NoJob
    <3>1. HostWaitInv'
      BY <1>2, <2>0, <2>1 DEF WaitInv, HostWaitInv
    <3>0. root'.act = q.act /\ root'.rev = q.rev /\ root'.awaited = q.awaited
      BY <2>1 DEF Verified
    <3>2. RootWaitInv'
      BY <1>2, <2>0, <2>1, <3>0 DEF WaitInv, RootWaitInv
    <3> QED BY <3>1, <3>2 DEF WaitInv
  <2>2. CASE txn' = Reply(q, "no") /\ root' = root /\ root = NoJob
    <3>1. CASE ~q.awaited
      <4>1. txn' = txn
        BY <1>1, <2>2, <3>1
      <4>2. HostWaitInv'
        BY <1>2, <2>0, <2>2, <4>1 DEF WaitInv, HostWaitInv
      <4>3. RootWaitInv'
        BY <1>2, <2>0, <2>2, <4>1 DEF WaitInv, RootWaitInv
      <4> QED BY <4>2, <4>3 DEF WaitInv
    <3>2. CASE q.awaited
      <4>1. AwaitsRoot /\ ~AwaitsHost
        BY <3>2 DEF WaitInv, RootWaitInv, AwaitsRoot, AwaitsHost, RootWaits, HostWaits
      <4>2. HostWaitInv'
        BY <2>0, <4>1 DEF WaitInv, HostWaitInv
      <4>3. \A r \in reqs' \cup {root'} : ~r.awaited
        BY <1>0, <2>0, <2>2, <3>2 DEF WaitInv, RootWaitInv
      <4> QED BY <4>2, <4>3 DEF WaitInv, RootWaitInv
    <3> QED BY <3>1, <3>2
  <2> QED BY <1>3, <2>1, <2>2 DEF RootPick, RootDrift
<1>4. ASSUME RootCommit PROVE WaitInv'
  <2>0. reqs' = reqs /\ root' = NoJob /\ txn' = Reply(root, "ok") /\ UNCHANGED <<hostq, hjob>>
    BY <1>4 DEF RootCommit, host
  <2>1. CASE ~root.awaited
    <3>1. txn' = txn
      BY <1>1, <2>0, <2>1
    <3>2. HostWaitInv'
      BY <1>2, <2>0, <3>1 DEF WaitInv, HostWaitInv
    <3>3. RootWaitInv'
      BY <1>0, <1>2, <2>0, <3>1 DEF WaitInv, RootWaitInv
    <3> QED BY <3>2, <3>3 DEF WaitInv
  <2>2. CASE root.awaited
    <3>1. AwaitsRoot /\ ~AwaitsHost
      BY <2>2 DEF WaitInv, RootWaitInv, AwaitsRoot, AwaitsHost, RootWaits, HostWaits
    <3>2. HostWaitInv'
      BY <2>0, <3>1 DEF WaitInv, HostWaitInv
    <3>3. \A r \in reqs' \cup {root'} : ~r.awaited
      BY <1>0, <2>0, <2>2 DEF WaitInv, RootWaitInv
    <3> QED BY <3>2, <3>3 DEF WaitInv, RootWaitInv
  <2> QED BY <2>1, <2>2
<1>5. ASSUME AwaitsHost, UNCHANGED <<reqs, root>> PROVE RootWaitInv'
  <2>1. ~AwaitsRoot
    BY <1>5 DEF AwaitsRoot, AwaitsHost, RootWaits, HostWaits
  <2> QED BY <1>5, <2>1 DEF WaitInv, RootWaitInv
<1>6. ASSUME txn' = txn, UNCHANGED <<reqs, root>> PROVE RootWaitInv'
  BY <1>2, <1>6 DEF WaitInv, RootWaitInv
<1>7. ASSUME HostPick PROVE WaitInv'
  <2>0. hostq # <<>> /\ hostq' = Tail(hostq) /\ UNCHANGED <<reqs, root>>
    BY <1>7 DEF HostPick, control
  <2>1. /\ DOMAIN hostq = 1 .. Len(hostq) /\ Len(hostq) \in Nat /\ Len(hostq) >= 1
        /\ Head(hostq) = hostq[1] /\ hostq' \in Seq(Installs)
        /\ Len(hostq') = Len(hostq) - 1 /\ DOMAIN hostq' = 1 .. Len(hostq) - 1
        /\ \A i \in 1 .. Len(hostq) - 1 : hostq'[i] = hostq[i + 1]
    BY <1>0, <2>0
  <2>2. ASSUME Head(hostq).awaited PROVE AwaitsHost /\ hostq' = <<>>
    <3>1. AwaitsHost /\ 1 = Len(hostq)
      BY <2>1, <2>2 DEF WaitInv, HostWaitInv
    <3>2. \A s \in Seq(Installs) : Len(s) = 0 => s = <<>>
      OBVIOUS
    <3>3. Len(hostq') = 0
      <4>1. Len(hostq') = Len(hostq) - 1
        BY <2>1
      <4> QED BY <3>1, <4>1
    <3>4. hostq' = <<>>
      BY <2>1, <3>2, <3>3
    <3> QED BY <3>1, <3>4
  <2>3. \A i \in DOMAIN hostq' : hostq'[i].awaited => AwaitsHost /\ i = Len(hostq')
    BY <2>1 DEF WaitInv, HostWaitInv
  <2>4. CASE hjob' = [rev |-> Head(hostq).rev, awaited |-> Head(hostq).awaited, on |-> TRUE] /\ txn' = txn
    <3>1. hjob'.awaited = Head(hostq).awaited /\ hjob'.on
      BY <2>4
    <3>2. HostWaitInv'
      BY <1>2, <2>2, <2>3, <2>4, <3>1 DEF HostWaitInv
    <3> QED BY <1>6, <2>0, <2>4, <3>2 DEF WaitInv
  <2>5. CASE txn' = Reply(Head(hostq), "no") /\ hjob' = hjob
    <3>0. ~hjob.awaited
      BY <2>0 DEF WaitInv, HostWaitInv
    <3>1. CASE Head(hostq).awaited
      <4>1. HostWaitInv'
        BY <2>2, <2>5, <3>0, <3>1 DEF HostWaitInv
      <4> QED BY <1>5, <2>0, <2>2, <3>1, <4>1 DEF WaitInv
    <3>2. CASE ~Head(hostq).awaited
      <4>1. txn' = txn
        BY <1>1, <2>5, <3>2
      <4>2. HostWaitInv'
        BY <1>2, <2>3, <2>5, <3>0, <4>1 DEF HostWaitInv
      <4> QED BY <1>6, <2>0, <4>1, <4>2 DEF WaitInv
    <3> QED BY <3>1, <3>2
  <2> QED BY <1>7, <2>4, <2>5 DEF HostPick
<1>8. ASSUME HostDone \/ HostFails PROVE WaitInv'
  <2>0. /\ hjob' = NoInstall /\ hostq' = hostq /\ UNCHANGED <<reqs, root>>
        /\ txn' = Reply(hjob, "ok") \/ txn' = Reply(hjob, "no")
    BY <1>8 DEF HostDone, HostFails, control
  <2>1. CASE hjob.awaited
    <3>1. AwaitsHost /\ hostq = <<>>
      BY <2>1 DEF WaitInv, HostWaitInv
    <3>2. HostWaitInv'
      BY <1>0, <2>0, <3>1 DEF HostWaitInv
    <3> QED BY <1>5, <2>0, <3>1, <3>2 DEF WaitInv
  <2>2. CASE ~hjob.awaited
    <3>1. txn' = txn
      BY <1>1, <2>0, <2>2
    <3>2. HostWaitInv'
      BY <1>0, <1>2, <2>0, <3>1 DEF WaitInv, HostWaitInv
    <3> QED BY <1>6, <2>0, <3>1, <3>2 DEF WaitInv
  <2> QED BY <2>1, <2>2
<1> QED BY <1>3, <1>4, <1>7, <1>8

\* The places of a deployment once a surface is at its revision, ...
AfterPolicy == {"runtime", "mcp", "host", "hostWait", "manager", "verify", "commit",
                "commitWait", "close"}
AfterRuntime == AfterPolicy \ {"runtime"}
AfterMcp == AfterRuntime \ {"mcp"}
AfterHost == {"manager", "verify", "commit", "commitWait", "close"}
AfterVerify == {"commit", "commitWait", "close"}
\* ... once the undoing has dealt with the host, and once it was verified
AfterUndoHost == {"undoManager", "undoPolicy", "undoRuntime", "undoVerify"}
AfterUndo == {"open", "openWait", "saveFailure"}
AfterRollback == {"rcommit", "rcommitWait", "rsave"}
Zone == AfterPolicy \cup HostWaits \cup AfterUndoHost \cup AfterUndo \cup AfterRollback

\* Root has recorded c, with its approval policy, and is about to record nothing else
RootAt(c) ==
    /\ lkg.rev = c /\ lkg.policy = c
    /\ root.act = "set_last_known_good" => root.rev = c /\ root.policy = c

DeployInv ==
    /\ txn.pc \in AfterPolicy => live["policy"] = txn.c
    /\ txn.pc \in AfterRuntime => live["runtime"] = txn.c
    /\ txn.pc \in AfterMcp => live["mcp"] = txn.c
    /\ txn.pc \in AfterHost => HostQuiet
    /\ txn.pc \in HostWaits /\ txn.reply # None => HostQuiet
    /\ txn.pc \in AfterVerify => live["host"] = txn.c /\ live["manager"] = txn.c
    /\ txn.pc = "commitWait" /\ root.awaited => root.policy = txn.c
    /\ txn.pc = "close" \/ (txn.pc = "commitWait" /\ txn.reply = "ok") => RootAt(txn.c)

UndoInv ==
    /\ txn.pc \in AfterUndoHost /\ "host" \in txn.att /\ ~txn.err => HostQuiet
    /\ (txn.pc \in AfterUndo /\ txn.rec.state = "rolled_back") \/ txn.pc \in AfterRollback =>
           /\ \A s \in {"runtime", "mcp", "manager"} : live[s] = Base
           /\ "host" \in txn.att => HostQuiet /\ live["host"] = Base

GoodInv == WaitInv /\ DeployInv /\ UndoInv

(* Nothing is claimed of the surfaces outside of these places.             *)
LEMMA GoodOutside == ASSUME WaitInv', txn'.pc \notin Zone PROVE GoodInv'
<1>1. /\ txn'.pc \notin AfterPolicy /\ txn'.pc \notin HostWaits /\ txn'.pc \notin AfterUndoHost
      /\ txn'.pc \notin AfterUndo /\ txn'.pc \notin AfterRollback /\ txn'.pc \notin AfterRuntime /\ txn'.pc \notin AfterMcp
      /\ txn'.pc \notin AfterHost /\ txn'.pc \notin AfterVerify
      /\ txn'.pc # "close" /\ txn'.pc # "commitWait"
  BY DEF Zone, AfterPolicy, AfterRuntime, AfterMcp, AfterHost, AfterVerify
<1> QED BY <1>1 DEF GoodInv, DeployInv, UndoInv

(* Steps that do not concern it.                                           *)
LEMMA GoodSame ==
  ASSUME GoodInv, WaitInv', UNCHANGED <<txn, live, lkg, hostq, hjob, root>> PROVE GoodInv'
<1>1. HostQuiet' <=> HostQuiet
  BY DEF HostQuiet
<1>2. DeployInv'
  BY <1>1 DEF GoodInv, DeployInv, RootAt
<1>3. UndoInv'
  BY <1>1 DEF GoodInv, UndoInv, Base
<1> QED BY <1>2, <1>3 DEF GoodInv

(* The transaction's steps before production is touched and after it was   *)
(* left.                                                                   *)
LEMMA AwaySteps ==
  ASSUME TypeInv, GoodInv,
         \/ Acquire \/ Gate \/ Quiescent \/ RestoreStranded \/ CheckFails \/ RollbackCheckFails
         \/ Source \/ Breaker
         \/ Answered("breakerWait", "freeze", "end") \/ TimedOut("breakerWait", "end") \/ Freeze
         \/ Lift \/ Unlink \/ Activate \/ Preflight \/ Start \/ SaveFailure \/ Close \/ HelperFails
         \/ End \/ Receipt \/ Consume \/ Exit \/ Kill \/ Reboot
  PROVE  GoodInv'
<1>0. txn \in Txns /\ Idle.pc = "idle"
  BY EmptyTypes DEF TypeInv, TxnOK
<1> DEFINE Away == {"idle", "gate", "quiet", "stranded", "align", "source", "breaker", "breakerWait",
                    "freeze", "lift", "unlink", "activate", "preflight", "start", "policy",
                    "undoMcp", "end", "receipt", "consume", "exit"}
<1>1. Away \cap Zone = {}
  BY DEF Zone, AfterPolicy, HostWaits, AfterUndoHost, AfterUndo, AfterRollback
<1> HIDE DEF Away
<1>2. ASSUME ~Waiting, UNCHANGED <<hostq, hjob, reqs, root>>, txn'.pc \in Away PROVE GoodInv'
  <2>1. WaitInv'
    BY <1>2, WaitSame DEF GoodInv
  <2> QED BY <1>1, <1>2, <2>1, GoodOutside
<1>3. ASSUME txn.pc \notin HostWaits \cup RootWaits PROVE ~Waiting
  BY <1>3 DEF Waiting, AwaitsHost, AwaitsRoot
<1>4. ASSUME \/ Acquire \/ Gate \/ Quiescent \/ RestoreStranded \/ CheckFails \/ RollbackCheckFails
             \/ Source
      PROVE  GoodInv'
  <2>1. ~Waiting
    BY <1>3, <1>4 DEF Acquire, Gate, Quiescent, RestoreStranded, CheckFails, RollbackCheckFails, Source,
                      At, Locked, HostWaits, RootWaits
  <2>2. UNCHANGED <<hostq, hjob, reqs, root>>
    BY <1>4 DEF Acquire, Gate, Quiescent, RestoreStranded, CheckFails, RollbackCheckFails, Source,
                StepOnly, StepDisk, control, host
  <2>3. txn'.pc \in Away
    BY <1>0, <1>4 DEF Acquire, Gate, Quiescent, RestoreStranded, CheckFails, RollbackCheckFails, Source,
                      Goto, Away, Txns, Idle
  <2> QED BY <1>2, <2>1, <2>2, <2>3
<1>5. ASSUME Freeze \/ Lift \/ Unlink \/ Activate \/ Preflight \/ Start PROVE GoodInv'
  <2>1. ~Waiting
    BY <1>3, <1>5 DEF Freeze, Lift, Unlink, Activate, Preflight, Start, At, HostWaits, RootWaits
  <2>2. UNCHANGED <<hostq, hjob, reqs, root>>
    BY <1>5 DEF Freeze, Lift, Unlink, Activate, Preflight, Start, StepOnly, StepRecs, StepDisk,
                control, host
  <2>3. txn'.pc \in Away
    BY <1>0, <1>5 DEF Freeze, Lift, Unlink, Activate, Preflight, Start, Goto, Away, Txns
  <2> QED BY <1>2, <2>1, <2>2, <2>3
<1>6. ASSUME SaveFailure \/ Close \/ HelperFails \/ End \/ Receipt \/ Consume \/ Exit PROVE GoodInv'
  <2>1. ~Waiting
    BY <1>3, <1>6 DEF SaveFailure, Close, HelperFails, End, Receipt, Consume, Exit, At, HostWaits, RootWaits
  <2>2. UNCHANGED <<hostq, hjob, reqs, root>>
    BY <1>6 DEF SaveFailure, Close, HelperFails, End, Receipt, Consume, Exit, StepRecs, StepDisk,
                StepLive, control, host
  <2>3. txn'.pc \in Away
    BY <1>0, <1>6 DEF SaveFailure, Close, HelperFails, End, Receipt, Consume, Exit, Goto, Away, Txns
  <2> QED BY <1>2, <2>1, <2>2, <2>3
<1>7. ASSUME Answered("breakerWait", "freeze", "end") PROVE GoodInv'
  <2>1. ~Waiting
    BY <1>7 DEF Answered, Waiting, AwaitsHost, AwaitsRoot
  <2>2. UNCHANGED <<hostq, hjob, reqs, root>>
    BY <1>7 DEF Answered, StepOnly, control, host
  <2>3. txn'.pc \in Away
    BY <1>0, <1>7 DEF Answered, Goto, Away, Txns
  <2> QED BY <1>2, <2>1, <2>2, <2>3
<1>8. ASSUME Breaker PROVE GoodInv'
  <2>1. ~Waiting
    BY <1>3, <1>8 DEF Breaker, At, HostWaits, RootWaits
  <2>2. CASE Goto("freeze") /\ StepOnly
    <3>1. UNCHANGED <<hostq, hjob, reqs, root>>
      BY <2>2 DEF StepOnly, control, host
    <3>2. txn'.pc \in Away
      BY <1>0, <2>2 DEF Goto, Away, Txns
    <3> QED BY <1>2, <2>1, <3>1, <3>2
  <2>3. CASE Submit("revalidate", lkg.rev, "breakerWait")
    <3>1. WaitInv'
      BY <2>1, <2>3, WaitSubmit DEF RootWaits, GoodInv
    <3>2. txn'.pc \in Away
      BY <1>0, <2>3 DEF Submit, Away, Txns
    <3> QED BY <1>1, <3>1, <3>2, GoodOutside
  <2> QED BY <1>8, <2>2, <2>3 DEF Breaker
<1>9. ASSUME TimedOut("breakerWait", "end") \/ Kill PROVE GoodInv'
  <2>1. WaitInv'
    BY <1>9, WaitAbandoned DEF TimedOut, Kill
  <2>2. txn'.pc \in Away
    BY <1>0, <1>9 DEF TimedOut, Kill, Away, Txns
  <2> QED BY <1>1, <2>1, <2>2, GoodOutside
<1>10. ASSUME Reboot PROVE GoodInv'
  <2>1. WaitInv'
    <3> DEFINE queue == IF hjob.on THEN <<[rev |-> hjob.rev, awaited |-> FALSE]>> \o hostq
                                   ELSE hostq
               again == reqs \cup (IF root = NoJob THEN {} ELSE {root})
    <3>0. /\ hostq \in Seq(Installs) /\ hjob.rev \in Revs /\ ~NoInstall.awaited /\ ~NoJob.awaited
      BY DEF TypeInv, HostOK, NoInstall, NoJob
    <3>2. queue \in Seq(Installs)
      <4>1. <<[rev |-> hjob.rev, awaited |-> FALSE]>> \in Seq(Installs)
        BY <3>0 DEF Installs
      <4> QED BY <3>0, <4>1
    <3>3. /\ reqs' = {[act |-> q.act, rev |-> q.rev, awaited |-> FALSE] : q \in again} /\ root' = NoJob
          /\ hostq' = [i \in DOMAIN queue |-> [queue[i] EXCEPT !.awaited = FALSE]]
          /\ hjob' = NoInstall
      BY <1>10 DEF Reboot
    <3> HIDE DEF queue, again
    <3>4. \A q \in reqs' : ~q.awaited
      BY <3>3
    <3>5. \A i \in DOMAIN hostq' : ~hostq'[i].awaited
      <4> SUFFICES ASSUME NEW i \in DOMAIN hostq' PROVE ~hostq'[i].awaited
        OBVIOUS
      <4>1. i \in DOMAIN queue /\ hostq'[i] = [queue[i] EXCEPT !.awaited = FALSE]
        BY <3>3
      <4>2. queue[i] \in Installs
        BY <3>2, <4>1
      <4> QED BY <4>1, <4>2 DEF Installs
    <3> QED BY <3>0, <3>3, <3>4, <3>5 DEF WaitInv, HostWaitInv, RootWaitInv
  <2>2. txn'.pc \in Away
    BY <1>0, <1>10 DEF Reboot, Away
  <2> QED BY <1>1, <2>1, <2>2, GoodOutside
<1> QED BY <1>4, <1>5, <1>6, <1>7, <1>8, <1>9, <1>10

(* The steps of a rollback of an accepted release, of which nothing is     *)
(* claimed before it undoes the host and after its record, deadlines, and  *)
(* the first undo step.                                                    *)
LEMMA AwayRollback ==
  ASSUME TypeInv, GoodInv,
         \/ \E c \in Revs : RollbackClosed(c)
         \/ RollbackLift \/ RollbackUnlink \/ RollbackSave \/ Ungate
         \/ At("ropen") /\ Submit("open", txn.c, "ropenWait")
         \/ Answered("ropenWait", "undoMcp", "end")
         \/ At("rclose") /\ Submit("open", txn.c, "rcloseWait")
         \/ Answered("rcloseWait", "end", "end")
         \/ TimedOut("hostWait", "undoMcp") \/ TimedOut("commitWait", "undoMcp")
         \/ TimedOut("openWait", "end") \/ TimedOut("ropenWait", "end")
         \/ TimedOut("rcommitWait", "end") \/ TimedOut("rcloseWait", "end")
         \/ UndoSurface("undoMcp", "mcp", "undoHost") \/ UndoSurfaceFails("undoMcp", "mcp", "undoHost")
  PROVE  GoodInv'
<1>0. txn \in Txns
  BY DEF TypeInv, TxnOK
<1> DEFINE Away == {"gate", "runlink", "ropen", "ropenWait", "undoMcp", "undoHost", "rclose",
                    "rcloseWait", "end"}
<1>1. Away \cap Zone = {}
  BY DEF Zone, AfterPolicy, HostWaits, AfterUndoHost, AfterUndo, AfterRollback
<1> HIDE DEF Away
<1>2. ASSUME ~Waiting, UNCHANGED <<hostq, hjob, reqs, root>>, txn'.pc \in Away PROVE GoodInv'
  <2>1. WaitInv'
    BY <1>2, WaitSame DEF GoodInv
  <2> QED BY <1>1, <1>2, <2>1, GoodOutside
<1>3. ASSUME txn.pc \notin HostWaits \cup RootWaits PROVE ~Waiting
  BY <1>3 DEF Waiting, AwaitsHost, AwaitsRoot
<1>4. ASSUME NEW c \in Revs, RollbackClosed(c) PROVE GoodInv'
  <2>0. UNCHANGED <<live, lkg, hostq, hjob, reqs, root>>
    BY <1>4 DEF RollbackClosed, control, host
  <2>1. CASE Locked
    <3>1. txn' = txn
      BY <1>4, <2>1 DEF RollbackClosed
    <3>2. WaitInv'
      BY <2>0, <3>1, WaitSame DEF GoodInv
    <3> QED BY <2>0, <3>1, <3>2, GoodSame
  <2>2. CASE ~Locked
    <3>1. txn'.pc \in Away
      BY <1>4, <2>2 DEF RollbackClosed, Idle, Away
    <3>2. ~Waiting
      BY <1>3, <2>2 DEF Locked, HostWaits, RootWaits
    <3> QED BY <1>2, <2>0, <3>1, <3>2
  <2> QED BY <2>1, <2>2
<1>5. ASSUME RollbackLift \/ RollbackUnlink \/ RollbackSave \/ Ungate PROVE GoodInv'
  <2>1. ~Waiting
    BY <1>3, <1>5 DEF RollbackLift, RollbackUnlink, RollbackSave, Ungate, At, HostWaits, RootWaits
  <2>2. UNCHANGED <<hostq, hjob, reqs, root>>
    BY <1>5 DEF RollbackLift, RollbackUnlink, RollbackSave, Ungate, StepRecs, StepDisk, control, host
  <2>3. txn'.pc \in Away
    BY <1>0, <1>5 DEF RollbackLift, RollbackUnlink, RollbackSave, Ungate, At, Goto, Away, Txns
  <2> QED BY <1>2, <2>1, <2>2, <2>3
<1>6. ASSUME NEW p \in {"ropen", "rclose"}, At(p), NEW act, NEW rev,
             NEW wait \in {"ropenWait", "rcloseWait"}, Submit(act, rev, wait)
      PROVE  GoodInv'
  <2>1. ~Waiting
    BY <1>3, <1>6 DEF At, HostWaits, RootWaits
  <2>2. wait \in RootWaits /\ wait # "commitWait"
    BY DEF RootWaits
  <2>3. WaitInv'
    BY <1>6, <2>1, <2>2, WaitSubmit DEF GoodInv
  <2>4. txn'.pc \in Away
    BY <1>0, <1>6 DEF Submit, Away, Txns
  <2> QED BY <1>1, <2>3, <2>4, GoodOutside
<1>7. ASSUME NEW wait, NEW ok \in {"undoMcp", "end"}, Answered(wait, ok, "end") PROVE GoodInv'
  <2>1. ~Waiting
    BY <1>7 DEF Answered, Waiting, AwaitsHost, AwaitsRoot
  <2>2. UNCHANGED <<hostq, hjob, reqs, root>>
    BY <1>7 DEF Answered, StepOnly, control, host
  <2>3. txn'.pc \in Away
    BY <1>0, <1>7 DEF Answered, Goto, Away, Txns
  <2> QED BY <1>2, <2>1, <2>2, <2>3
<1>8. ASSUME NEW wait, NEW no \in {"undoMcp", "end"}, TimedOut(wait, no) PROVE GoodInv'
  <2>1. WaitInv'
    BY <1>8, WaitAbandoned DEF TimedOut
  <2>2. txn'.pc \in Away
    BY <1>0, <1>8 DEF TimedOut, Away, Txns
  <2> QED BY <1>1, <2>1, <2>2, GoodOutside
<1>9. ASSUME UndoSurface("undoMcp", "mcp", "undoHost") \/ UndoSurfaceFails("undoMcp", "mcp", "undoHost")
      PROVE  GoodInv'
  <2>1. ~Waiting
    BY <1>3, <1>9 DEF UndoSurface, UndoSurfaceFails, At, HostWaits, RootWaits
  <2>2. UNCHANGED <<hostq, hjob, reqs, root>>
    BY <1>9 DEF UndoSurface, UndoSurfaceFails, StepLive, control, host
  <2>3. txn'.pc \in Away
    BY <1>0, <1>9 DEF UndoSurface, UndoSurfaceFails, UndoError, Goto, Away, Txns
  <2> QED BY <1>2, <2>1, <2>2, <2>3
<1> QED BY <1>4, <1>5, <1>6, <1>7, <1>8, <1>9

(* The forward steps establish the candidate on one surface after another. *)
LEMMA GoodForward ==
  ASSUME TypeInv, GoodInv,
         \/ StagePolicy \/ DeploySurface("runtime", "mcp") \/ DeploySurface("mcp", "host")
         \/ At("host") /\ SubmitHost(txn.c, "hostWait")
         \/ Answered("hostWait", "manager", "undoMcp")
         \/ InstallManager \/ Verify
         \/ At("commit") /\ Submit("set_last_known_good", txn.c, "commitWait")
         \/ Answered("commitWait", "close", "undoMcp")
  PROVE  GoodInv'
<1>0. /\ txn \in Txns /\ live \in [Surfaces -> Revs \cup {Broken}]
      /\ {"policy", "runtime", "mcp", "host", "manager"} \subseteq Surfaces
  BY DEF TypeInv, TxnOK, LiveOK, Surfaces
<1> USE DEF AfterPolicy, AfterRuntime, AfterMcp, AfterHost, AfterVerify, HostWaits
<1>1. ASSUME txn.pc \notin HostWaits \cup RootWaits PROVE ~Waiting
  BY <1>1 DEF Waiting, AwaitsHost, AwaitsRoot
<1>2. ASSUME WaitInv', DeployInv', txn'.pc \in AfterPolicy PROVE GoodInv'
  <2>1. UndoInv'
    BY <1>2 DEF UndoInv, AfterUndoHost, AfterUndo, AfterRollback
  <2> QED BY <1>2, <2>1 DEF GoodInv
<1>3. ASSUME WaitInv', txn'.pc = "undoMcp" PROVE GoodInv'
  BY <1>3, GoodOutside DEF Zone, AfterUndoHost, AfterUndo, AfterRollback
<1>4. ASSUME StagePolicy PROVE GoodInv'
  <2>0. UNCHANGED <<hostq, hjob, reqs, root>> /\ txn.pc = "policy"
    BY <1>4 DEF StagePolicy, control, host, At
  <2>1. WaitInv'
    BY <1>1, <2>0, WaitSame DEF GoodInv, RootWaits
  <2> DEFINE agrees == live["policy"] \in {IF prior[txn.c] = Unset THEN live["policy"] ELSE prior[txn.c], txn.c}
  <2>2. /\ txn' = IF agrees THEN [txn EXCEPT !.pc = "runtime", !.att = @ \cup {"policy"}]
                            ELSE [txn EXCEPT !.pc = "undoMcp"]
        /\ live' = IF agrees THEN [live EXCEPT !["policy"] = txn.c] ELSE live
    BY <1>4 DEF StagePolicy
  <2> HIDE DEF agrees
  <2>3. CASE agrees
    <3>1. txn'.pc = "runtime" /\ txn'.c = txn.c /\ live'["policy"] = txn.c
      BY <1>0, <2>2, <2>3 DEF Txns
    <3>2. DeployInv'
      BY <3>1 DEF DeployInv
    <3> QED BY <1>2, <2>1, <3>1, <3>2
  <2>4. CASE ~agrees
    <3>1. txn'.pc = "undoMcp"
      BY <1>0, <2>2, <2>4 DEF Txns
    <3> QED BY <1>3, <2>1, <3>1
  <2> QED BY <2>3, <2>4
<1>5. ASSUME DeploySurface("runtime", "mcp") PROVE GoodInv'
  <2>0. UNCHANGED <<hostq, hjob, reqs, root>> /\ txn.pc = "runtime" /\ live' = [live EXCEPT !["runtime"] = txn.c]
    BY <1>5 DEF DeploySurface, StepLive, control, host, At
  <2>1. WaitInv'
    BY <1>1, <2>0, WaitSame DEF GoodInv, RootWaits
  <2>2. txn'.pc = "mcp" /\ txn'.c = txn.c /\ live'["runtime"] = txn.c /\ live'["policy"] = live["policy"]
    BY <1>0, <1>5, <2>0 DEF DeploySurface, Txns
  <2>3. DeployInv'
    BY <2>0, <2>2 DEF GoodInv, DeployInv
  <2> QED BY <1>2, <2>1, <2>2, <2>3
<1>6. ASSUME DeploySurface("mcp", "host") PROVE GoodInv'
  <2>0. UNCHANGED <<hostq, hjob, reqs, root>> /\ txn.pc = "mcp" /\ live' = [live EXCEPT !["mcp"] = txn.c]
    BY <1>6 DEF DeploySurface, StepLive, control, host, At
  <2>1. WaitInv'
    BY <1>1, <2>0, WaitSame DEF GoodInv, RootWaits
  <2>2. /\ txn'.pc = "host" /\ txn'.c = txn.c /\ live'["mcp"] = txn.c
        /\ live'["policy"] = live["policy"] /\ live'["runtime"] = live["runtime"]
    BY <1>0, <1>6, <2>0 DEF DeploySurface, Txns
  <2>3. DeployInv'
    BY <2>0, <2>2 DEF GoodInv, DeployInv
  <2> QED BY <1>2, <2>1, <2>2, <2>3
<1>7. ASSUME At("host"), SubmitHost(txn.c, "hostWait") PROVE GoodInv'
  <2>1. WaitInv'
    BY <1>1, <1>7, WaitSubmitHost DEF At, RootWaits, GoodInv
  <2>2. txn'.pc = "hostWait" /\ txn'.c = txn.c /\ txn'.reply = None /\ live' = live /\ txn.pc = "host"
    BY <1>0, <1>7 DEF SubmitHost, Txns, At
  <2>3. DeployInv'
    BY <2>2 DEF GoodInv, DeployInv
  <2> QED BY <1>2, <2>1, <2>2, <2>3
<1>8. ASSUME Answered("hostWait", "manager", "undoMcp") PROVE GoodInv'
  <2>0. UNCHANGED <<hostq, hjob, reqs, root, live>> /\ txn.pc = "hostWait" /\ txn.reply # None
    BY <1>8 DEF Answered, StepOnly, control, host, At
  <2>1. WaitInv'
    BY <2>0, WaitSame DEF GoodInv, Waiting, AwaitsHost, AwaitsRoot
  <2>2. txn'.pc \in {"manager", "undoMcp"} /\ txn'.c = txn.c
    BY <1>0, <1>8 DEF Answered, Goto, Txns
  <2>3. txn'.pc = "manager" => DeployInv'
    BY <2>0, <2>2 DEF GoodInv, DeployInv, HostQuiet
  <2> QED BY <1>2, <1>3, <2>1, <2>2, <2>3
<1>9. ASSUME InstallManager PROVE GoodInv'
  <2>0. UNCHANGED <<hostq, hjob, reqs, root>> /\ txn.pc = "manager"
    BY <1>9 DEF InstallManager, StepLive, control, host, At
  <2>1. WaitInv'
    BY <1>1, <2>0, WaitSame DEF GoodInv, RootWaits
  <2>2. /\ txn'.pc \in {"verify", "undoMcp"} /\ txn'.c = txn.c
        /\ \A s \in {"policy", "runtime", "mcp"} : live'[s] = live[s]
    <3>1. CASE live["host"] = txn.c
      <4>1. /\ live' = [live EXCEPT !["manager"] = txn.c]
            /\ txn' = [txn EXCEPT !.pc = "verify", !.att = @ \cup {"manager"}]
        BY <1>9, <3>1 DEF InstallManager
      <4> QED BY <1>0, <4>1 DEF Txns
    <3>2. CASE live["host"] # txn.c
      BY <1>0, <1>9, <3>2 DEF InstallManager, Goto, Txns
    <3> QED BY <3>1, <3>2
  <2>3. txn'.pc = "verify" => DeployInv'
    BY <2>0, <2>2 DEF GoodInv, DeployInv, HostQuiet
  <2> QED BY <1>2, <1>3, <2>1, <2>2, <2>3
<1>10. ASSUME Verify PROVE GoodInv'
  <2>0. UNCHANGED <<hostq, hjob, reqs, root, live>> /\ txn.pc = "verify"
    BY <1>10 DEF Verify, StepOnly, control, host, At
  <2>1. WaitInv'
    BY <1>1, <2>0, WaitSame DEF GoodInv, RootWaits
  <2>2. txn'.pc \in {"commit", "undoMcp"} /\ txn'.c = txn.c /\ (txn'.pc = "commit" => Complete(txn.c))
    BY <1>0, <1>10 DEF Verify, Goto, Txns
  <2>3. txn'.pc = "commit" => DeployInv'
    BY <2>0, <2>2 DEF GoodInv, DeployInv, HostQuiet, Complete, Aligned
  <2> QED BY <1>2, <1>3, <2>1, <2>2, <2>3
<1>11. ASSUME At("commit"), Submit("set_last_known_good", txn.c, "commitWait") PROVE GoodInv'
  <2>1. WaitInv'
    BY <1>1, <1>11, WaitSubmit DEF At, RootWaits, GoodInv
  <2>2. txn'.pc = "commitWait" /\ txn'.c = txn.c /\ txn'.reply = None /\ UNCHANGED <<live, hostq, hjob>>
        /\ txn.pc = "commit"
    BY <1>0, <1>11 DEF Submit, Txns, At, host
  <2>a. ~root'.awaited
    <3>1. ~Waiting /\ root' = root
      BY <1>1, <1>11 DEF At, RootWaits, Submit
    <3> QED BY <3>1, NotWaiting DEF GoodInv
  <2>3. DeployInv'
    BY <2>2, <2>a DEF GoodInv, DeployInv, HostQuiet, None
  <2> QED BY <1>2, <2>1, <2>2, <2>3
<1>12. ASSUME Answered("commitWait", "close", "undoMcp") PROVE GoodInv'
  <2>0. UNCHANGED <<hostq, hjob, reqs, root, live, lkg>> /\ txn.pc = "commitWait" /\ txn.reply # None
    BY <1>12 DEF Answered, StepOnly, control, host, At
  <2>1. WaitInv'
    BY <2>0, WaitSame DEF GoodInv, Waiting, AwaitsHost, AwaitsRoot
  <2>2. txn'.pc \in {"close", "undoMcp"} /\ txn'.c = txn.c /\ (txn'.pc = "close" => txn.reply = "ok")
    BY <1>0, <1>12 DEF Answered, Goto, Txns
  <2>3. txn'.pc = "close" => DeployInv'
    BY <2>0, <2>2 DEF GoodInv, DeployInv, HostQuiet, RootAt
  <2> QED BY <1>2, <1>3, <2>1, <2>2, <2>3
<1> QED BY <1>4, <1>5, <1>6, <1>7, <1>8, <1>9, <1>10, <1>11, <1>12

(* The undoing restores them, or notes an error.                           *)
LEMMA GoodUndo ==
  ASSUME TypeInv, GoodInv,
         \/ UndoSurface("undoRuntime", "runtime", "undoVerify")
         \/ UndoSurfaceFails("undoRuntime", "runtime", "undoVerify")
         \/ UndoHost \/ UndoHostDone \/ UndoHostTimedOut \/ UndoManager \/ UndoManagerFails
         \/ UndoPolicy \/ UndoPolicyFails \/ UndoVerify(~txn.err /\ Complete(Base)) \/ UndoVerify(FALSE)
         \/ At("open") /\ Submit("open", txn.c, "openWait")
         \/ Answered("openWait", "saveFailure", "end")
         \/ At("rcommit") /\ Submit("set_last_known_good", Base, "rcommitWait")
         \/ Answered("rcommitWait", "rsave", "end")
  PROVE  GoodInv'
<1>0. txn \in Txns /\ txn.rec \in Recs
  BY DEF TypeInv, TxnOK, Txns
<1> USE DEF AfterUndoHost, AfterUndo, AfterRollback, HostWaits
<1>1. ASSUME txn.pc \notin HostWaits \cup RootWaits PROVE ~Waiting
  BY <1>1 DEF Waiting, AwaitsHost, AwaitsRoot
<1>2. ASSUME WaitInv', UndoInv', txn'.pc \in AfterUndoHost \cup AfterUndo \cup AfterRollback PROVE GoodInv'
  <2>1. DeployInv'
    BY <1>2 DEF DeployInv, AfterPolicy, AfterRuntime, AfterMcp, AfterHost, AfterVerify
  <2> QED BY <1>2, <2>1 DEF GoodInv
<1>3. ASSUME WaitInv', txn'.pc = "end" PROVE GoodInv'
  BY <1>3, GoodOutside DEF Zone, AfterPolicy
<1>4. ASSUME WaitInv', txn'.pc \in AfterUndoHost \cup {"end"}, txn'.att = txn.att,
             HostQuiet' <=> HostQuiet,
             txn'.err \/ (txn'.err = txn.err /\ ("host" \in txn.att /\ ~txn.err => HostQuiet))
      PROVE  GoodInv'
  <2>1. CASE txn'.pc \in AfterUndoHost
    <3>1. UndoInv'
      BY <1>4, <2>1 DEF UndoInv
    <3> QED BY <1>2, <1>4, <2>1, <3>1
  <2> QED BY <1>3, <1>4, <2>1
<1>5. ASSUME NEW next \in AfterUndoHost, UndoError(next)
      PROVE  txn'.pc \in AfterUndoHost \cup {"end"} /\ txn'.att = txn.att /\ txn'.err
  BY <1>0, <1>5 DEF UndoError, Txns
<1>6. ASSUME NEW next, Goto(next)
      PROVE  txn'.pc = next /\ txn'.att = txn.att /\ txn'.err = txn.err /\ txn'.rec = txn.rec
  BY <1>0, <1>6 DEF Goto, Txns
<1>7. ASSUME \/ UndoSurface("undoRuntime", "runtime", "undoVerify")
             \/ UndoSurfaceFails("undoRuntime", "runtime", "undoVerify")
             \/ UndoManager \/ UndoManagerFails \/ UndoPolicy \/ UndoPolicyFails
      PROVE  GoodInv'
  <2>1. txn.pc \in AfterUndoHost /\ txn.pc \notin HostWaits \cup RootWaits
    BY <1>7 DEF UndoSurface, UndoSurfaceFails, UndoManager, UndoManagerFails, UndoPolicy, UndoPolicyFails,
                At, RootWaits
  <2>2. UNCHANGED <<hostq, hjob, reqs, root>>
    BY <1>7 DEF UndoSurface, UndoSurfaceFails, UndoManager, UndoManagerFails, UndoPolicy, UndoPolicyFails,
                StepLive, StepOnly, control, host
  <2>3. WaitInv' /\ (HostQuiet' <=> HostQuiet)
    BY <1>1, <2>1, <2>2, WaitSame DEF GoodInv, HostQuiet
  <2>4. \E next \in AfterUndoHost : Goto(next) \/ UndoError(next)
    BY <1>7 DEF UndoSurface, UndoSurfaceFails, UndoManager, UndoManagerFails, UndoPolicy, UndoPolicyFails
  <2>5. "host" \in txn.att /\ ~txn.err => HostQuiet
    BY <2>1 DEF GoodInv, UndoInv
  <2> QED BY <1>4, <1>5, <1>6, <2>3, <2>4, <2>5
<1>8. ASSUME UndoHost PROVE GoodInv'
  <2>0. ~Waiting
    BY <1>1, <1>8 DEF UndoHost, At, RootWaits
  <2>1. CASE "host" \notin txn.att /\ Goto("undoManager") /\ StepOnly
    <3>1. WaitInv' /\ (HostQuiet' <=> HostQuiet)
      BY <2>0, <2>1, WaitSame DEF GoodInv, HostQuiet, StepOnly, control, host
    <3>2. txn'.pc = "undoManager" /\ txn'.att = txn.att /\ txn'.err = txn.err
      BY <1>6, <2>1
    <3> QED BY <1>4, <2>1, <3>1, <3>2
  <2>2. CASE SubmitHost(Base, "undoHostWait")
    <3>1. WaitInv'
      BY <2>0, <2>2, WaitSubmitHost DEF GoodInv
    <3>2. txn'.pc = "undoHostWait" /\ txn'.reply = None
      BY <1>0, <2>2 DEF SubmitHost, Txns
    <3>3. DeployInv' /\ UndoInv'
      BY <3>2 DEF DeployInv, UndoInv, AfterPolicy, AfterRuntime, AfterMcp, AfterHost, AfterVerify
    <3> QED BY <3>1, <3>3 DEF GoodInv
  <2> QED BY <1>8, <2>1, <2>2 DEF UndoHost
<1>9. ASSUME UndoHostDone PROVE GoodInv'
  <2>0. txn.pc = "undoHostWait" /\ txn.reply # None /\ UNCHANGED <<hostq, hjob, reqs, root>>
    BY <1>9 DEF UndoHostDone, At, StepOnly, control, host
  <2>1. WaitInv' /\ (HostQuiet' <=> HostQuiet)
    BY <2>0, WaitSame DEF GoodInv, HostQuiet, Waiting, AwaitsHost, AwaitsRoot
  <2>2. HostQuiet
    BY <2>0 DEF GoodInv, DeployInv
  <2>3. Goto("undoManager") \/ UndoError("undoManager")
    BY <1>9 DEF UndoHostDone
  <2> QED BY <1>4, <1>5, <1>6, <2>1, <2>2, <2>3
<1>10. ASSUME UndoHostTimedOut PROVE GoodInv'
  <2>1. WaitInv'
    BY <1>10, WaitAbandoned DEF UndoHostTimedOut
  <2>2. txn'.pc \in AfterUndoHost \cup {"end"} /\ txn'.err
    BY <1>5, <1>10 DEF UndoHostTimedOut
  <2>3. CASE txn'.pc \in AfterUndoHost
    <3>1. UndoInv'
      BY <2>2, <2>3 DEF UndoInv
    <3> QED BY <1>2, <2>1, <2>3, <3>1
  <2> QED BY <1>3, <2>1, <2>2, <2>3
<1>11. ASSUME NEW ok \in BOOLEAN, ok => ~txn.err /\ Complete(Base), UndoVerify(ok) PROVE GoodInv'
  <2>0. txn.pc = "undoVerify" /\ UNCHANGED <<hostq, hjob, reqs, root, live>>
    BY <1>11 DEF UndoVerify, At, StepOnly, control, host
  <2>1. WaitInv' /\ (HostQuiet' <=> HostQuiet)
    BY <1>1, <2>0, WaitSame DEF GoodInv, HostQuiet, RootWaits
  <2>2. CASE txn.kind = "deploy"
    <3> DEFINE st == IF ok THEN "rolled_back" ELSE "failed"
    <3>1. txn' = [txn EXCEPT !.pc = "open", !.rec.state = st] /\ (st = "rolled_back" => ok)
      BY <1>11, <2>2 DEF UndoVerify
    <3> HIDE DEF st
    <3>2. /\ txn'.pc = "open" /\ txn'.att = txn.att /\ txn'.rec.state = st
          /\ txn'.rec.base = txn.rec.base
      BY <1>0, <3>1 DEF Txns, Recs
    <3>3. ok /\ "host" \in txn.att => HostQuiet
      BY <1>11, <2>0 DEF GoodInv, UndoInv
    <3>4. ok => \A s \in {"runtime", "mcp", "manager", "host"} : live[s] = Base
      BY <1>11 DEF Complete, Aligned
    <3>5. UndoInv'
      BY <2>0, <2>1, <3>1, <3>2, <3>3, <3>4 DEF UndoInv, Base
    <3> QED BY <1>2, <2>1, <3>2, <3>5
  <2>3. CASE txn.kind # "deploy"
    <3>1. PICK next \in {"rcommit", "end"} : Goto(next) /\ (next = "rcommit" => ok)
      BY <1>11, <2>3 DEF UndoVerify, Goto
    <3>2. txn'.pc = next /\ txn'.att = txn.att /\ txn'.rec = txn.rec
      BY <1>6, <3>1
    <3>3. CASE next = "rcommit"
      <4>1. "host" \in txn.att => HostQuiet
        BY <1>11, <2>0, <3>1, <3>3 DEF GoodInv, UndoInv
      <4>2. \A s \in {"runtime", "mcp", "manager", "host"} : live[s] = Base
        BY <1>11, <3>1, <3>3 DEF Complete, Aligned
      <4>3. UndoInv'
        BY <2>0, <2>1, <3>2, <3>3, <4>1, <4>2 DEF UndoInv, Base
      <4> QED BY <1>2, <2>1, <3>2, <3>3, <4>3
    <3> QED BY <1>3, <2>1, <3>1, <3>2, <3>3
  <2> QED BY <2>2, <2>3
<1>12. ASSUME WaitInv', txn'.att = txn.att,
              \/ txn.pc \in AfterUndo /\ txn'.pc \in AfterUndo
              \/ txn.pc \in AfterRollback /\ txn'.pc \in AfterRollback,
              txn'.rec = txn.rec, UNCHANGED <<live, hostq, hjob>>
       PROVE  GoodInv'
  <2>1. UndoInv'
    BY <1>12 DEF GoodInv, UndoInv, HostQuiet, Base
  <2> QED BY <1>2, <1>12, <2>1
<1>13. ASSUME NEW p \in {"open", "rcommit"}, At(p), NEW act, NEW rev,
              NEW wait \in {"openWait", "rcommitWait"}, Submit(act, rev, wait),
              p = "open" <=> wait = "openWait"
       PROVE  GoodInv'
  <2>0. ~Waiting /\ wait \in RootWaits /\ wait # "commitWait"
    BY <1>1, <1>13 DEF At, RootWaits
  <2>1. WaitInv'
    BY <1>13, <2>0, WaitSubmit DEF GoodInv
  <2>2. txn'.pc = wait /\ txn'.att = txn.att /\ txn'.rec = txn.rec /\ UNCHANGED <<live, hostq, hjob>>
        /\ txn.pc = p
    BY <1>0, <1>13 DEF Submit, Txns, At, host
  <2> QED BY <1>12, <1>13, <2>1, <2>2
<1>14. ASSUME NEW wait \in {"openWait", "rcommitWait"}, NEW ok \in {"saveFailure", "rsave"},
              Answered(wait, ok, "end"), wait = "openWait" <=> ok = "saveFailure"
       PROVE  GoodInv'
  <2>0. UNCHANGED <<hostq, hjob, reqs, root, live>> /\ txn.pc = wait /\ txn.reply # None
    BY <1>14 DEF Answered, StepOnly, control, host, At
  <2>1. WaitInv'
    BY <2>0, WaitSame DEF GoodInv, Waiting, AwaitsHost, AwaitsRoot
  <2>2. txn'.pc \in {ok, "end"} /\ txn'.att = txn.att /\ txn'.rec = txn.rec
    BY <1>6, <1>14 DEF Answered
  <2> QED BY <1>3, <1>12, <1>14, <2>0, <2>1, <2>2
<1>15. (~txn.err /\ Complete(Base)) \in BOOLEAN /\ FALSE \in BOOLEAN
  OBVIOUS
<1> QED BY <1>7, <1>8, <1>9, <1>10, <1>11, <1>13, <1>14, <1>15

(* The workers.                                                            *)
LEMMA GoodWorkers ==
  ASSUME TypeInv, GoodInv,
         (\E q \in reqs : RootPick(q) \/ RootDrift(q)) \/ RootCommit \/ HostPick \/ HostDone \/ HostFails
  PROVE  GoodInv'
<1>0. /\ txn \in Txns /\ live \in [Surfaces -> Revs \cup {Broken}] /\ root \in Jobs \cup {NoJob}
      /\ NoJob.act = None /\ ~NoJob.awaited /\ ~NoInstall.on
  BY DEF TypeInv, TxnOK, LiveOK, ControlOK, NoJob, NoInstall
<1>1. WaitInv'
  BY WaitWorkers DEF GoodInv
<1>2. ASSUME NEW q, NEW t \in {"ok", "no"}
      PROVE  /\ Reply(q, t).pc = txn.pc /\ Reply(q, t).c = txn.c /\ Reply(q, t).att = txn.att
             /\ Reply(q, t).err = txn.err /\ Reply(q, t).rec = txn.rec
             /\ q.awaited => Reply(q, t).reply = t
             /\ ~q.awaited => Reply(q, t) = txn
  BY <1>0 DEF Reply, Txns
<1> DEFINE SameTxn == /\ txn'.pc = txn.pc /\ txn'.c = txn.c /\ txn'.att = txn.att
                      /\ txn'.err = txn.err /\ txn'.rec = txn.rec
<1>3. ASSUME SameTxn, \A s \in Surfaces \ {"host"} : live'[s] = live[s],
             HostQuiet => HostQuiet' /\ live'["host"] = live["host"],
             txn.pc \in HostWaits /\ txn'.reply # None => HostQuiet',
             txn.pc = "commitWait" /\ root'.awaited => root'.policy = txn.c,
             txn.pc = "close" \/ (txn.pc = "commitWait" /\ txn'.reply = "ok") => RootAt(txn.c)'
      PROVE  GoodInv'
  <2>0. {"policy", "runtime", "mcp", "manager"} \subseteq Surfaces \ {"host"}
    BY DEF Surfaces
  <2>1. AfterVerify \subseteq AfterHost
    BY DEF AfterVerify, AfterHost
  <2>2. DeployInv'
    BY <1>3, <2>0, <2>1 DEF GoodInv, DeployInv
  <2>3. UndoInv'
    BY <1>3, <2>0 DEF GoodInv, UndoInv, Base
  <2> QED BY <1>1, <2>2, <2>3 DEF GoodInv
<1> HIDE DEF SameTxn
<1>4. ASSUME NEW q \in reqs, RootPick(q) \/ RootDrift(q) PROVE GoodInv'
  <2>0. root = NoJob /\ UNCHANGED <<live, lkg, hostq, hjob>>
    BY <1>4 DEF RootPick, RootDrift, host
  <2>1. HostQuiet' <=> HostQuiet
    BY <2>0 DEF HostQuiet
  <2>2. CASE RootAccepts(q) /\ root' = Verified(q) /\ txn' = txn
    <3>0. root'.act = q.act /\ root'.rev = q.rev /\ root'.policy = live["policy"]
      BY <2>2 DEF Verified
    <3>a. txn.pc \in AfterVerify => root'.policy = txn.c
      BY <3>0 DEF GoodInv, DeployInv, AfterVerify, AfterPolicy
    <3>1. ASSUME txn.pc \in AfterVerify, q.act = "set_last_known_good" PROVE q.rev = txn.c
      <4>1. live["runtime"] = q.rev
        BY <2>2, <3>1 DEF RootAccepts, Complete, Aligned
      <4>2. live["runtime"] = txn.c
        BY <3>1 DEF GoodInv, DeployInv, AfterVerify, AfterRuntime, AfterPolicy
      <4> QED BY <4>1, <4>2
    <3>2. SameTxn
      BY <2>2 DEF SameTxn
    <3>3. txn.pc = "close" \/ (txn.pc = "commitWait" /\ txn'.reply = "ok") => RootAt(txn.c)'
      BY <2>0, <2>2, <3>0, <3>a, <3>1 DEF GoodInv, DeployInv, AfterVerify, RootAt
    <3>4. txn.pc \in HostWaits /\ txn'.reply # None => HostQuiet'
      BY <2>1, <2>2 DEF GoodInv, DeployInv
    <3>5. txn.pc = "commitWait" /\ root'.awaited => root'.policy = txn.c
      BY <3>a DEF AfterVerify
    <3> QED BY <1>3, <2>0, <2>1, <3>2, <3>3, <3>4, <3>5
  <2>3. CASE txn' = Reply(q, "no") /\ root' = root
    <3>1. SameTxn
      BY <1>2, <2>3 DEF SameTxn
    <3>2. txn' = txn \/ (AwaitsRoot /\ txn'.reply = "no")
      BY <1>2, <2>3 DEF GoodInv, WaitInv, RootWaitInv
    <3>3. txn.pc = "close" \/ (txn.pc = "commitWait" /\ txn'.reply = "ok") => RootAt(txn.c)'
      BY <2>0, <2>3, <3>1, <3>2 DEF GoodInv, DeployInv, RootAt, SameTxn
    <3>4. txn.pc \in HostWaits /\ txn'.reply # None => HostQuiet'
      BY <2>1, <3>2 DEF GoodInv, DeployInv, AwaitsRoot, RootWaits, HostWaits
    <3>5. txn.pc = "commitWait" /\ root'.awaited => root'.policy = txn.c
      BY <2>3 DEF GoodInv, DeployInv
    <3> QED BY <1>3, <2>0, <2>1, <3>1, <3>3, <3>4, <3>5
  <2> QED BY <1>4, <2>2, <2>3 DEF RootPick, RootDrift
<1>5. ASSUME RootCommit PROVE GoodInv'
  <2>0. root' = NoJob /\ txn' = Reply(root, "ok") /\ UNCHANGED <<live, hostq, hjob>>
    BY <1>5 DEF RootCommit, host
  <2>1. HostQuiet' <=> HostQuiet
    BY <2>0 DEF HostQuiet
  <2>2. /\ root.act = "set_last_known_good" => lkg'.rev = root.rev /\ lkg'.policy = root.policy
        /\ root.act # "set_last_known_good" => lkg' = lkg
    BY <1>5 DEF RootCommit
  <2>3. SameTxn
    BY <1>2, <2>0 DEF SameTxn
  <2>4. txn' = txn \/ (AwaitsRoot /\ root.awaited)
    BY <1>2, <2>0 DEF GoodInv, WaitInv, RootWaitInv
  <2>7. root'.act # "set_last_known_good" /\ ~root'.awaited
    BY <1>0, <2>0 DEF None
  <2>5. txn.pc = "close" \/ (txn.pc = "commitWait" /\ txn'.reply = "ok") => RootAt(txn.c)'
    <3>1. CASE txn' = txn
      BY <2>2, <2>7, <3>1 DEF GoodInv, DeployInv, RootAt
    <3>2. CASE AwaitsRoot /\ root.awaited
      <4>1. txn.pc # "close"
        BY <3>2 DEF AwaitsRoot, RootWaits
      <4>2. txn.pc = "commitWait" =>
               root.act = "set_last_known_good" /\ root.rev = txn.c /\ root.policy = txn.c
        BY <3>2 DEF GoodInv, WaitInv, RootWaitInv, DeployInv
      <4> QED BY <2>2, <2>3, <2>7, <4>1, <4>2 DEF RootAt, SameTxn
    <3> QED BY <2>4, <3>1, <3>2
  <2>6. txn.pc \in HostWaits /\ txn'.reply # None => HostQuiet'
    BY <2>1, <2>4 DEF GoodInv, DeployInv, AwaitsRoot, RootWaits, HostWaits
  <2> QED BY <1>3, <2>0, <2>1, <2>3, <2>5, <2>6, <2>7
<1>6. ASSUME SameTxn, \A s \in Surfaces \ {"host"} : live'[s] = live[s], ~HostQuiet, UNCHANGED <<lkg, root>>,
             txn' = txn \/ (AwaitsHost /\ HostQuiet')
      PROVE  GoodInv'
  <2>1. txn.pc \in HostWaits /\ txn'.reply # None => HostQuiet'
    BY <1>6 DEF GoodInv, DeployInv
  <2>2. txn.pc = "close" \/ (txn.pc = "commitWait" /\ txn'.reply = "ok") => RootAt(txn.c)'
    BY <1>6 DEF GoodInv, DeployInv, AwaitsHost, HostWaits, RootAt, SameTxn
  <2>3. txn.pc = "commitWait" /\ root'.awaited => root'.policy = txn.c
    BY <1>6 DEF GoodInv, DeployInv
  <2> QED BY <1>3, <1>6, <2>1, <2>2, <2>3
<1>7. ASSUME HostPick PROVE GoodInv'
  <2>0. hostq # <<>> /\ hostq' = Tail(hostq) /\ ~hjob.on /\ UNCHANGED <<live, lkg, root>>
    BY <1>7 DEF HostPick, control
  <2>1. CASE txn' = txn
    BY <1>6, <2>0, <2>1 DEF SameTxn, HostQuiet
  <2>2. CASE txn' = Reply(Head(hostq), "no") /\ hjob' = hjob /\ Head(hostq).awaited
    <3>1. hostq \in Seq(Installs) /\ 1 \in DOMAIN hostq /\ Head(hostq) = hostq[1]
      BY <2>0 DEF TypeInv, HostOK
    <3>2. AwaitsHost /\ Len(hostq) = 1
      BY <2>2, <3>1 DEF GoodInv, WaitInv, HostWaitInv
    <3>3. hostq' = <<>>
      <4>1. hostq' \in Seq(Installs) /\ Len(hostq') = Len(hostq) - 1
        BY <2>0, <3>1
      <4>2. Len(hostq') = 0
        BY <3>2, <4>1
      <4>3. \A s \in Seq(Installs) : Len(s) = 0 => s = <<>>
        OBVIOUS
      <4> QED BY <4>1, <4>2, <4>3
    <3>4. HostQuiet'
      BY <2>0, <2>2, <3>3 DEF HostQuiet
    <3>5. SameTxn
      BY <1>2, <2>2 DEF SameTxn
    <3> QED BY <1>6, <2>0, <3>2, <3>4, <3>5 DEF HostQuiet
  <2> QED BY <1>2, <1>7, <2>1, <2>2 DEF HostPick
<1>8. ASSUME HostDone \/ HostFails PROVE GoodInv'
  <2>0. /\ hjob.on /\ hjob' = NoInstall /\ hostq' = hostq /\ UNCHANGED <<lkg, root>>
        /\ \E v : live' = [live EXCEPT !["host"] = v]
        /\ txn' = Reply(hjob, "ok") \/ txn' = Reply(hjob, "no")
    BY <1>8 DEF HostDone, HostFails, control
  <2>1. \A s \in Surfaces \ {"host"} : live'[s] = live[s]
    BY <1>0, <2>0
  <2>2. SameTxn
    <3>1. CASE txn' = Reply(hjob, "ok")
      BY <1>2, <3>1 DEF SameTxn
    <3>2. CASE txn' = Reply(hjob, "no")
      BY <1>2, <3>2 DEF SameTxn
    <3> QED BY <2>0, <3>1, <3>2
  <2>3. ~HostQuiet
    BY <2>0 DEF HostQuiet
  <2>4. hjob.awaited => AwaitsHost /\ HostQuiet'
    BY <1>0, <2>0 DEF GoodInv, WaitInv, HostWaitInv, HostQuiet
  <2>5. ~hjob.awaited => txn' = txn
    BY <1>2, <2>0
  <2> QED BY <1>6, <2>0, <2>1, <2>2, <2>3, <2>4, <2>5
<1> QED BY <1>4, <1>5, <1>7, <1>8

(* What nobody waits for does not concern the transaction.                 *)
LEMMA GoodPrepare ==
  ASSUME TypeInv, GoodInv,
         \/ \E c \in Revs : \/ CreateRecord(c) \/ Preproduction(c) \/ Approve(c)
                             \/ OwnerUnfreeze(c) \/ ManualLoad(c)
         \/ PrepareRevalidate \/ DeskSave \/ OwnerFreeze \/ Merge \/ TimerScan \/ TimerDemote \/ Busy
         \/ EngStart \/ EngGate \/ EngIs("admitted", "active") \/ EngIs("active", "inactive")
         \/ UNCHANGED vars
  PROVE  GoodInv'
<1>1. UNCHANGED <<txn, live, lkg, hostq, hjob, root>>
  BY DEF CreateRecord, Preproduction, Approve, OwnerUnfreeze, ManualLoad, PrepareRevalidate, DeskSave,
         OwnerFreeze, Merge, TimerScan, TimerDemote, Busy, EngStart, EngGate, EngIs, vars, control, host
<1>2. CASE reqs' = reqs
  BY <1>1, <1>2, WaitSame, GoodSame DEF GoodInv
<1>3. CASE PrepareRevalidate
  <2> DEFINE n == [act |-> "revalidate", rev |-> lkg.rev, awaited |-> FALSE]
  <2>1. reqs' = reqs \cup {n} /\ ~n.awaited
    BY <1>3 DEF PrepareRevalidate
  <2> HIDE DEF n
  <2>2. (AwaitsHost' <=> AwaitsHost) /\ (AwaitsRoot' <=> AwaitsRoot)
    BY <1>1 DEF AwaitsHost, AwaitsRoot
  <2>3. HostWaitInv'
    BY <1>1, <2>2 DEF GoodInv, WaitInv, HostWaitInv
  <2>4. RootWaitInv'
    BY <1>1, <2>1, <2>2 DEF GoodInv, WaitInv, RootWaitInv
  <2> QED BY <1>1, <2>3, <2>4, GoodSame DEF WaitInv
<1> QED BY <1>2, <1>3 DEF CreateRecord, Preproduction, Approve, OwnerUnfreeze, ManualLoad, DeskSave,
         OwnerFreeze, Merge, TimerScan, TimerDemote, Busy, EngStart, EngGate, EngIs, vars, control

\* Nothing is under way initially.
LEMMA GoodInit == Init => GoodInv
<1> SUFFICES ASSUME Init PROVE GoodInv
  OBVIOUS
<1>1. txn.pc = "idle" /\ ~NoInstall.awaited /\ ~NoJob.awaited
  BY EmptyTypes DEF Init, NoInstall, NoJob
<1>2. WaitInv
  BY <1>1 DEF Init, WaitInv, HostWaitInv, RootWaitInv
<1> QED BY <1>1, <1>2 DEF GoodInv, DeployInv, UndoInv, AfterPolicy, AfterRuntime, AfterMcp, AfterHost,
           AfterVerify, AfterUndoHost, AfterUndo, AfterRollback, HostWaits

\* Every step keeps what a transaction under way knows of the surfaces ...
LEMMA GoodStep == TypeInv /\ GoodInv /\ [Next]_vars => GoodInv'
<1> SUFFICES ASSUME TypeInv, GoodInv, [Next]_vars PROVE GoodInv'
  OBVIOUS
<1>1. CASE UNCHANGED vars
  BY <1>1, GoodPrepare
<1>2. CASE Transaction
  BY <1>2, AwaySteps, AwayRollback, GoodForward, GoodUndo DEF Transaction
<1>3. CASE Normal
  BY <1>2, <1>3, AwaySteps, AwayRollback, GoodWorkers, GoodPrepare DEF Normal
<1>4. CASE TransactionFault
  BY <1>4, AwaySteps, AwayRollback, GoodUndo DEF TransactionFault
<1>5. CASE Fault
  BY <1>4, <1>5, AwaySteps, GoodWorkers DEF Fault
<1> QED BY <1>1, <1>3, <1>5 DEF Next

\* ... hence it always does.
LEMMA GoodAlways == Spec => []TypeInv /\ []GoodInv
<1>1. Init => TypeInv /\ GoodInv
  BY TypeInit, GoodInit
<1>2. TypeInv /\ GoodInv /\ [Next]_vars => TypeInv' /\ GoodInv'
  BY TypeStep, GoodStep
<1> QED BY <1>1, <1>2, PTL DEF Spec

(* A release is closed only while every surface is at its revision, the    *)
(* approval policy included, and root has recorded it, with its policy, as *)
(* last known good, whatever stale requests the workers still hold         *)
(* (_deploy_production_locked, apply_transition).                          *)
THEOREM ClosedReleasesAreGood == Spec => ClosedWasGood
<1>1. TypeInv /\ GoodInv =>
        (At("close") => /\ Complete(txn.c) /\ live["policy"] = txn.c
                        /\ lkg = [rev |-> txn.c, policy |-> txn.c])
  BY DEF GoodInv, DeployInv, AfterPolicy, AfterRuntime, AfterMcp, AfterVerify, At, Complete, Aligned,
         RootAt, TypeInv, ControlOK
<1>2. TypeInv /\ GoodInv /\ [Next]_vars =>
        [At("close") /\ txn'.rec.state = "closed"
          => Complete(txn.c) /\ live["policy"] = txn.c /\ lkg = [rev |-> txn.c, policy |-> txn.c]]_vars
  BY <1>1
<1> QED BY <1>2, GoodAlways, PTL DEF ClosedWasGood, Spec

(* A release, failed or accepted and withdrawn, is recorded as rolled back *)
(* only when runtime, MCP and manager are at its baseline, and the host    *)
(* too if it was asked for: the rollback's own host request is behind all  *)
(* the others, so no late host job undoes it (the rollback of              *)
(* _deploy_production_locked, rollback_closed_release).                    *)
THEOREM RolledBackMeansRestored == Spec => RestoredWhenRolledBack
<1>1. GoodInv /\ [Next]_vars =>
        [(At("saveFailure") /\ txn.rec.state = "rolled_back") \/ At("rsave")
          => /\ \A s \in {"runtime", "mcp", "manager"} : live[s] = Base
             /\ "host" \in txn.att => live["host"] = Base]_vars
  BY DEF GoodInv, UndoInv, AfterUndo, AfterRollback, At
<1> QED BY <1>1, GoodAlways, PTL DEF RestoredWhenRolledBack, Spec

-----------------------------------------------------------------------------
(* The circuit breaker.                                                    *)

\* The places of a rollback of an accepted release once it has lifted the freeze,
\* and those from which the surfaces may still be moved without another look at
\* the breaker
RollbackOnly == {"ropen", "ropenWait", "rcommit", "rcommitWait", "rsave", "rclose", "rcloseWait"}
Moving ==
    {"policy", "runtime", "mcp", "host", "hostWait", "manager", "verify", "commit", "commitWait",
     "close", "undoMcp", "undoHost", "undoHostWait", "undoManager", "undoPolicy", "undoRuntime",
     "undoVerify", "open"} \cup RollbackOnly

KindInv ==
    /\ txn.pc # "idle" => txn.kind # None
    /\ txn.kind = "rollback" => rlift[txn.c] # None
    /\ txn.pc \in RollbackOnly => txn.kind = "rollback"

\* Production is at revision r with approval policy p, its host unless a job nobody
\* waited for came last
RunsAt(r, p) ==
    /\ \A s \in {"runtime", "mcp", "manager"} : live[s] = r
    /\ live["policy"] = p
    /\ ~stray => live["host"] = r
Undisturbed == torn = {} /\ \A c \in Revs : rlift[c] = None
OpenPending == \E q \in reqs : q.act = "open"

\* Production is at last known good, or the breaker is open or is going to be
\* opened; what root has accepted and not yet written does not undo that
Covered ==
    /\ RunsAt(lkg.rev, lkg.policy) \/ breaker = "open" \/ OpenPending \/ root.act = "open"
    /\ root.act = "set_last_known_good" => RunsAt(root.rev, root.policy) \/ OpenPending
    /\ root.act = "revalidate" => RunsAt(lkg.rev, lkg.policy) \/ OpenPending

BreakerInv == KindInv /\ (Undisturbed /\ txn.pc \notin Moving => Covered)

\* Neither a kill nor a rollback is forgotten
Remembers == torn \subseteq torn' /\ \A c \in Revs : rlift[c] # None => rlift'[c] # None

\* The transaction goes on as the one it is
GoesOn ==
    /\ txn.pc # "idle" /\ txn'.kind = txn.kind /\ txn'.c = txn.c
    /\ txn'.pc \in RollbackOnly => txn.kind = "rollback"

\* A transaction stays the deployment or the rollback it began as.
LEMMA KindKept ==
  ASSUME TypeInv, KindInv, Remembers,
         txn' = Idle \/ GoesOn \/ (txn'.pc = txn.pc /\ txn'.kind = txn.kind /\ txn'.c = txn.c)
  PROVE  KindInv'
<1>1. txn.c \in Revs
  BY DEF TypeInv, TxnOK, Txns
<1>2. CASE txn' = Idle
  BY <1>2, EmptyTypes DEF KindInv, RollbackOnly, None
<1>3. CASE GoesOn
  BY <1>1, <1>3 DEF KindInv, GoesOn, Remembers
<1>4. CASE txn'.pc = txn.pc /\ txn'.kind = txn.kind /\ txn'.c = txn.c
  BY <1>1, <1>4 DEF KindInv, Remembers
<1> QED BY <1>2, <1>3, <1>4

(* Steps between two places where the surfaces stay where they are, the    *)
(* host unless it is strayed from then on.                                 *)
LEMMA CoverKept ==
  ASSUME BreakerInv, KindInv', Remembers, txn.pc \notin Moving \/ txn'.pc \in Moving,
         txn'.pc \notin Moving =>
            /\ UNCHANGED <<lkg, breaker>> /\ root'.act = root.act
            /\ root'.rev = root.rev /\ root'.policy = root.policy
            /\ OpenPending => OpenPending'
            /\ \A s \in {"runtime", "mcp", "manager", "policy"} : live'[s] = live[s]
            /\ ~stray' => ~stray /\ live'["host"] = live["host"]
  PROVE  BreakerInv'
<1> SUFFICES ASSUME Undisturbed', txn'.pc \notin Moving PROVE Covered'
  BY DEF BreakerInv
<1>1. Undisturbed
  BY DEF Undisturbed, Remembers
<1>2. Covered
  BY <1>1 DEF BreakerInv
<1>3. /\ RunsAt(lkg.rev, lkg.policy) => RunsAt(lkg.rev, lkg.policy)'
      /\ RunsAt(root.rev, root.policy) => RunsAt(root.rev, root.policy)'
  BY DEF RunsAt
<1> QED BY <1>2, <1>3 DEF Covered

(* A step of a transaction that may move the surfaces: a deployment stays  *)
(* among such places, and of a rollback nothing is claimed.                *)
LEMMA MovingKept ==
  ASSUME TypeInv, BreakerInv, Remembers, GoesOn, txn.kind = "deploy" => txn'.pc \in Moving
  PROVE  BreakerInv'
<1>1. txn.kind \in {None, "deploy", "rollback"} /\ txn.c \in Revs
  BY DEF TypeInv, TxnOK, Txns
<1>2. KindInv'
  BY KindKept DEF BreakerInv
<1>3. CASE txn.kind = "deploy"
  BY <1>2, <1>3 DEF BreakerInv
<1>4. CASE txn.kind = "rollback"
  <2>1. ~Undisturbed'
    BY <1>1, <1>2, <1>4 DEF KindInv, Undisturbed, GoesOn
  <2> QED BY <1>2, <2>1 DEF BreakerInv
<1> QED BY <1>1, <1>3, <1>4 DEF BreakerInv, KindInv, GoesOn

(* The steps before production is touched and after it was left.           *)
LEMMA SettledSteps ==
  ASSUME TypeInv, LiftInv, BreakerInv,
         \/ Gate \/ Quiescent \/ RestoreStranded \/ CheckFails \/ Source \/ Breaker
         \/ Answered("breakerWait", "freeze", "end") \/ TimedOut("breakerWait", "end")
         \/ Freeze \/ Lift \/ Unlink \/ Activate \/ Preflight \/ Start
         \/ Answered("openWait", "saveFailure", "end") \/ TimedOut("openWait", "end") \/ SaveFailure
         \/ RollbackLift \/ RollbackUnlink \/ RollbackCheckFails
         \/ Ungate \/ End \/ Receipt \/ Consume \/ Exit
  PROVE  BreakerInv'
<1>0. /\ txn \in Txns /\ txn.c \in Revs /\ reqs \subseteq Requests /\ root \in Jobs \cup {NoJob}
      /\ rlift \in [Revs -> {None, "pending", "active", "returned", "finished"}]
  BY DEF TypeInv, TxnOK, ControlOK, DiskOK, Txns
<1>1. ASSUME txn.pc \notin Moving, Remembers, txn' = Idle \/ GoesOn,
             UNCHANGED <<lkg, breaker, live, stray>>, root'.act = root.act, root'.rev = root.rev,
             root'.policy = root.policy, OpenPending => OpenPending'
      PROVE  BreakerInv'
  <2>1. KindInv'
    BY <1>1, KindKept DEF BreakerInv
  <2> QED BY <1>1, <2>1, CoverKept
<1>2. ASSUME UNCHANGED <<torn, rlift>> PROVE Remembers
  BY <1>2 DEF Remembers
<1>3. ASSUME UNCHANGED reqs PROVE OpenPending => OpenPending'
  BY <1>3 DEF OpenPending
<1>4. ASSUME Gate PROVE BreakerInv'
  <2>1. UNCHANGED <<lkg, breaker, live, stray, root, reqs, torn>> /\ txn.pc \notin Moving
    BY <1>4 DEF Gate, At, control, host, hist, Moving, RollbackOnly
  <2>2. txn' = Idle \/ GoesOn
    BY <1>0, <1>4 DEF Gate, At, Goto, GoesOn, Txns, RollbackOnly
  <2>3. Remembers
    BY <1>0, <1>4, <2>1 DEF Remembers, Gate, None
  <2> QED BY <1>1, <1>3, <2>1, <2>2, <2>3
<1>5. ASSUME Exit PROVE BreakerInv'
  <2>1. UNCHANGED <<lkg, breaker, live, stray, root, reqs, torn>> /\ txn.pc \notin Moving /\ txn' = Idle
    BY <1>5 DEF Exit, At, control, host, hist, Moving, RollbackOnly
  <2>2. Remembers
    BY <1>0, <1>5, <2>1 DEF Remembers, Exit, None
  <2> QED BY <1>1, <1>3, <2>1, <2>2
<1>6. ASSUME RollbackLift \/ Receipt PROVE BreakerInv'
  <2>1. UNCHANGED <<lkg, breaker, live, stray, root, reqs, torn>> /\ txn.pc \notin Moving
    BY <1>6 DEF RollbackLift, Receipt, StepDisk, At, control, host, hist, Moving, RollbackOnly
  <2>2. GoesOn
    BY <1>0, <1>6 DEF RollbackLift, Receipt, At, Goto, GoesOn, Txns, RollbackOnly
  <2>3. Remembers
    BY <1>0, <1>6, <2>1 DEF Remembers, RollbackLift, Receipt, None
  <2> QED BY <1>1, <1>3, <2>1, <2>2, <2>3
<1>7. ASSUME Quiescent \/ RestoreStranded \/ CheckFails \/ Source \/ Freeze \/ Lift \/ Unlink \/ Activate
             \/ Answered("breakerWait", "freeze", "end") \/ Answered("openWait", "saveFailure", "end")
      PROVE  BreakerInv'
  <2>1. UNCHANGED <<lkg, breaker, live, stray, root, reqs, torn, rlift>> /\ txn.pc \notin Moving
    BY <1>7 DEF Quiescent, RestoreStranded, CheckFails, Source, Freeze, Lift, Unlink, Activate, Answered,
                StepOnly, StepDisk, At, control, host, disk, hist, Moving, RollbackOnly
  <2>2. GoesOn
    <3> USE <1>0 DEF At, Goto, GoesOn, Txns, RollbackOnly
    <3>1. CASE Quiescent
      BY <3>1 DEF Quiescent
    <3>2. CASE RestoreStranded
      BY <3>2 DEF RestoreStranded
    <3>3. CASE CheckFails
      BY <3>3 DEF CheckFails
    <3>4. CASE Source
      BY <3>4 DEF Source
    <3>5. CASE Freeze
      <4>1. At("freeze") /\ (Goto("preflight") \/ Goto("lift"))
        BY <3>5 DEF Freeze
      <4> QED BY <4>1
    <3>6. CASE Lift
      BY <3>6 DEF Lift
    <3>7. CASE Unlink \/ Activate
      BY <3>7 DEF Unlink, Activate
    <3>8. CASE Answered("breakerWait", "freeze", "end")
      BY <3>8 DEF Answered
    <3>9. CASE Answered("openWait", "saveFailure", "end")
      BY <3>9 DEF Answered
    <3> QED BY <1>7, <3>1, <3>2, <3>3, <3>4, <3>5, <3>6, <3>7, <3>8, <3>9
  <2> QED BY <1>1, <1>2, <1>3, <2>1, <2>2
<1>8. ASSUME Preflight \/ Start \/ SaveFailure \/ End \/ Consume PROVE BreakerInv'
  <2>1. UNCHANGED <<lkg, breaker, live, stray, root, reqs, torn, rlift>> /\ txn.pc \notin Moving
    BY <1>8 DEF Preflight, Start, SaveFailure, End, Consume, StepRecs, StepDisk, At, control, host, hist,
                Moving, RollbackOnly
  <2>2. GoesOn
    <3> USE <1>0 DEF At, Goto, GoesOn, Txns, RollbackOnly
    <3>1. CASE Preflight
      BY <3>1 DEF Preflight
    <3>2. CASE Start
      BY <3>2 DEF Start
    <3>3. CASE SaveFailure \/ Consume
      BY <3>3 DEF SaveFailure, Consume
    <3>4. CASE End
      BY <3>4 DEF End
    <3> QED BY <1>8, <3>1, <3>2, <3>3, <3>4
  <2> QED BY <1>1, <1>2, <1>3, <2>1, <2>2
<1>9. ASSUME RollbackUnlink PROVE BreakerInv'
  <2>1. UNCHANGED <<lkg, breaker, live, stray, root, reqs, torn, rlift>> /\ txn.pc = "runlink"
    BY <1>9 DEF RollbackUnlink, StepDisk, At, control, host, hist
  <2>2. txn.kind = "rollback"
    BY <2>1 DEF LiftInv, FlowInv, Aligning
  <2>3. GoesOn
    BY <1>0, <1>9, <2>1, <2>2 DEF RollbackUnlink, GoesOn, Txns
  <2> QED BY <1>1, <1>2, <1>3, <2>1, <2>3 DEF Moving, RollbackOnly
<1>10. ASSUME Breaker PROVE BreakerInv'
  <2>1. UNCHANGED <<lkg, breaker, live, stray, root, torn, rlift>> /\ txn.pc \notin Moving
    BY <1>10 DEF Breaker, Submit, StepOnly, At, control, host, disk, hist, Moving, RollbackOnly
  <2>2. GoesOn
    <3>1. At("breaker") /\ (Goto("freeze") \/ txn' = [txn EXCEPT !.pc = "breakerWait", !.reply = None])
      BY <1>10 DEF Breaker, Submit
    <3>2. txn'.pc \in {"freeze", "breakerWait"} /\ txn'.kind = txn.kind /\ txn'.c = txn.c
      BY <1>0, <3>1 DEF Goto, Txns
    <3> QED BY <3>1, <3>2 DEF At, GoesOn, RollbackOnly
  <2>3. reqs \subseteq reqs'
    BY <1>10 DEF Breaker, Submit, StepOnly, control
  <2>4. OpenPending => OpenPending'
    BY <2>3 DEF OpenPending
  <2> QED BY <1>1, <1>2, <2>1, <2>2, <2>4
<1>11. ASSUME NEW wait \in {"breakerWait", "openWait"}, TimedOut(wait, "end") PROVE BreakerInv'
  <2>1. UNCHANGED <<lkg, breaker, live, stray, torn, rlift>> /\ txn.pc \notin Moving /\ Abandon
    BY <1>11 DEF TimedOut, At, disk, hist, Abandon, Moving, RollbackOnly
  <2>2. GoesOn
    BY <1>0, <1>11 DEF TimedOut, At, GoesOn, Txns, RollbackOnly
  <2>3. root'.act = root.act /\ root'.rev = root.rev /\ root'.policy = root.policy
    BY <1>0, <2>1 DEF Abandon, Jobs, NoJob
  <2>4. ASSUME NEW q \in reqs, q.act = "open" PROVE OpenPending'
    <3>1. [q EXCEPT !.awaited = FALSE] \in reqs'
      BY <2>1 DEF Abandon
    <3>2. [q EXCEPT !.awaited = FALSE].act = "open"
      BY <1>0, <2>4 DEF Requests
    <3> QED BY <3>1, <3>2 DEF OpenPending
  <2>5. OpenPending => OpenPending'
    BY <2>4 DEF OpenPending
  <2> QED BY <1>1, <1>2, <2>1, <2>2, <2>3, <2>5
<1>12. ASSUME RollbackCheckFails PROVE BreakerInv'
  <2>1. UNCHANGED <<torn, rlift>> /\ txn.pc \in {"align", "ropen"} /\ Goto("end")
    BY <1>12 DEF RollbackCheckFails, StepOnly, disk, hist
  <2>2. txn.kind = "rollback"
    BY <2>1 DEF LiftInv, FlowInv, Aligning, BreakerInv, KindInv, RollbackOnly
  <2>3. GoesOn
    BY <1>0, <2>1, <2>2 DEF Goto, GoesOn, Txns
  <2> QED BY <1>2, <2>1, <2>2, <2>3, MovingKept
<1>13. ASSUME Ungate PROVE BreakerInv'
  <2>1. UNCHANGED <<txn, lkg, breaker, live, stray, root, reqs, torn, rlift>>
    BY <1>13 DEF Ungate, control, host, disk, hist
  <2>2. Remembers /\ (OpenPending => OpenPending')
    BY <1>2, <1>3, <2>1
  <2>3. KindInv'
    BY <2>1, <2>2, KindKept DEF BreakerInv
  <2> QED BY <2>1, <2>2, <2>3, CoverKept
<1> QED BY <1>4, <1>5, <1>6, <1>7, <1>8, <1>9, <1>10, <1>11, <1>12, <1>13

(* The steps that move the surfaces, or that a rollback takes.             *)
LEMMA MovingSteps ==
  ASSUME TypeInv, BreakerInv,
         \/ StagePolicy \/ DeploySurface("runtime", "mcp") \/ DeploySurface("mcp", "host")
         \/ At("host") /\ SubmitHost(txn.c, "hostWait")
         \/ Answered("hostWait", "manager", "undoMcp") \/ TimedOut("hostWait", "undoMcp")
         \/ InstallManager \/ Verify
         \/ At("commit") /\ Submit("set_last_known_good", txn.c, "commitWait")
         \/ Answered("commitWait", "close", "undoMcp") \/ TimedOut("commitWait", "undoMcp")
         \/ HelperFails
         \/ UndoSurface("undoMcp", "mcp", "undoHost") \/ UndoSurfaceFails("undoMcp", "mcp", "undoHost")
         \/ UndoSurface("undoRuntime", "runtime", "undoVerify")
         \/ UndoSurfaceFails("undoRuntime", "runtime", "undoVerify")
         \/ UndoHost \/ UndoHostDone \/ UndoHostTimedOut \/ UndoManager \/ UndoManagerFails
         \/ UndoPolicy \/ UndoPolicyFails \/ UndoVerify(~txn.err /\ Complete(Base)) \/ UndoVerify(FALSE)
         \/ RollbackSave
         \/ At("ropen") /\ Submit("open", txn.c, "ropenWait")
         \/ Answered("ropenWait", "undoMcp", "end") \/ TimedOut("ropenWait", "end")
         \/ At("rcommit") /\ Submit("set_last_known_good", Base, "rcommitWait")
         \/ Answered("rcommitWait", "rsave", "end") \/ TimedOut("rcommitWait", "end")
         \/ At("rclose") /\ Submit("open", txn.c, "rcloseWait")
         \/ Answered("rcloseWait", "end", "end") \/ TimedOut("rcloseWait", "end")
  PROVE  BreakerInv'
<1>0. /\ txn \in Txns /\ txn.rec \in Recs /\ KindInv
      /\ txn.pc # "idle" => txn.kind \in {"deploy", "rollback"}
  BY DEF TypeInv, TxnOK, Txns, BreakerInv
<1>1. ASSUME UNCHANGED <<torn, rlift>>, GoesOn, txn.kind = "deploy" => txn'.pc \in Moving PROVE BreakerInv'
  <2>1. Remembers
    BY <1>1 DEF Remembers
  <2> QED BY <1>1, <2>1, MovingKept
<1> USE DEF At, Moving, RollbackOnly
<1>2. ASSUME StagePolicy PROVE BreakerInv'
  <2> DEFINE agrees == live["policy"] \in {IF prior[txn.c] = Unset THEN live["policy"] ELSE prior[txn.c], txn.c}
  <2>1. /\ txn' = IF agrees THEN [txn EXCEPT !.pc = "runtime", !.att = @ \cup {"policy"}]
                            ELSE [txn EXCEPT !.pc = "undoMcp"]
        /\ txn.pc = "policy" /\ UNCHANGED <<torn, rlift>>
    BY <1>2 DEF StagePolicy, hist
  <2> HIDE DEF agrees
  <2> QED BY <1>0, <1>1, <2>1 DEF GoesOn, Txns
<1>3. ASSUME DeploySurface("runtime", "mcp") \/ DeploySurface("mcp", "host") \/ HelperFails PROVE BreakerInv'
  <2>1. UNCHANGED <<torn, rlift>>
    BY <1>3 DEF DeploySurface, HelperFails, StepLive, disk, hist
  <2>2. GoesOn /\ txn'.pc \in Moving
    BY <1>0, <1>3 DEF DeploySurface, HelperFails, GoesOn, Txns
  <2> QED BY <1>1, <2>1, <2>2
<1>4. ASSUME NEW act, NEW rev, NEW p \in {"commit", "ropen", "rcommit", "rclose"},
             NEW wait \in {"commitWait", "ropenWait", "rcommitWait", "rcloseWait"},
             At(p), Submit(act, rev, wait), (p = "commit") <=> (wait = "commitWait")
      PROVE  BreakerInv'
  <2>1. UNCHANGED <<torn, rlift>>
    BY <1>4 DEF Submit, disk, hist
  <2>2. GoesOn /\ txn'.pc \in Moving
    BY <1>0, <1>4 DEF Submit, GoesOn, Txns, KindInv
  <2> QED BY <1>1, <2>1, <2>2
<1>5. ASSUME NEW rev, NEW wait \in {"hostWait", "undoHostWait"}, txn.pc # "idle", SubmitHost(rev, wait)
      PROVE  BreakerInv'
  <2>1. UNCHANGED <<torn, rlift>>
    BY <1>5 DEF SubmitHost, disk, hist
  <2>2. GoesOn /\ txn'.pc \in Moving
    BY <1>0, <1>5 DEF SubmitHost, GoesOn, Txns
  <2> QED BY <1>1, <2>1, <2>2
<1>6. ASSUME Answered("hostWait", "manager", "undoMcp") \/ TimedOut("hostWait", "undoMcp")
             \/ Answered("commitWait", "close", "undoMcp") \/ TimedOut("commitWait", "undoMcp")
             \/ Verify
      PROVE  BreakerInv'
  <2>1. UNCHANGED <<torn, rlift>>
    BY <1>6 DEF Answered, TimedOut, Verify, StepOnly, disk, hist
  <2>2. GoesOn /\ txn'.pc \in Moving
    BY <1>0, <1>6 DEF Answered, TimedOut, Verify, Goto, GoesOn, Txns
  <2> QED BY <1>1, <2>1, <2>2
<1>7. ASSUME InstallManager PROVE BreakerInv'
  <2>1. UNCHANGED <<torn, rlift>> /\ txn.pc = "manager"
    BY <1>7 DEF InstallManager, StepLive, disk, hist
  <2>2. CASE live["host"] = txn.c
    <3>1. txn' = [txn EXCEPT !.pc = "verify", !.att = @ \cup {"manager"}]
      BY <1>7, <2>2 DEF InstallManager
    <3> QED BY <1>0, <1>1, <2>1, <3>1 DEF GoesOn, Txns
  <2>3. CASE live["host"] # txn.c
    <3>1. txn' = [txn EXCEPT !.pc = "undoMcp"]
      BY <1>7, <2>3 DEF InstallManager, Goto
    <3> QED BY <1>0, <1>1, <2>1, <3>1 DEF GoesOn, Txns
  <2> QED BY <2>2, <2>3
<1>8. ASSUME NEW next \in Moving \ RollbackOnly, Goto(next) \/ UndoError(next), txn.pc # "idle",
             UNCHANGED <<torn, rlift>>
      PROVE  BreakerInv'
  <2>1. GoesOn /\ (txn.kind = "deploy" => txn'.pc \in Moving)
    BY <1>0, <1>8 DEF Goto, UndoError, GoesOn, Txns
  <2> QED BY <1>1, <1>8, <2>1
<1>9. ASSUME UndoSurface("undoMcp", "mcp", "undoHost") \/ UndoSurfaceFails("undoMcp", "mcp", "undoHost")
             \/ UndoSurface("undoRuntime", "runtime", "undoVerify")
             \/ UndoSurfaceFails("undoRuntime", "runtime", "undoVerify")
             \/ UndoHostDone \/ UndoHostTimedOut \/ UndoManager \/ UndoManagerFails
             \/ UndoPolicy \/ UndoPolicyFails
      PROVE  BreakerInv'
  <2>1. UNCHANGED <<torn, rlift>> /\ txn.pc # "idle"
    BY <1>9 DEF UndoSurface, UndoSurfaceFails, UndoHostDone, UndoHostTimedOut, UndoManager, UndoManagerFails,
                UndoPolicy, UndoPolicyFails, StepOnly, StepLive, disk, hist
  <2>2. \E next \in {"undoHost", "undoVerify", "undoManager", "undoPolicy", "undoRuntime"} :
           Goto(next) \/ UndoError(next)
    BY <1>9 DEF UndoSurface, UndoSurfaceFails, UndoHostDone, UndoHostTimedOut, UndoManager, UndoManagerFails,
                UndoPolicy, UndoPolicyFails
  <2> QED BY <1>8, <2>1, <2>2
<1>10. ASSUME UndoHost PROVE BreakerInv'
  <2>1. CASE Goto("undoManager") /\ StepOnly
    BY <1>8, <1>10, <2>1 DEF UndoHost, StepOnly, disk, hist
  <2>2. CASE SubmitHost(Base, "undoHostWait")
    BY <1>5, <1>10, <2>2 DEF UndoHost
  <2> QED BY <1>10, <2>1, <2>2 DEF UndoHost
<1>11. ASSUME NEW ok, UndoVerify(ok) PROVE BreakerInv'
  <2>1. UNCHANGED <<torn, rlift>> /\ txn.pc = "undoVerify"
    BY <1>11 DEF UndoVerify, StepOnly, disk, hist
  <2>2. CASE txn.kind = "deploy"
    <3> DEFINE st == IF ok THEN "rolled_back" ELSE "failed"
    <3>1. txn' = [txn EXCEPT !.pc = "open", !.rec.state = st]
      BY <1>11, <2>2 DEF UndoVerify
    <3> HIDE DEF st
    <3> QED BY <1>0, <1>1, <2>1, <3>1 DEF GoesOn, Txns
  <2>3. CASE txn.kind # "deploy"
    <3> DEFINE next == IF ok THEN "rcommit" ELSE "end"
    <3>1. txn' = [txn EXCEPT !.pc = next]
      BY <1>11, <2>3 DEF UndoVerify
    <3> HIDE DEF next
    <3> QED BY <1>0, <1>1, <2>1, <2>3, <3>1 DEF GoesOn, Txns
  <2> QED BY <2>2, <2>3
<1>12. ASSUME RollbackSave
             \/ Answered("ropenWait", "undoMcp", "end") \/ TimedOut("ropenWait", "end")
             \/ Answered("rcommitWait", "rsave", "end") \/ TimedOut("rcommitWait", "end")
             \/ Answered("rcloseWait", "end", "end") \/ TimedOut("rcloseWait", "end")
       PROVE BreakerInv'
  <2>1. UNCHANGED <<torn, rlift>> /\ txn.pc \in RollbackOnly
    BY <1>12 DEF RollbackSave, Answered, TimedOut, StepRecs, StepDisk, StepOnly, disk, hist
  <2>2. txn.kind = "rollback"
    BY <1>0, <2>1 DEF KindInv
  <2>3. GoesOn
    BY <1>0, <1>12, <2>1, <2>2 DEF RollbackSave, Answered, TimedOut, Goto, GoesOn, Txns
  <2> QED BY <1>1, <2>1, <2>2, <2>3
<1> QED BY <1>2, <1>3, <1>4, <1>5, <1>6, <1>7, <1>9, <1>10, <1>11, <1>12

(* A deployment leaves those places by closing its record or by asking     *)
(* root to open the breaker.                                               *)
LEMMA LeavingSteps ==
  ASSUME TypeInv, GoodInv, BreakerInv, Close \/ (At("open") /\ Submit("open", txn.c, "openWait"))
  PROVE  BreakerInv'
<1>0. txn \in Txns /\ txn.rec \in Recs /\ KindInv
  BY DEF TypeInv, TxnOK, Txns, BreakerInv
<1>1. Remembers
  BY DEF Close, Submit, StepRecs, StepDisk, Remembers, disk, hist
<1>2. CASE Close
  <2>1. UNCHANGED <<lkg, breaker, root, live, stray>> /\ txn.pc = "close"
    BY <1>2 DEF Close, StepRecs, StepDisk, control, host, At
  <2>2. txn' = [txn EXCEPT !.pc = "end", !.rec.state = "closed"]
    BY <1>2 DEF Close
  <2>3. GoesOn
    BY <1>0, <2>1, <2>2 DEF GoesOn, Txns, RollbackOnly
  <2>4. RunsAt(txn.c, txn.c) /\ RootAt(txn.c)
    BY <2>1 DEF GoodInv, DeployInv, AfterRuntime, AfterMcp, AfterVerify, AfterPolicy, RunsAt
  <2>5. Covered'
    BY <2>1, <2>4 DEF Covered, RunsAt, RootAt
  <2> QED BY <1>0, <1>1, <2>3, <2>5, KindKept DEF BreakerInv
<1>3. CASE At("open") /\ Submit("open", txn.c, "openWait")
  <2> DEFINE n == [act |-> "open", rev |-> txn.c, awaited |-> TRUE]
  <2>1. reqs' = reqs \cup {n} /\ n.act = "open" /\ txn.pc = "open"
    BY <1>3 DEF Submit, At
  <2>2. OpenPending'
    BY <2>1 DEF OpenPending
  <2>3. GoesOn
    BY <1>0, <1>3, <2>1 DEF Submit, GoesOn, Txns, RollbackOnly
  <2>4. Covered'
    BY <2>2 DEF Covered
  <2> QED BY <1>0, <1>1, <2>3, <2>4, KindKept DEF BreakerInv
<1> QED BY <1>2, <1>3

(* Root accepts only what is true of production, and one request at a time,*)
(* so that a request to open the breaker comes after what it has accepted. *)
LEMMA BreakerWorkers ==
  ASSUME TypeInv, GoodInv, BreakerInv,
         (\E q \in reqs : RootPick(q) \/ RootDrift(q)) \/ RootCommit \/ HostPick \/ HostDone \/ HostFails
  PROVE  BreakerInv'
<1>0. /\ txn \in Txns /\ live \in [Surfaces -> Revs \cup {Broken}] /\ reqs \subseteq Requests
      /\ root \in Jobs \cup {NoJob} /\ NoJob.act = None
      /\ hjob \in [rev : Revs, awaited : BOOLEAN, on : BOOLEAN]
  BY DEF TypeInv, TxnOK, LiveOK, ControlOK, HostOK, NoJob
<1>1. UNCHANGED <<torn, rlift>>
  BY DEF RootPick, RootDrift, RootCommit, HostPick, HostDone, HostFails, disk, hist
<1>2. Remembers /\ (Undisturbed' <=> Undisturbed)
  BY <1>1 DEF Remembers, Undisturbed
<1>3. txn'.pc = txn.pc /\ txn'.kind = txn.kind /\ txn'.c = txn.c
  <2>1. \A q, t : Reply(q, t).pc = txn.pc /\ Reply(q, t).kind = txn.kind /\ Reply(q, t).c = txn.c
    BY <1>0 DEF Reply, Txns
  <2>2. txn' = txn \/ \E q, t : txn' = Reply(q, t)
    BY DEF RootPick, RootDrift, RootCommit, HostPick, HostDone, HostFails
  <2> QED BY <2>1, <2>2
<1>4. KindInv'
  BY <1>2, <1>3, KindKept DEF BreakerInv
<1>5. ASSUME Undisturbed /\ txn.pc \notin Moving => Covered' PROVE BreakerInv'
  BY <1>2, <1>3, <1>4, <1>5 DEF BreakerInv
<1>6. ASSUME HostPick \/ HostDone \/ HostFails PROVE BreakerInv'
  <2>1. UNCHANGED <<lkg, breaker, root, reqs>>
    BY <1>6 DEF HostPick, HostDone, HostFails, control
  <2>2. live' = live \/ \E v : live' = [live EXCEPT !["host"] = v]
    BY <1>6 DEF HostPick, HostDone, HostFails
  <2>3. \A s \in {"runtime", "mcp", "manager", "policy"} : live'[s] = live[s]
    BY <1>0, <2>2 DEF Surfaces
  <2>4. OpenPending => OpenPending'
    BY <2>1 DEF OpenPending
  <2>5. ASSUME txn.pc \notin Moving PROVE ~stray' => ~stray /\ live'["host"] = live["host"]
    <3>1. ~hjob.awaited
      BY <2>5 DEF GoodInv, WaitInv, HostWaitInv, AwaitsHost, HostWaits, Moving
    <3>2. CASE HostPick
      BY <3>2 DEF HostPick
    <3>3. CASE HostDone \/ HostFails
      <4>1. stray' = ~hjob.awaited
        BY <3>3 DEF HostDone, HostFails
      <4> QED BY <3>1, <4>1
    <3> QED BY <1>6, <3>2, <3>3
  <2> QED BY <1>2, <1>3, <1>4, <2>1, <2>3, <2>4, <2>5, CoverKept
<1>7. ASSUME RootCommit, Undisturbed, txn.pc \notin Moving PROVE Covered'
  <2>1. Covered
    BY <1>7 DEF BreakerInv
  <2>2. root' = NoJob /\ UNCHANGED <<live, stray, reqs>> /\ root # NoJob
    BY <1>7 DEF RootCommit, host
  <2>3. root.act \in {"open", "revalidate", "set_last_known_good"}
    BY <1>0, <2>2 DEF Jobs
  <2>4. OpenPending' <=> OpenPending
    BY <2>2 DEF OpenPending
  <2>5. root'.act = None
    BY <1>0, <2>2
  <2>6. CASE root.act = "open"
    <3>1. breaker' = "open"
      BY <1>7, <2>6 DEF RootCommit
    <3> QED BY <2>5, <3>1 DEF Covered, None
  <2>7. CASE root.act = "revalidate"
    <3>1. lkg' = lkg
      BY <1>7, <2>7 DEF RootCommit
    <3> QED BY <2>1, <2>2, <2>4, <2>5, <2>7, <3>1 DEF Covered, RunsAt, None
  <2>8. CASE root.act = "set_last_known_good"
    <3>1. lkg'.rev = root.rev /\ lkg'.policy = root.policy
      BY <1>7, <2>8 DEF RootCommit
    <3> QED BY <2>1, <2>2, <2>4, <2>5, <2>8, <3>1 DEF Covered, RunsAt, None
  <2> QED BY <2>3, <2>6, <2>7, <2>8
<1>8. ASSUME NEW q \in reqs, RootPick(q) \/ RootDrift(q), Undisturbed, txn.pc \notin Moving PROVE Covered'
  <2>1. Covered
    BY <1>8 DEF BreakerInv
  <2>2. root = NoJob /\ reqs' = reqs \ {q} /\ UNCHANGED <<live, stray, lkg, breaker>>
    BY <1>8 DEF RootPick, RootDrift, host
  <2>3. q.act \in {"open", "revalidate", "set_last_known_good"}
    BY <1>0 DEF Requests
  <2>4. CASE root' = root /\ q.act # "open"
    <3>1. OpenPending => OpenPending'
      BY <2>2, <2>4 DEF OpenPending
    <3> QED BY <1>0, <2>1, <2>2, <2>4, <3>1 DEF Covered, RunsAt, None
  <2>5. CASE root' = Verified(q) /\ RootAccepts(q)
    <3>0. root'.act = q.act /\ root'.rev = q.rev /\ root'.policy = live["policy"]
      BY <2>5 DEF Verified
    <3>1. CASE q.act = "open"
      BY <3>0, <3>1 DEF Covered
    <3>2. CASE q.act # "open"
      <4>1. OpenPending => OpenPending'
        BY <2>2, <3>2 DEF OpenPending
      <4>2. q.act = "revalidate" => RunsAt(lkg.rev, lkg.policy)
        BY <2>5 DEF RootAccepts, Complete, Aligned, RunsAt
      <4>3. q.act = "set_last_known_good" => RunsAt(q.rev, live["policy"])
        BY <2>5 DEF RootAccepts, Complete, Aligned, RunsAt
      <4>4. RunsAt(lkg.rev, lkg.policy) \/ breaker = "open" \/ OpenPending
        BY <1>0, <2>1, <2>2 DEF Covered, None
      <4> QED BY <2>2, <2>3, <3>0, <3>2, <4>1, <4>2, <4>3, <4>4 DEF Covered, RunsAt
    <3> QED BY <3>1, <3>2
  <2>6. RootAccepts(q) \/ q.act # "open"
    BY DEF RootAccepts
  <2> QED BY <1>8, <2>4, <2>5, <2>6 DEF RootPick, RootDrift
<1> QED BY <1>5, <1>6, <1>7, <1>8

(* The lock is taken, or lost; preparation and the owner's commands.       *)
LEMMA BreakerOutside ==
  ASSUME TypeInv, LiftInv, BreakerInv,
         \/ \E c \in Revs : \/ CreateRecord(c) \/ Preproduction(c) \/ Approve(c)
                             \/ OwnerUnfreeze(c) \/ ManualLoad(c) \/ RollbackClosed(c)
         \/ PrepareRevalidate \/ DeskSave \/ OwnerFreeze \/ Merge \/ TimerScan \/ TimerDemote \/ Busy
         \/ EngStart \/ EngGate \/ EngIs("admitted", "active") \/ EngIs("active", "inactive")
         \/ Acquire \/ Kill \/ Reboot \/ UNCHANGED vars
  PROVE  BreakerInv'
<1>0. /\ txn \in Txns /\ txn.c \in Revs /\ reqs \subseteq Requests /\ root \in Jobs \cup {NoJob}
      /\ rlift \in [Revs -> {None, "pending", "active", "returned", "finished"}]
      /\ live \in [Surfaces -> Revs \cup {Broken}] /\ torn \subseteq {"deploy", "rollback"}
      /\ NoJob.act = None /\ Idle \in Txns
  BY EmptyTypes DEF TypeInv, TxnOK, ControlOK, DiskOK, LiveOK, RestOK, Txns, NoJob
<1>1. CASE \/ \E c \in Revs : \/ CreateRecord(c) \/ Preproduction(c) \/ Approve(c)
                               \/ OwnerUnfreeze(c) \/ ManualLoad(c)
           \/ PrepareRevalidate \/ DeskSave \/ OwnerFreeze \/ Merge \/ TimerScan \/ TimerDemote \/ Busy
           \/ EngStart \/ EngGate \/ EngIs("admitted", "active") \/ EngIs("active", "inactive")
           \/ UNCHANGED vars
  <2>1. UNCHANGED <<txn, live, stray, lkg, breaker, root, rlift, torn>> /\ reqs \subseteq reqs'
    BY <1>1 DEF CreateRecord, Preproduction, Approve, OwnerUnfreeze, ManualLoad, PrepareRevalidate,
         DeskSave, OwnerFreeze, Merge, TimerScan, TimerDemote, Busy, EngStart, EngGate, EngIs, vars,
         control, host, disk, hist
  <2>2. Remembers /\ (OpenPending => OpenPending')
    BY <2>1 DEF Remembers, OpenPending
  <2>3. KindInv'
    BY <2>1, <2>2, KindKept DEF BreakerInv
  <2> QED BY <2>1, <2>2, <2>3, CoverKept
<1>2. CASE Acquire
  <2>1. UNCHANGED <<live, stray, lkg, breaker, root, reqs, rlift, torn>> /\ txn.pc = "idle"
    BY <1>2 DEF Acquire, Locked, control, host, disk
  <2>2. txn'.pc = "gate" /\ txn'.kind = "deploy"
    <3>1. txn' = [Idle EXCEPT !.pc = "gate", !.kind = "deploy", !.c = loaded.c, !.rec = loaded.rec]
      BY <1>2 DEF Acquire
    <3> QED BY <1>0, <3>1 DEF Txns
  <2>3. Remembers /\ (OpenPending => OpenPending') /\ KindInv'
    BY <2>1, <2>2 DEF Remembers, OpenPending, KindInv, RollbackOnly, None
  <2> QED BY <2>1, <2>2, <2>3, CoverKept DEF Moving, RollbackOnly
<1>3. ASSUME NEW c \in Revs, RollbackClosed(c) PROVE BreakerInv'
  <2>1. rlift' = [rlift EXCEPT ![c] = "pending"] /\ torn' = torn
    BY <1>3 DEF RollbackClosed
  <2>2. Remembers /\ rlift'[c] = "pending"
    BY <1>0, <2>1 DEF Remembers, None
  <2>3. ~Undisturbed'
    BY <2>2 DEF Undisturbed, None
  <2>4. CASE txn' = txn
    BY <2>2, <2>3, <2>4, KindKept DEF BreakerInv
  <2>5. CASE txn' = [Idle EXCEPT !.pc = "gate", !.kind = "rollback", !.c = c, !.rec = recs[c]]
    <3>1. txn'.pc = "gate" /\ txn'.kind = "rollback" /\ txn'.c = c
      BY <1>0, <2>5 DEF Txns
    <3>2. KindInv'
      BY <2>2, <3>1 DEF KindInv, None
    <3> QED BY <2>3, <3>2 DEF BreakerInv
  <2> QED BY <1>3, <2>4, <2>5 DEF RollbackClosed
<1>4. ASSUME Kill \/ Reboot, txn.pc # "idle" PROVE BreakerInv'
  <2>1. txn' = Idle /\ torn' = torn \cup ({txn.kind} \ {None}) /\ rlift' = rlift
    BY <1>4 DEF Kill, Reboot, disk
  <2>2. Remembers /\ torn' # {}
    BY <1>4, <2>1 DEF Remembers, BreakerInv, KindInv
  <2> QED BY <2>1, <2>2, KindKept DEF BreakerInv, Undisturbed
<1>5. ASSUME Reboot, txn.pc = "idle" PROVE BreakerInv'
  <2>1. txn.kind = None
    BY <1>5 DEF LiftInv, FlowInv
  <2>2. txn' = Idle /\ torn' = torn /\ rlift' = rlift /\ UNCHANGED <<lkg, breaker>> /\ root' = NoJob
    BY <1>5, <2>1 DEF Reboot, disk
  <2>3. /\ \A s \in {"runtime", "mcp", "manager", "policy"} : live'[s] = live[s]
        /\ ~stray' => ~stray /\ live'["host"] = live["host"]
    <3>1. \E v : live' = [live EXCEPT !["host"] = v] /\ (~hjob.on => v = live["host"])
      BY <1>5 DEF Reboot
    <3>2. stray' = (stray \/ hjob.on)
      BY <1>5 DEF Reboot
    <3> QED BY <1>0, <3>1, <3>2 DEF Surfaces
  <2>4. Remembers /\ (Undisturbed' <=> Undisturbed)
    BY <2>2 DEF Remembers, Undisturbed
  <2>5. KindInv'
    BY <2>2, <2>4, KindKept DEF BreakerInv
  <2>6. ASSUME NEW q \in reqs \cup {root}, q.act = "open" PROVE OpenPending'
    <3> DEFINE n == [act |-> q.act, rev |-> q.rev, awaited |-> FALSE]
    <3>1. q # NoJob
      BY <1>0, <2>6 DEF None
    <3>2. n \in reqs'
      BY <1>5, <2>6, <3>1 DEF Reboot
    <3>3. n.act = "open"
      BY <2>6
    <3> QED BY <3>2, <3>3 DEF OpenPending
  <2>7. ASSUME Undisturbed PROVE Covered'
    <3>1. Covered
      BY <1>5, <2>7 DEF BreakerInv, Moving, RollbackOnly
    <3>2. RunsAt(lkg.rev, lkg.policy) \/ breaker = "open" \/ OpenPending'
      BY <2>6, <3>1 DEF Covered, OpenPending
    <3> QED BY <1>0, <2>2, <2>3, <3>2 DEF Covered, RunsAt, None
  <2> QED BY <2>4, <2>5, <2>7 DEF BreakerInv
<1>6. CASE Kill
  BY <1>4, <1>6 DEF Kill, Locked
<1> QED BY <1>1, <1>2, <1>3, <1>4, <1>5, <1>6

\* The breaker is closed over a baseline production.
LEMMA BreakerInit == Init => BreakerInv
<1> SUFFICES ASSUME Init PROVE BreakerInv
  OBVIOUS
<1>1. KindInv
  BY EmptyTypes DEF Init, KindInv, RollbackOnly, None
<1>2. Covered
  BY DEF Init, Covered, RunsAt, Surfaces, NoJob, None
<1> QED BY <1>1, <1>2 DEF BreakerInv

\* Every step leaves a closed breaker over a production that agrees with its record.
LEMMA BreakerStep == TypeInv /\ LiftInv /\ GoodInv /\ BreakerInv /\ [Next]_vars => BreakerInv'
<1> SUFFICES ASSUME TypeInv, LiftInv, GoodInv, BreakerInv, [Next]_vars PROVE BreakerInv'
  OBVIOUS
<1>1. CASE UNCHANGED vars
  BY <1>1, BreakerOutside
<1>2. CASE Transaction
  BY <1>2, SettledSteps, MovingSteps, LeavingSteps DEF Transaction
<1>3. CASE Normal
  BY <1>2, <1>3, BreakerWorkers, BreakerOutside DEF Normal
<1>4. CASE TransactionFault
  BY <1>4, SettledSteps, MovingSteps DEF TransactionFault
<1>5. CASE Fault
  BY <1>4, <1>5, BreakerWorkers, BreakerOutside DEF Fault
<1> QED BY <1>1, <1>3, <1>5 DEF Next

(* With nothing pending at root, a closed breaker means that production    *)
(* and its approval policy are at last known good, however deployments     *)
(* have failed and however late root has answered; of the host it is said  *)
(* unless the job that touched it last came after everybody had stopped    *)
(* waiting, and kills and rollbacks of accepted releases are excepted      *)
(* (apply_transition, live_production_alignment).                          *)
THEOREM BreakerMeansConverged == Spec => []BreakerGuards
<1>1. BreakerInv => BreakerGuards
  BY DEF BreakerInv, BreakerGuards, NothingPending, Converged, Undisturbed, Covered, RunsAt, OpenPending,
         Locked, Moving, RollbackOnly, NoJob, None
<1> QED BY <1>1, BreakerInit, BreakerStep, LiftAlways, GoodAlways, PTL DEF Spec
=============================================================================
