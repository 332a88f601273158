----------------------------- MODULE ArchiveStore -----------------------------
(***************************************************************************)
(* The files behind the archive (archive.py): archive.jsonl in the         *)
(* workspace, its mirror under EVOLVE_HOME, and a receipts file beside each. *)
(* The owner of the workspace lock (a run, or one agent command) appends    *)
(* and runs operators under the guard that puts the files back             *)
(* (driver.py).  Every process that looks at the archive first             *)
(* synchronises the two copies; readers do so without the lock.            *)
(*                                                                         *)
(* One action is one read or write of one file.  A rewrite through a       *)
(* temporary file is one action, a plain rewrite is two: truncated, then   *)
(* filled.                                                                 *)
(***************************************************************************)
EXTENDS SequencesExt, Integers

CONSTANTS
    Workload,      \* the lines that are appended over time, as text
    Evaluations,   \* those among them that get a receipt
    Scaffold,      \* the line of generation 0
    Forged,        \* a line that only an operator writes
    Owner,         \* whoever holds the workspace lock
    Readers        \* processes that look at the archive without it

Files == {"local", "mirror"}
Lines == ToSet(Workload) \cup {Scaffold, Forged}
Processes == Readers \cup {Owner}

ASSUME WorkloadAssumption ==
    /\ Workload \in Seq(ToSet(Workload))
    /\ Evaluations \subseteq ToSet(Workload)
    /\ Forged \notin ToSet(Workload) \cup {Scaffold}
    /\ Scaffold \notin ToSet(Workload)
ASSUME ProcessAssumption == Owner \notin Readers

VARIABLES
    lines,      \* the text of each copy, <<>> when there is no file
    receipts,   \* the receipts beside each copy
    exists,     \* the copies that exist
    marker,     \* is the workspace id in the git directory?
    at,         \* where each process is
    held,       \* what each process has read and is about to write
    todo,       \* the plain rewrites it has still to make
    appended,   \* how many lines of the workload have been started
    ledger,     \* history: the lines that reached both copies, in order
    certified,  \* history: the receipts that reached both files
    synced,     \* history: no fault since the owner last synchronised
    single      \* history: never a crash before that, after an earlier fault

files == <<lines, receipts, exists, marker>>
process == <<at, held, todo>>
history == <<appended, ledger, certified, single>>
vars == <<files, process, history, synced>>

Line == Workload[appended]
NothingHeld == [lines |-> [f \in Files |-> <<>>], receipts |-> [f \in Files |-> {}]]

Goto(p, label) == at' = [at EXCEPT ![p] = label]

------------------------------------------------------------------------------
(* ensure_local_archive *)

(* The lines of a text at some places, in its order. *)
LinesAt(text, places) ==
    LET upTo[n \in 0..Len(text)] ==
            IF n = 0 THEN <<>>
            ELSE IF n \in places THEN Append(upTo[n - 1], text[n])
            ELSE upTo[n - 1]
    IN upTo[Len(text)]

NotSeenBefore(text) == {i \in DOMAIN text : \A j \in 1..(i - 1) : text[j] # text[i]}

(* Both files in turn, a line that was seen before left out. *)
Merge(first, second) == LinesAt(first \o second, NotSeenBefore(first \o second))

(* Where ensure_local_archive leaves its caller when it returns. *)
Returned(p) == IF p = Owner THEN "ready" ELSE "idle"

(* Deviation: a history without an owner does not stop the caller. *)
OrphanedMirrorIgnored == FALSE

(* A history under EVOLVE_HOME that nobody can attribute is refused. *)
OrphanedMirror == "mirror" \in exists

Synchronise(p) ==
    /\ at[p] = IF p = Owner THEN "locked" ELSE "idle"
    /\ IF ~marker /\ "local" \notin exists
       THEN /\ Goto(p, IF OrphanedMirror THEN "idle" ELSE Returned(p))
            /\ UNCHANGED marker
       ELSE /\ marker' = TRUE
            /\ Goto(p, IF exists = {} THEN Returned(p) ELSE "read")
    /\ UNCHANGED <<lines, receipts, exists, held, todo, history, synced>>

ReadLocal(p) ==
    /\ at[p] = "read"
    /\ held' = [held EXCEPT ![p].lines["local"] = lines["local"]]
    /\ Goto(p, "readmirror")
    /\ UNCHANGED <<files, todo, history, synced>>

(* Deviation: what the mirror has and the workspace has not is left out. *)
ReadMirrorWithoutMerging(p) ==
    /\ at[p] = "readmirror"
    /\ held' = [held EXCEPT ![p].lines =
                    [f \in Files |-> Merge(held[p].lines["local"], <<>>)]]
    /\ Goto(p, "replace")
    /\ UNCHANGED <<files, todo, history, synced>>

ReadMirror(p) ==
    /\ at[p] = "readmirror"
    /\ held' = [held EXCEPT ![p].lines =
                    [f \in Files |-> Merge(held[p].lines["local"], lines["mirror"])]]
    /\ Goto(p, "replace")
    /\ UNCHANGED <<files, todo, history, synced>>

(* _atomic_write_text *)
Replace(p, f) ==
    /\ at[p] = IF f = "local" THEN "replace" ELSE "replacemirror"
    /\ lines' = [lines EXCEPT ![f] = held[p].lines[f]]
    /\ exists' = exists \cup {f}
    /\ Goto(p, IF f = "local" THEN "replacemirror" ELSE "readreceipts")
    /\ UNCHANGED <<receipts, marker, held, todo, history, synced>>

(* Deviation: the receipts of the mirror are left out. *)
OwnReceipts == receipts["local"]

AllReceipts == receipts["local"] \cup receipts["mirror"]

(* _ensure_receipts.  The files of receipts are read one after the other;    *)
(* nothing a process does between the two reads makes the result smaller.     *)
ReadReceipts(p) ==
    /\ at[p] = "readreceipts"
    /\ held' = [held EXCEPT ![p].receipts = [f \in Files |-> AllReceipts]]
    /\ todo' = [todo EXCEPT ![p] =
                    IF AllReceipts = {} THEN <<>>
                    ELSE <<<<"receipts", "local">>, <<"receipts", "mirror">>>>]
    /\ Goto(p, "write")
    /\ UNCHANGED <<files, history, synced>>

(* A plain rewrite of the next file on the list. *)
Truncate(p) ==
    /\ at[p] = "write" /\ todo[p] # <<>>
    /\ LET kind == Head(todo[p])[1]
           f    == Head(todo[p])[2]
       IN  /\ lines' = IF kind = "lines" THEN [lines EXCEPT ![f] = <<>>] ELSE lines
           /\ exists' = IF kind = "lines" THEN exists \cup {f} ELSE exists
           /\ receipts' = IF kind = "receipts" THEN [receipts EXCEPT ![f] = {}]
                          ELSE receipts
    /\ Goto(p, "fill")
    /\ UNCHANGED <<marker, held, todo, history, synced>>

Fill(p) ==
    /\ at[p] = "fill"
    /\ LET kind == Head(todo[p])[1]
           f    == Head(todo[p])[2]
       IN  /\ lines' = IF kind = "lines" THEN [lines EXCEPT ![f] = held[p].lines[f]]
                       ELSE lines
           /\ receipts' = IF kind = "receipts"
                          THEN [receipts EXCEPT ![f] = held[p].receipts[f]]
                          ELSE receipts
    /\ todo' = [todo EXCEPT ![p] = Tail(@)]
    /\ Goto(p, "write")
    /\ UNCHANGED <<exists, marker, held, history, synced>>

Finish(p) ==
    /\ at[p] = "write" /\ todo[p] = <<>>
    /\ Goto(p, Returned(p))
    /\ held' = [held EXCEPT ![p] = NothingHeld]
    /\ synced' = (synced \/ p = Owner)
    /\ UNCHANGED <<files, todo, history>>

SynchroniseStep(p) ==
    \/ Synchronise(p) \/ ReadLocal(p) \/ ReadMirror(p)
    \/ \E f \in Files : Replace(p, f)
    \/ ReadReceipts(p) \/ Truncate(p) \/ Fill(p) \/ Finish(p)

------------------------------------------------------------------------------
(* The owner: workspace_run_lock around commands, append_event *)

(* The owner takes the lock, or looks at the archive again under it. *)
Lock ==
    /\ at[Owner] \in {"idle", "ready"}
    /\ Goto(Owner, "locked")
    /\ UNCHANGED <<files, held, todo, history, synced>>

Unlock ==
    /\ at[Owner] = "ready"
    /\ Goto(Owner, "idle")
    /\ UNCHANGED <<files, held, todo, history, synced>>

AddLine(f, line) ==
    /\ lines' = [lines EXCEPT ![f] = Append(@, line)]
    /\ exists' = exists \cup {f}

AppendLocal ==
    /\ at[Owner] = "ready" /\ appended < Len(Workload)
    /\ appended' = appended + 1
    /\ AddLine("local", Workload[appended + 1])
    /\ marker' = TRUE
    /\ Goto(Owner, "appendmirror")
    /\ UNCHANGED <<receipts, held, todo, ledger, certified, single, synced>>

(* Only a row that a mechanism measured gets a receipt. *)
AfterAppend == IF Line \in Evaluations THEN "certify" ELSE "ready"

AppendMirror ==
    /\ at[Owner] = "appendmirror"
    /\ AddLine("mirror", Line)
    /\ ledger' = Append(ledger, Line)
    /\ Goto(Owner, AfterAppend)
    /\ UNCHANGED <<receipts, marker, held, todo, appended, certified, single, synced>>

CertifyLocal ==
    /\ at[Owner] = "certify"
    /\ receipts' = [receipts EXCEPT !["local"] = @ \cup {Line}]
    /\ Goto(Owner, "certifymirror")
    /\ UNCHANGED <<lines, exists, marker, held, todo, history, synced>>

CertifyMirror ==
    /\ at[Owner] = "certifymirror"
    /\ receipts' = [receipts EXCEPT !["mirror"] = @ \cup {Line}]
    /\ certified' = certified \cup {Line}
    /\ Goto(Owner, "ready")
    /\ UNCHANGED <<lines, exists, marker, held, todo, appended, ledger, single, synced>>

(* Deviation: the archives are not among the files that are written back. *)
RestoreReceiptsOnly == <<<<"receipts", "local">>, <<"receipts", "mirror">>>>

(* _run_operator_guarded: the four files are remembered, the operator runs, *)
(* the four files are written back in this order whether it succeeds or not. *)
RestoreOrder ==
    <<<<"lines", "local">>, <<"lines", "mirror">>,
      <<"receipts", "local">>, <<"receipts", "mirror">>>>

StartOperator ==
    /\ at[Owner] = "ready"
    /\ held' = [held EXCEPT ![Owner] = [lines |-> lines, receipts |-> receipts]]
    /\ marker' = TRUE
    /\ Goto(Owner, "operator")
    /\ UNCHANGED <<lines, receipts, exists, todo, history, synced>>

(* An operator that looks at the archive synchronises it with a mirror of    *)
(* its own (operator-home), and may write into the copy in the workspace.     *)
OperatorWrites(text) ==
    /\ at[Owner] = "operator"
    /\ lines' = [lines EXCEPT !["local"] = text]
    /\ exists' = exists \cup {"local"}
    /\ UNCHANGED <<receipts, marker, process, history, synced>>

OthersThanForged(text) == LinesAt(text, {i \in DOMAIN text : text[i] # Forged})
OperatorTexts == {<<>>, <<Forged>>, Append(OthersThanForged(lines["local"]), Forged)}

FinishOperator ==
    /\ at[Owner] = "operator"
    /\ todo' = [todo EXCEPT ![Owner] = RestoreOrder]
    /\ Goto(Owner, "write")
    /\ UNCHANGED <<files, held, history, synced>>

OwnerStep ==
    \/ Lock \/ Unlock
    \/ AppendLocal \/ AppendMirror \/ CertifyLocal \/ CertifyMirror
    \/ StartOperator \/ FinishOperator
    \/ \E text \in OperatorTexts : OperatorWrites(text)

------------------------------------------------------------------------------
(* Crashes, and copies that are lost between two commands *)

Crash(p) ==
    /\ at[p] # "idle"
    /\ Goto(p, "idle")
    /\ held' = [held EXCEPT ![p] = NothingHeld]
    /\ todo' = [todo EXCEPT ![p] = <<>>]
    /\ synced' = (synced /\ p # Owner)
    /\ single' = (single /\ (synced \/ p # Owner))
    /\ UNCHANGED <<files, appended, ledger, certified>>

(* One copy is lost, and only when the other is whole. *)
LoseCopy(f) ==
    /\ at[Owner] = "idle" /\ synced
    /\ lines' = [lines EXCEPT ![f] = <<>>]
    /\ receipts' = [receipts EXCEPT ![f] = {}]
    /\ exists' = exists \ {f}
    /\ synced' = FALSE
    /\ UNCHANGED <<marker, process, history>>

(* The workspace is made anew under the same experiment id. *)
Reinitialise ==
    /\ at[Owner] = "idle" /\ synced
    /\ marker' = FALSE
    /\ lines' = [lines EXCEPT !["local"] = <<>>]
    /\ receipts' = [receipts EXCEPT !["local"] = {}]
    /\ exists' = exists \ {"local"}
    /\ synced' = FALSE
    /\ UNCHANGED <<process, history>>

FaultStep ==
    \/ \E p \in Processes : Crash(p)
    \/ \E f \in Files : LoseCopy(f)
    \/ Reinitialise

------------------------------------------------------------------------------
(* init has appended the row of generation 0 to both copies. *)
Init ==
    /\ lines = [f \in Files |-> <<Scaffold>>]
    /\ receipts = [f \in Files |-> {}]
    /\ exists = Files
    /\ marker = TRUE
    /\ at = [p \in Processes |-> "idle"]
    /\ held = [p \in Processes |-> NothingHeld]
    /\ todo = [p \in Processes |-> <<>>]
    /\ appended = 0
    /\ ledger = <<Scaffold>>
    /\ certified = {}
    /\ synced = TRUE /\ single = TRUE

Next ==
    \/ \E p \in Processes : SynchroniseStep(p)
    \/ OwnerStep
    \/ FaultStep

Spec == Init /\ [][Next]_vars

------------------------------------------------------------------------------
(* Properties *)

InLedger(text) == LinesAt(text, {i \in DOMAIN text : text[i] \in ToSet(ledger)})

(* Whatever crashes, and whichever copy is lost, the two copies together     *)
(* hold every line that reached both, in the order in which they did.         *)
LinesKept == InLedger(Merge(lines["local"], lines["mirror"])) = ledger

Working == at[Owner] \in {"ready", "appendmirror", "certify", "certifymirror"}

(* Whenever the owner reads or appends, its own copy holds all of that, so    *)
(* it never starts from less history than there is.                          *)
OwnerSeesAll == Working => InLedger(lines["local"]) = ledger

(* The history of the experiment is kept, and it is what the owner goes on   *)
(* from (archive.py:99-140).                                                 *)
HistoryKept == LinesKept /\ OwnerSeesAll

(* One fault takes no certificate back, if a synchronisation completes before  *)
(* the next, and the owner has all of them in its own file when it works.  (A  *)
(* receipts file is emptied before it is filled again: a crash in the          *)
(* synchronisation that repairs an earlier crash or loss can take all of them.) *)
CertificatesKept ==
    single =>
        /\ at[Owner] \in {"idle", "ready"} => certified \subseteq UNION {receipts[f] : f \in Files}
        /\ Working => certified \subseteq receipts["local"]

(* After an operator the copies are what they were before it.                *)
GuardRestores ==
    [][at[Owner] = "write" /\ Finish(Owner) =>
        \A f \in Files : held[Owner].lines[f] = lines[f]]_vars

------------------------------------------------------------------------------
(* What the documentation says, and the code does not do *)

(* "The append-only record archive.jsonl": a line that reached both copies is  *)
(* never gone from both, whoever else looks at the archive.                  *)
NoEventLost == ToSet(ledger) \subseteq ToSet(lines["local"]) \cup ToSet(lines["mirror"])
==============================================================================
