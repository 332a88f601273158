---------------------------- MODULE CandidateProofs ----------------------------
(***************************************************************************)
(* A candidate on its way from an agent to its tag: the mutation in Harbor   *)
(* and its import, the files of its commit, the judges that admit it and the *)
(* population it joins.                                                    *)
(***************************************************************************)
EXTENDS HarborMutate, PrivateSearch, Admission, CandidateFiles, Population,
  FiniteSetTheorems, SequenceTheorems, WellFoundedInduction, TLAPS

------------------------------------------------------------------------------
(* HarborMutate: the import.  Root number i is moved away by rename 2i - 1   *)
(* and replaced by rename 2i, whatever the number of roots.  ImportInv holds  *)
(* as long as the transaction can be undone, that is until `torn'.           *)

RootCount == Len(Roots)
Positions == 1..RootCount
AllRenames == 2 * RootCount + 2

RootIsMoved(i)     == 2 * i - 1 <= renames
RootIsInstalled(i) == 2 * i <= renames

BeforeImport == {"prepare", "inspect", "import"} \cup HarborPhases

ContentsOK ==
    /\ renames \in 0..AllRenames
    /\ checkout \in [RootSet -> {"old", "new", Gone}]
    /\ backup \in [RootSet -> {"old", "new", Gone}]
    /\ spare \in [RootSet -> {"old", "new", Gone}]

RootsUntouched ==
    /\ renames = 0 /\ space = "old" /\ spaceBackup = Gone
    /\ \A i \in Positions : checkout[Roots[i]] = "old" /\ backup[Roots[i]] = Gone

(* Between the first rename and the last. *)
RootsMidway ==
    \A i \in Positions :
        /\ checkout[Roots[i]] = IF RootIsInstalled(i) THEN "new"
                                ELSE IF RootIsMoved(i) THEN Gone ELSE "old"
        /\ backup[Roots[i]] = IF RootIsMoved(i) THEN "old" ELSE Gone

SpaceMidway ==
    /\ space = IF SpaceInstalled THEN "new" ELSE IF SpaceMoved THEN Gone ELSE "old"
    /\ spaceBackup = IF SpaceMoved THEN "old" ELSE Gone

SparesMidway ==
    /\ \A i \in Positions : spare[Roots[i]] = IF RootIsInstalled(i) THEN Gone ELSE "new"
    /\ ~SpaceInstalled => spaceSpare = "new"

(* After what was installed has been removed: `renames' goes down to zero. *)
RootsUndone ==
    \A i \in Positions :
        /\ checkout[Roots[i]] = IF RootIsMoved(i) THEN Gone ELSE "old"
        /\ backup[Roots[i]] = IF RootIsMoved(i) THEN "old" ELSE Gone

AnswerHolds ==
    LET content == IF result = "ok" THEN "new" ELSE "old"
    IN  space = content /\ \A i \in Positions : checkout[Roots[i]] = content

NothingLost ==
    /\ \A i \in Positions : checkout[Roots[i]] # Gone \/ backup[Roots[i]] # Gone
    /\ space # Gone \/ spaceBackup # Gone

ImportInv ==
    /\ ContentsOK
    /\ mutating \in BeforeImport => RootsUntouched
    /\ mutating \in {"rename", "discard", "undo_space"} => RootsMidway /\ SpaceMidway
    /\ mutating = "rename" => SparesMidway
    /\ mutating = "discard" => renames = AllRenames
    /\ mutating = "undo_installed" => RootsMidway /\ space = "old"
    /\ mutating = "undo_moved" => RootsUndone /\ space = "old"
    /\ mutating \in {"cleanup", "done"} => AnswerHolds
    /\ NothingLost

(* Only the end of an import, or its handler, tears it, and then it is no     *)
(* success.                                                                *)
TornInv ==
    /\ torn => mutating \notin BeforeImport \cup {"rename", "discard"}
    /\ result = "ok" => mutating \in {"cleanup", "done"} /\ ~torn

AtomicInv == TornInv /\ (~torn => ImportInv)

(* Roots and their positions correspond. *)
LEMMA RootFacts ==
    /\ RootCount \in Nat \ {0} /\ DOMAIN Roots = Positions
    /\ \A i \in Positions : Roots[i] \in RootSet
    /\ \A r \in RootSet : \E i \in Positions : r = Roots[i]
    /\ \A i, j \in Positions : Roots[i] = Roots[j] => i = j
<1>1. RootCount \in Nat \ {0} /\ DOMAIN Roots = Positions
  BY RootsAssumption DEF RootCount, Positions
<1> QED
  BY <1>1, RootsAssumption DEF RootSet

(* There is a root, and its number counts the renames an import makes.      *)
LEMMA RootNumber ==
    /\ RootCount \in Nat /\ RootCount > 0 /\ Len(Roots) = RootCount
    /\ AllRenames \in Nat
  BY RootsAssumption DEF RootCount, AllRenames

(* A rename is the first or the second of its root. *)
LEMMA Halves ==
    ASSUME NEW n \in Nat
    PROVE  /\ n \div 2 \in Nat /\ n % 2 \in {0, 1}
           /\ n = 2 * (n \div 2) + (n % 2)
  OBVIOUS

(* The contents are pairwise different. *)
LEMMA ContentFacts == Gone # "old" /\ Gone # "new"
  BY HarborAssumption

(* Before the import nothing of a checkout has been touched. *)
LEMMA MutateInitImport == MutateInit => ImportInv
<1> SUFFICES ASSUME MutateInit PROVE ImportInv
  OBVIOUS
<1>1. ContentsOK
  BY RootFacts DEF MutateInit, ContentsOK, AllRenames
<1>2. RootsUntouched
  BY RootFacts DEF MutateInit, RootsUntouched
<1> QED
  BY <1>1, <1>2, ContentFacts DEF MutateInit, ImportInv, RootsUntouched, NothingLost

(* The steps that touch no file of the checkout, the backups or the copies.  *)
LEMMA FilesKeptImport ==
    ASSUME ImportInv, UNCHANGED files,
           \/ mutating \in BeforeImport /\ mutating' \in BeforeImport
           \/ mutating \in BeforeImport /\ mutating' = "cleanup" /\ result' = "error"
           \/ mutating' = "killed"
           \/ mutating = "rename" /\ renames = AllRenames /\ mutating' = "discard"
           \/ UNCHANGED <<mutating, result>>
    PROVE  ImportInv'
<1>1. ContentsOK' /\ NothingLost'
  BY DEF ImportInv, ContentsOK, NothingLost, files
<1>2. RootsUntouched => RootsUntouched'
  BY DEF RootsUntouched, files
<1>3. RootsMidway => RootsMidway'
  BY DEF RootsMidway, RootIsMoved, RootIsInstalled, files
<1>4. SpaceMidway => SpaceMidway'
  BY DEF SpaceMidway, SpaceMoved, SpaceInstalled, files
<1>5. SparesMidway => SparesMidway'
  BY DEF SparesMidway, RootIsInstalled, SpaceInstalled, files
<1>6. RootsUndone => RootsUndone'
  BY DEF RootsUndone, RootIsMoved, files
<1>7. AnswerHolds /\ result' = result => AnswerHolds'
  BY DEF AnswerHolds, files
<1>8. RootsUntouched /\ result' = "error" => AnswerHolds'
  BY DEF RootsUntouched, AnswerHolds, files
<1>9. renames' = renames /\ space' = space
  BY DEF files
<1> QED
  BY <1>1, <1>2, <1>3, <1>4, <1>5, <1>6, <1>7, <1>8, <1>9
  DEF ImportInv, BeforeImport, HarborPhases

(* Copying the new roots beside the checkout leaves the checkout as it is.  *)
LEMMA CopyImport ==
    ASSUME ImportInv, Copy
    PROVE  ImportInv'
<1>1. RootsUntouched /\ ContentsOK
  BY DEF ImportInv, Copy, BeforeImport
<1>2. ContentsOK'
  BY <1>1 DEF Copy, ContentsOK
<1>3. RootsMidway' /\ SpaceMidway'
  BY <1>1, RootFacts DEF Copy, RootsUntouched, RootsMidway, SpaceMidway, SpaceMoved,
     SpaceInstalled, RootIsMoved, RootIsInstalled, Positions, RootCount
<1>4. SparesMidway'
  BY <1>1, RootFacts DEF Copy, RootsUntouched, SparesMidway, RootIsInstalled, Positions
<1>5. NothingLost'
  BY DEF Copy, ImportInv, NothingLost
<1> QED
  BY <1>2, <1>3, <1>4, <1>5 DEF Copy, ImportInv, BeforeImport, HarborPhases

(* One rename of a root: the odd ones move it away, the even ones replace it. *)
LEMMA RenameRootImport ==
    ASSUME ImportInv, Rename, renames < 2 * RootCount
    PROVE  ImportInv'
<1>1. RootsMidway /\ SpaceMidway /\ SparesMidway /\ ContentsOK /\ mutating = "rename"
  BY DEF ImportInv, Rename
<1>2. /\ renames \in Nat /\ renames' = renames + 1 /\ mutating' = "rename"
      /\ renames % 2 \in {0, 1}
  <2>1. renames \in Nat
    BY <1>1, RootNumber DEF ContentsOK
  <2>2. renames' = renames + 1 /\ mutating' = "rename"
    BY <1>1 DEF Rename
  <2> QED
    BY <2>1, <2>2, Halves
<1>3. PICK k \in Positions :
         /\ k = 1 + renames \div 2
         /\ renames = 2 * k - 2 + (renames % 2)
  BY <1>2, Halves, RootNumber DEF Positions
<1>4. /\ ~SpaceMoved /\ ~SpaceInstalled /\ ~SpaceMoved' /\ ~SpaceInstalled'
      /\ renames' \in 0..AllRenames
  BY <1>2, RootNumber DEF SpaceMoved, SpaceInstalled, AllRenames
<1>5. /\ renames % 2 = 0 => RenameStep = "away"
      /\ renames % 2 = 1 => RenameStep = "in"
  <2>1. (renames + 1) % 2 = 1 <=> renames % 2 = 0
    BY <1>2, Halves
  <2>2. ~(renames + 1 > 2 * Len(Roots))
    BY <1>2, RootNumber
  <2> QED
    BY <1>2, <2>1, <2>2 DEF RenameStep
<1>6. \A i \in Positions :
         /\ RootIsMoved(i)' <=> RootIsMoved(i) \/ (i = k /\ renames % 2 = 0)
         /\ RootIsInstalled(i)' <=> RootIsInstalled(i) \/ (i = k /\ renames % 2 = 1)
         /\ i = k => (RootIsMoved(i) <=> renames % 2 = 1) /\ ~RootIsInstalled(i)
  BY <1>2, <1>3, RootNumber DEF RootIsMoved, RootIsInstalled, Positions
<1>7. CASE renames % 2 = 0
  <2>1. /\ backup' = [backup EXCEPT ![Roots[k]] = checkout[Roots[k]]]
        /\ checkout' = [checkout EXCEPT ![Roots[k]] = Gone]
        /\ UNCHANGED <<spare, space, spaceBackup, spaceSpare>>
    BY <1>3, <1>5, <1>7 DEF Rename
  <2>2. checkout[Roots[k]] = "old"
    BY <1>1, <1>6, <1>7 DEF RootsMidway
  <2>3. ContentsOK'
    BY <1>1, <1>4, <2>1, RootFacts DEF ContentsOK
  <2>4. RootsMidway'
    BY <1>1, <1>6, <1>7, <2>1, <2>2, RootFacts DEF RootsMidway, ContentsOK
  <2>5. SpaceMidway'
    BY <1>1, <1>4, <2>1 DEF SpaceMidway
  <2>6. SparesMidway'
    BY <1>1, <1>4, <1>6, <1>7, <2>1 DEF SparesMidway
  <2>7. NothingLost'
    BY <1>4, <2>4, <2>5, ContentFacts DEF RootsMidway, SpaceMidway, NothingLost
  <2> QED
    BY <1>2, <2>3, <2>4, <2>5, <2>6, <2>7 DEF ImportInv, BeforeImport, HarborPhases
<1>8. CASE renames % 2 = 1
  <2>1. /\ checkout' = [checkout EXCEPT ![Roots[k]] = spare[Roots[k]]]
        /\ spare' = [spare EXCEPT ![Roots[k]] = Gone]
        /\ UNCHANGED <<backup, space, spaceBackup, spaceSpare>>
    <3>1. RenameStep = "in"
      BY <1>5, <1>8
    <3> QED
      BY <1>3, <3>1 DEF Rename
  <2>2. spare[Roots[k]] = "new"
    BY <1>1, <1>6, <1>8 DEF SparesMidway
  <2>3. ContentsOK'
    BY <1>1, <1>4, <2>1, <2>2, RootFacts DEF ContentsOK
  <2>4. RootsMidway'
    BY <1>1, <1>6, <1>8, <2>1, <2>2, RootFacts DEF RootsMidway, ContentsOK
  <2>5. SpaceMidway'
    BY <1>1, <1>4, <2>1 DEF SpaceMidway
  <2>6. SparesMidway'
    BY <1>1, <1>4, <1>6, <1>8, <2>1, <2>2, RootFacts DEF SparesMidway, ContentsOK
  <2>7. NothingLost'
    BY <1>4, <2>4, <2>5, ContentFacts DEF RootsMidway, SpaceMidway, NothingLost
  <2> QED
    BY <1>2, <2>3, <2>4, <2>5, <2>6, <2>7 DEF ImportInv, BeforeImport, HarborPhases
<1> QED
  BY <1>2, <1>7, <1>8

(* The last two renames concern the artifact namespace. *)
LEMMA RenameSpaceImport ==
    ASSUME ImportInv, Rename, ~(renames < 2 * RootCount)
    PROVE  ImportInv'
<1>1. RootsMidway /\ SpaceMidway /\ SparesMidway /\ ContentsOK /\ mutating = "rename"
  BY DEF ImportInv, Rename
<1>2. /\ renames \in {2 * RootCount, 2 * RootCount + 1} /\ ~SpaceInstalled
      /\ SpaceMoved <=> renames = 2 * RootCount + 1
  <2>1. renames \in Nat
    BY <1>1, RootNumber DEF ContentsOK
  <2>2. renames < 2 * Len(Roots) + 2
    BY DEF Rename
  <2> QED
    BY <2>1, <2>2, RootNumber DEF SpaceMoved, SpaceInstalled
<1>a. /\ SpaceMoved => RenameStep = "space_in"
      /\ ~SpaceMoved => RenameStep = "space_away"
  <2>1. renames + 1 > 2 * Len(Roots)
    BY <1>2, RootNumber
  <2> QED
    BY <2>1 DEF RenameStep
<1>3. renames' = renames + 1 /\ mutating' = "rename"
  BY <1>1 DEF Rename
<1>4. /\ renames' \in 0..AllRenames /\ SpaceMoved'
      /\ SpaceInstalled' <=> SpaceMoved
  BY <1>2, <1>3, RootNumber DEF AllRenames, SpaceMoved, SpaceInstalled
<1>5. \A i \in Positions :
         /\ RootIsMoved(i) /\ RootIsMoved(i)'
         /\ RootIsInstalled(i) /\ RootIsInstalled(i)'
  BY <1>2, <1>3, RootNumber DEF RootIsMoved, RootIsInstalled, Positions
<1>6. /\ UNCHANGED <<checkout, spare, backup>>
      /\ ~SpaceMoved => spaceBackup' = space /\ space' = Gone /\ spaceSpare' = spaceSpare
      /\ SpaceMoved => space' = spaceSpare /\ spaceBackup' = spaceBackup
  BY <1>a DEF Rename
<1>7. ContentsOK'
  BY <1>1, <1>4, <1>6 DEF ContentsOK
<1>8. RootsMidway'
  BY <1>1, <1>5, <1>6 DEF RootsMidway
<1>9. SpaceMidway'
  BY <1>1, <1>2, <1>4, <1>6 DEF SpaceMidway, SparesMidway
<1>10. SparesMidway'
  BY <1>1, <1>2, <1>4, <1>5, <1>6 DEF SparesMidway
<1>11. NothingLost'
  BY <1>4, <1>8, <1>9, <1>5, ContentFacts DEF RootsMidway, SpaceMidway, NothingLost
<1> QED
  BY <1>3, <1>7, <1>8, <1>9, <1>10, <1>11 DEF ImportInv, BeforeImport, HarborPhases

(* The last step takes the backups away once every root is new.             *)
LEMMA DiscardImport ==
    ASSUME ImportInv, Discard
    PROVE  ImportInv'
<1>1. RootsMidway /\ SpaceMidway /\ ContentsOK /\ renames = AllRenames
  BY DEF ImportInv, Discard
<1>2. \A i \in Positions : RootIsInstalled(i)
  BY <1>1, RootNumber DEF RootIsInstalled, Positions, AllRenames
<1>3. SpaceInstalled
  BY <1>1, RootNumber DEF SpaceInstalled, AllRenames
<1>4. AnswerHolds'
  BY <1>1, <1>2, <1>3 DEF Discard, AnswerHolds, RootsMidway, SpaceMidway
<1>5. ContentsOK'
  BY <1>1 DEF Discard, ContentsOK
<1>6. NothingLost'
  BY <1>4, ContentFacts DEF AnswerHolds, NothingLost
<1> QED
  BY <1>4, <1>5, <1>6 DEF Discard, ImportInv, BeforeImport, HarborPhases

(* The import fails before the transaction is discarded. *)
LEMMA ImportRaisesImport ==
    ASSUME ImportInv, ImportRaises, ~torn'
    PROVE  ImportInv'
<1>1. mutating \in {"import", "rename"} /\ mutating' = "undo_space"
  BY DEF ImportRaises
<1>2. UNCHANGED files
  BY <1>1 DEF ImportRaises, files
<1>3. RootsMidway /\ SpaceMidway
  <2>1. CASE mutating = "import"
    <3>1. RootsUntouched
      BY <2>1 DEF ImportInv, BeforeImport
    <3> QED
      BY <3>1, RootFacts DEF RootsUntouched, RootsMidway, SpaceMidway, SpaceMoved,
         SpaceInstalled, RootIsMoved, RootIsInstalled, Positions, RootCount
  <2> QED
    BY <1>1, <2>1 DEF ImportInv
<1>4. RootsMidway' /\ SpaceMidway'
  BY <1>2, <1>3 DEF RootsMidway, RootIsMoved, RootIsInstalled, SpaceMidway, SpaceMoved,
     SpaceInstalled, files
<1>5. ContentsOK' /\ NothingLost'
  BY <1>2 DEF ImportInv, ContentsOK, NothingLost, files
<1> QED
  BY <1>1, <1>4, <1>5 DEF ImportInv, BeforeImport, HarborPhases

(* The namespace is put back; its backup exists whenever it was moved. *)
LEMMA UndoSpaceImport ==
    ASSUME ImportInv, UndoSpace
    PROVE  ImportInv'
<1>1. RootsMidway /\ SpaceMidway /\ ContentsOK /\ NothingLost
  BY DEF ImportInv, UndoSpace
<1>2. SpaceInstalled => SpaceMoved
  BY <1>1, RootNumber DEF SpaceInstalled, SpaceMoved, ContentsOK, AllRenames
<1>3. mutating' = "undo_installed" /\ space' = "old"
  BY <1>1, <1>2, ContentFacts DEF UndoSpace, SpaceMidway
<1>4. ContentsOK' /\ RootsMidway'
  BY <1>1 DEF UndoSpace, ContentsOK, RootsMidway, RootIsMoved, RootIsInstalled
<1>5. NothingLost'
  BY <1>1, <1>3, ContentFacts DEF UndoSpace, NothingLost
<1> QED
  BY <1>3, <1>4, <1>5 DEF ImportInv, BeforeImport, HarborPhases

(* The rollback takes what was installed out before it renames back.        *)
LEMMA UndoInstalledImport ==
    ASSUME ImportInv, UndoInstalled
    PROVE  ImportInv'
<1>1. RootsMidway /\ ContentsOK /\ space = "old"
  BY DEF ImportInv, UndoInstalled
<1>2. \A i \in Positions : Roots[i] \in Installed <=> RootIsInstalled(i)
  BY RootFacts DEF Installed, RootIsInstalled
<1>3. \A i \in Positions : RootIsInstalled(i) => RootIsMoved(i)
  BY <1>1, RootFacts DEF RootIsInstalled, RootIsMoved, ContentsOK, AllRenames, Positions
<1>4. \A i \in Positions :
         checkout'[Roots[i]] = IF RootIsInstalled(i) THEN Gone ELSE checkout[Roots[i]]
  BY <1>2, RootFacts DEF UndoInstalled
<1>5. RootsUndone'
  BY <1>1, <1>3, <1>4 DEF UndoInstalled, RootsUndone, RootsMidway, RootIsMoved
<1>6. ContentsOK'
  BY <1>1 DEF UndoInstalled, ContentsOK
<1>7. space' = "old" /\ mutating' = "undo_moved"
  BY <1>1 DEF UndoInstalled
<1>8. NothingLost'
  BY <1>5, <1>7, ContentFacts DEF RootsUndone, NothingLost
<1> QED
  BY <1>5, <1>6, <1>7, <1>8 DEF ImportInv, BeforeImport, HarborPhases

(* The last root that is still moved is put back; when none is, all are. *)
LEMMA UndoMovedImport ==
    ASSUME ImportInv, UndoMoved
    PROVE  ImportInv'
<1> DEFINE last == Least(Len(Roots), (renames + 1) \div 2)
<1>1. RootsUndone /\ ContentsOK /\ space = "old"
  BY DEF ImportInv, UndoMoved
<1>2. renames \in Nat
  BY <1>1, RootNumber DEF ContentsOK
<1>3. \A i \in Positions : Roots[i] \in Moved <=> RootIsMoved(i)
  BY RootFacts DEF Moved, RootIsMoved
<1>4. space' = space
  BY DEF UndoMoved
<1>5. CASE Moved = {}
  <2>1. mutating' = "cleanup" /\ result' = "error" /\ UNCHANGED <<checkout, backup, renames>>
    BY <1>5 DEF UndoMoved, Fails
  <2>2. \A i \in Positions : ~RootIsMoved(i)
    BY <1>3, <1>5
  <2>3. AnswerHolds'
    BY <1>1, <1>4, <2>1, <2>2 DEF AnswerHolds, RootsUndone
  <2>4. ContentsOK'
    BY <1>1, <2>1 DEF ContentsOK, UndoMoved
  <2>5. NothingLost'
    BY <1>1, <1>4, <2>3, ContentFacts DEF AnswerHolds, NothingLost
  <2> QED
    BY <2>1, <2>3, <2>4, <2>5 DEF ImportInv, BeforeImport, HarborPhases
<1>6. CASE Moved # {}
  <2>1. PICK j \in Positions : RootIsMoved(j)
    BY <1>6, RootFacts DEF Moved, RootIsMoved
  <2>2. renames > 0
    BY <1>2, <2>1, RootNumber DEF RootIsMoved, Positions
  <2>3. PICK k \in Positions : k = last
    BY <1>2, <2>2, Halves, RootNumber DEF Positions, Least
  <2>4. /\ RootIsMoved(k)
        /\ \A i \in Positions : i # k => (RootIsMoved(i) <=> 2 * i - 1 <= 2 * (k - 1))
        /\ 2 * (k - 1) \in 0..AllRenames /\ ~(2 * k - 1 <= 2 * (k - 1))
    BY <1>2, <2>2, <2>3, Halves, RootNumber DEF RootIsMoved, Positions, Least, AllRenames
  <2>5. backup[Roots[k]] = "old"
    BY <1>1, <2>4 DEF RootsUndone
  <2> HIDE DEF last
  <2>6. /\ UNCHANGED <<mutating, result, spare>>
        /\ checkout' = [checkout EXCEPT ![Roots[k]] = backup[Roots[k]]]
        /\ backup' = [backup EXCEPT ![Roots[k]] = Gone]
        /\ renames' = 2 * (k - 1)
    BY <1>6, <2>3, <2>5, ContentFacts DEF UndoMoved, last
  <2>7. \A i \in Positions : RootIsMoved(i)' <=> RootIsMoved(i) /\ i # k
    BY <2>4, <2>6 DEF RootIsMoved
  <2>8. ContentsOK'
    BY <1>1, <2>4, <2>5, <2>6 DEF ContentsOK
  <2>9. RootsUndone'
    BY <1>1, <2>4, <2>5, <2>6, <2>7, RootFacts DEF RootsUndone, ContentsOK
  <2>10. NothingLost'
    BY <1>1, <1>4, <2>9, ContentFacts DEF RootsUndone, NothingLost
  <2> QED
    BY <1>1, <1>4, <2>6, <2>8, <2>9, <2>10 DEF UndoMoved, ImportInv, BeforeImport, HarborPhases
<1> QED
  BY <1>5, <1>6

(* What holds at cleanup holds when everything else has been removed. *)
LEMMA CleanupImport ==
    ASSUME ImportInv, Cleanup
    PROVE  ImportInv'
<1>1. AnswerHolds /\ ContentsOK /\ mutating' = "done"
  BY DEF ImportInv, Cleanup
<1>2. ContentsOK' /\ AnswerHolds'
  BY <1>1 DEF Cleanup, ContentsOK, AnswerHolds
<1>3. NothingLost'
  BY <1>2, ContentFacts DEF AnswerHolds, NothingLost
<1> QED
  BY <1>1, <1>2, <1>3 DEF ImportInv, BeforeImport, HarborPhases

(* Every step that leaves the transaction whole keeps the import's invariant. *)
LEMMA MutateNextImport ==
    ASSUME ImportInv, [MutateNext]_mutateVars, ~torn'
    PROVE  ImportInv'
<1>1. CASE Prepare \/ PrepareRaises
  BY <1>1, FilesKeptImport DEF Prepare, PrepareRaises, Fails, BeforeImport, HarborPhases
<1>2. ASSUME NEW phase \in HarborPhases, Phase(phase)
      PROVE  ImportInv'
  BY <1>2, FilesKeptImport DEF Phase, Following, BeforeImport, HarborPhases
<1>3. CASE Teardown \/ HarborTimesOut
  <2>1. UNCHANGED files /\ mutating \in HarborPhases
        /\ mutating' \in {"inspect", "recreate"}
    BY <1>3 DEF Teardown, HarborTimesOut, HarborPhases
  <2> QED
    BY <2>1, FilesKeptImport DEF BeforeImport, HarborPhases
<1>4. CASE Inspect
  <2>1. /\ UNCHANGED files /\ mutating = "inspect"
        /\ mutating' = "import" \/ (mutating' = "cleanup" /\ result' = "error")
    BY <1>4 DEF Inspect, Fails
  <2> QED
    BY <2>1, FilesKeptImport DEF BeforeImport
<1>5. CASE Rename
  BY <1>5, RenameRootImport, RenameSpaceImport
<1>6. CASE Check
  <2>1. UNCHANGED files /\ mutating = "rename" /\ mutating' = "discard" /\ renames = AllRenames
    BY <1>6, RootNumber DEF Check, AllRenames
  <2> QED
    BY <2>1, FilesKeptImport
<1>7. CASE DeadlinePasses \/ Interrupted
  BY <1>7, FilesKeptImport DEF DeadlinePasses, Interrupted
<1>8. CASE UNCHANGED mutateVars
  BY <1>8, FilesKeptImport DEF mutateVars
<1>9. ~UndoRaises
  BY DEF UndoRaises
<1> QED
  BY <1>1, <1>2, <1>3, <1>4, <1>5, <1>6, <1>7, <1>8, <1>9, CopyImport, DiscardImport,
     ImportRaisesImport, UndoSpaceImport, UndoInstalledImport, UndoMovedImport, CleanupImport
     DEF MutateNext

(* What is torn stays torn, and is never answered with a success. *)
LEMMA MutateNextTorn ==
    ASSUME TornInv, [MutateNext]_mutateVars
    PROVE  TornInv' /\ (torn => torn')
<1> USE DEF TornInv, BeforeImport, HarborPhases
<1>1. CASE Prepare \/ PrepareRaises \/ Inspect
  BY <1>1 DEF Prepare, PrepareRaises, Inspect, Fails, files
<1>2. ASSUME NEW phase \in HarborPhases, Phase(phase)
      PROVE  TornInv' /\ (torn => torn')
  BY <1>2 DEF Phase, Following, files
<1>3. CASE Teardown \/ HarborTimesOut
  BY <1>3 DEF Teardown, HarborTimesOut, files
<1>4. CASE Copy \/ Check \/ Discard
  BY <1>4 DEF Copy, Check, Discard, files
<1>5. CASE Rename
  BY <1>5 DEF Rename
<1>6. CASE ImportRaises
  <2>1. /\ mutating \in {"import", "rename", "discard"} /\ mutating' = "undo_space"
        /\ result' = result /\ (torn => torn')
    BY <1>6 DEF ImportRaises
  <2> QED
    BY <2>1
<1>7. CASE UndoRaises
  BY <1>7 DEF UndoRaises, Fails
<1>8. CASE UndoSpace
  BY <1>8 DEF UndoSpace, Fails
<1>9. CASE UndoInstalled
  BY <1>9 DEF UndoInstalled
<1>10. CASE UndoMoved
  <2>1. /\ mutating = "undo_moved" /\ torn' = torn
        /\ (mutating' = "cleanup" /\ result' = "error") \/ UNCHANGED <<mutating, result>>
    BY <1>10 DEF UndoMoved, Fails
  <2> QED
    BY <2>1
<1>11. CASE Cleanup \/ DeadlinePasses \/ Interrupted
  BY <1>11 DEF Cleanup, DeadlinePasses, Interrupted, files
<1>12. CASE UNCHANGED mutateVars
  BY <1>12 DEF mutateVars, files
<1> QED
  BY <1>1, <1>2, <1>3, <1>4, <1>5, <1>6, <1>7, <1>8, <1>9, <1>10, <1>11, <1>12 DEF MutateNext

(* What ImportInv says of positions holds of the roots. *)
LEMMA WholeIsSafe ==
    ASSUME ImportInv, ~torn
    PROVE  ImportIsSafe
<1>1. NothingLost /\ (mutating = "done" => AnswerHolds)
  BY DEF ImportInv
<1>2. ASSUME NEW r \in RootSet
      PROVE  /\ checkout[r] # Gone \/ backup[r] # Gone
             /\ mutating = "done" => checkout[r] = IF result = "ok" THEN "new" ELSE "old"
  <2>1. PICK i \in Positions : r = Roots[i]
    BY RootFacts
  <2> QED
    BY <1>1, <2>1 DEF AnswerHolds, NothingLost
<1>3. space # Gone \/ spaceBackup # Gone
  BY <1>1 DEF NothingLost
<1>4. mutating = "done" => space = IF result = "ok" THEN "new" ELSE "old"
  BY <1>1 DEF AnswerHolds
<1> QED
  BY <1>2, <1>3, <1>4 DEF ImportIsSafe

(* For every list of roots, whichever steps of the import and of its handler  *)
(* may fail and wherever it is killed: a success has imported everything, a   *)
(* failure that could be undone nothing, and until the undoing itself fails   *)
(* the checkout and the backups have every root between them.               *)
THEOREM ImportIsAtomic == MutateSpec => []ImportIsSafe
<1>1. MutateInit => AtomicInv
  BY MutateInitImport DEF AtomicInv, TornInv, MutateInit
<1>2. AtomicInv /\ [MutateNext]_mutateVars => AtomicInv'
  BY MutateNextImport, MutateNextTorn DEF AtomicInv
<1>3. AtomicInv => ImportIsSafe
  <2> SUFFICES ASSUME AtomicInv PROVE ImportIsSafe
    OBVIOUS
  <2>1. CASE torn
    BY <2>1 DEF AtomicInv, TornInv, ImportIsSafe
  <2>2. CASE ~torn
    BY <2>2, WholeIsSafe DEF AtomicInv, TornInv
  <2> QED
    BY <2>1, <2>2
<1> QED
  BY <1>1, <1>2, <1>3, PTL DEF MutateSpec

------------------------------------------------------------------------------
(* HarborMutate: the budget.  With every phase inside its allowance the clock *)
(* is never ahead of the sum of the allowances of the phases gone by.        *)

OneRound == PerTrial + Allowance("recreate")

(* What the present trial may have taken before the phase. *)
TrialSoFar(phase) ==
    CASE phase = "start"    -> 0
      [] phase = "setup"    -> Allowance("start")
      [] phase = "agent"    -> Allowance("start") + Allowance("setup")
      [] phase = "verifier" -> Allowance("start") + Allowance("setup") + Allowance("agent")
      [] phase = "collect"  -> Allowance("start") + Allowance("setup") + Allowance("agent")
                                 + Allowance("verifier")
      [] phase = "teardown" -> Allowance("start") + Allowance("setup") + Allowance("agent")
                                 + Allowance("verifier") + Allowance("collect")

(* What the Harbor job may have taken before the phase. *)
HarborSoFar(phase, rounds) ==
    CASE phase = "compile"  -> 0
      [] phase = "recreate" -> Allowance("compile") + rounds * OneRound - Allowance("recreate")
      [] phase \in HarborPhases \ {"compile", "recreate"} ->
            Allowance("compile") + rounds * OneRound + TrialSoFar(phase)

AfterImport == {"rename", "discard", "undo_space", "undo_installed", "undo_moved", "cleanup"}

ClockOK ==
    /\ clock \in Nat /\ began \in Nat /\ attempt \in 0..MaxRetries
    /\ mutating \in {"prepare", "compile"} => attempt = 0

(* As long as no phase has overrun. *)
OnSchedule ==
    /\ mutating = "prepare" => clock = 0
    /\ mutating \in HarborPhases =>
          /\ began <= Allowance("prepare")
          /\ clock <= began + HarborSoFar(mutating, attempt)
    /\ mutating \in {"inspect", "import"} =>
          clock <= Allowance("prepare") + HarborProcess
    /\ mutating \in AfterImport =>
          clock <= Allowance("prepare") + HarborProcess + Allowance("import")

NoDeadline == ~timedOut /\ result # "deadline"

BudgetInv == ClockOK /\ (PerAttempt /\ ~overran => OnSchedule /\ NoDeadline)

(* The allowance of every phase, in milliseconds. *)
LEMMA Allowances ==
    /\ Allowance("prepare") = 600000 /\ Allowance("compile") = 600000
    /\ Allowance("start") = 600000 /\ Allowance("setup") = 360000
    /\ Allowance("agent") = Timeout /\ Allowance("verifier") = 600000
    /\ Allowance("collect") = 600000 /\ Allowance("teardown") = 600000
    /\ Allowance("recreate") = 60000 /\ Allowance("import") = 600000
    /\ Allowance("cleanup") = 60000 /\ Timeout \in Nat
  BY HarborAssumption DEF Allowance

(* What a phase may take is a number of milliseconds, like its allowance.   *)
LEMMA DurationsAreTimes ==
    ASSUME NEW phase \in HarborPhases \cup {"prepare", "import", "cleanup"},
           NEW d \in Durations(phase)
    PROVE  d \in Nat /\ Allowance(phase) \in Nat
<1>1. Allowance(phase) \in Nat
  BY Allowances DEF HarborPhases
<1> QED
  BY <1>1, HarborAssumption DEF Durations

(* Of products, the provers need no more than this. *)
LEMMA Products ==
    ASSUME NEW a \in Nat, NEW m \in Nat, a <= m, NEW x \in Nat
    PROVE  /\ a * x \in Nat /\ a * x <= m * x
           /\ (a + 1) * x = a * x + x /\ 0 * x = 0
<1>1. a * x \in Nat /\ m * x \in Nat /\ (m - a) * x \in Nat
  OBVIOUS
<1>2. m * x = a * x + (m - a) * x
  OBVIOUS
<1> QED
  BY <1>1, <1>2

(* The whole budget pays for every round that the retries allow. *)
LEMMA RoundsFit ==
    ASSUME NEW a \in 0..MaxRetries
    PROVE  /\ a * OneRound \in Nat /\ (a + 1) * OneRound = a * OneRound + OneRound
           /\ OneRound = PerTrial + 60000 /\ PerTrial = 2760000 + Timeout
           /\ HarborProcess \in Nat
           /\ 600000 + a * OneRound + PerTrial <= HarborProcess
           /\ OperatorBudget = 600000 + HarborProcess + 600000 + 60000
<1>1. OneRound = PerTrial + 60000 /\ PerTrial = 2760000 + Timeout /\ PerTrial \in Nat
  BY Allowances DEF OneRound, PerTrial
<1>2. /\ a \in Nat /\ MaxRetries \in Nat /\ a <= MaxRetries /\ OneRound \in Nat
  BY <1>1, HarborAssumption
<1>3. /\ a * OneRound \in Nat /\ (a + 1) * OneRound = a * OneRound + OneRound
      /\ a * OneRound <= MaxRetries * OneRound
  BY <1>2, Products
<1>4. HarborProcess = 600000 + (MaxRetries + 1) * PerTrial + MaxRetries * 60000
  BY Allowances DEF HarborProcess
<1>5. HarborProcess = 600000 + MaxRetries * OneRound + PerTrial
  BY <1>1, <1>2, <1>4
<1>6. MaxRetries * OneRound \in Nat
  BY <1>2, Products
<1>7. OperatorBudget = 600000 + HarborProcess + 600000 + 60000
  BY Allowances DEF OperatorBudget
<1> QED
  BY <1>1, <1>3, <1>5, <1>6, <1>7

(* The parts of the budget are numbers. *)
LEMMA BudgetTypes ==
    /\ HarborProcess \in Nat
    /\ Allowance("prepare") \in Nat /\ Allowance("import") \in Nat
    /\ Allowance("teardown") \in Nat
<1>1. 0 \in 0..MaxRetries
  BY HarborAssumption
<1> QED
  BY <1>1, RoundsFit, Allowances

(* A phase of a trial on schedule ends on schedule. *)
LEMMA PhaseFits ==
    ASSUME NEW a \in 0..MaxRetries, NEW phase \in HarborPhases, phase = "compile" => a = 0
    PROVE  /\ HarborSoFar(phase, a) \in Int
           /\ HarborSoFar(phase, a) + Allowance(phase) <= HarborProcess
           /\ phase # "teardown" =>
                 HarborSoFar(phase, a) + Allowance(phase) = HarborSoFar(Following(phase), a)
           /\ phase = "teardown" =>
                 HarborSoFar(phase, a) + Allowance(phase) = HarborSoFar("recreate", a + 1)
<1> DEFINE gone == a * OneRound
           next == (a + 1) * OneRound
<1>1. /\ gone \in Nat /\ next = gone + OneRound
      /\ OneRound = PerTrial + 60000 /\ PerTrial = 2760000 + Timeout
      /\ HarborProcess \in Nat /\ 600000 + gone + PerTrial <= HarborProcess
      /\ a = 0 => gone = 0
  BY RoundsFit, Allowances, Products DEF OneRound
<1>2. /\ TrialSoFar("start") = 0 /\ TrialSoFar("setup") = 600000
      /\ TrialSoFar("agent") = 960000 /\ TrialSoFar("verifier") = 960000 + Timeout
      /\ TrialSoFar("collect") = 1560000 + Timeout
      /\ TrialSoFar("teardown") = 2160000 + Timeout
  BY Allowances DEF TrialSoFar
<1>3. /\ HarborSoFar("compile", a) = 0
      /\ HarborSoFar("recreate", a) = 600000 + gone - 60000
      /\ HarborSoFar("recreate", a + 1) = 600000 + next - 60000
      /\ \A p \in HarborPhases \ {"compile", "recreate"} :
            HarborSoFar(p, a) = 600000 + gone + TrialSoFar(p)
  BY Allowances DEF HarborSoFar, HarborPhases
<1> HIDE DEF gone, next
<1> QED
  BY <1>1, <1>2, <1>3, Allowances DEF HarborPhases, Following

(* On schedule, neither deadline is near: what a phase is allowed still fits. *)
LEMMA DeadlinesAreFar ==
    ASSUME ClockOK, OnSchedule, PerAttempt, Timeout > 0
    PROVE  /\ OperatorDeadline = OperatorBudget /\ ProcessLimit = HarborProcess
           /\ mutating \in HarborPhases =>
                 /\ clock + Allowance(mutating) <= began + ProcessLimit
                 /\ clock + Allowance(mutating) <= OperatorDeadline
           /\ mutating \in {"prepare", "import", "cleanup"} =>
                 clock + Allowance(mutating) <= OperatorDeadline
<1>1. OperatorDeadline = OperatorBudget /\ ProcessLimit = HarborProcess
  BY DEF OperatorDeadline, ProcessLimit
<1>2. HarborProcess \in Nat /\ OperatorBudget = 600000 + HarborProcess + 600000 + 60000
  BY RoundsFit DEF ClockOK
<1>3. ASSUME mutating \in HarborPhases
      PROVE  clock + Allowance(mutating) <= began + HarborProcess /\ began <= 600000
  <2>1. /\ HarborSoFar(mutating, attempt) \in Int
        /\ HarborSoFar(mutating, attempt) + Allowance(mutating) <= HarborProcess
    BY <1>3, PhaseFits DEF ClockOK
  <2>2. Allowance(mutating) \in Nat
    BY <1>3, Allowances DEF HarborPhases
  <2> QED
    BY <1>2, <1>3, <2>1, <2>2, Allowances DEF ClockOK, OnSchedule
<1>4. ASSUME mutating \in HarborPhases
      PROVE  /\ clock + Allowance(mutating) <= began + ProcessLimit
             /\ clock + Allowance(mutating) <= OperatorDeadline
  <2>1. Allowance(mutating) \in Nat
    BY <1>4, Allowances DEF HarborPhases
  <2> QED
    BY <1>1, <1>2, <1>3, <1>4, <2>1 DEF ClockOK
<1>5. ASSUME mutating \in {"prepare", "import", "cleanup"}
      PROVE  clock + Allowance(mutating) <= OperatorDeadline
  <2>1. CASE mutating = "prepare"
    BY <1>1, <1>2, <2>1, Allowances DEF OnSchedule
  <2>2. CASE mutating = "import"
    BY <1>1, <1>2, <2>2, Allowances DEF ClockOK, OnSchedule
  <2>3. CASE mutating = "cleanup"
    BY <1>1, <1>2, <2>3, Allowances DEF ClockOK, OnSchedule, AfterImport
  <2> QED
    BY <1>5, <2>1, <2>2, <2>3
<1> QED
  BY <1>1, <1>4, <1>5

(* A phase inside its allowance moves the clock by no more than that.       *)
LEMMA PassingKeepsTime ==
    ASSUME ClockOK, NEW phase \in HarborPhases \cup {"prepare", "import", "cleanup"},
           NEW d \in Durations(phase), Passes(phase, d)
    PROVE  /\ clock' \in Nat /\ Allowance(phase) \in Nat
           /\ ~overran' => ~overran /\ clock' <= clock + Allowance(phase)
<1>1. d \in Nat /\ Allowance(phase) \in Nat
  BY DurationsAreTimes
<1>2. clock' = clock + d
  BY DEF Passes
<1>3. ~overran' => ~overran /\ ~(d > Allowance(phase))
  BY DEF Passes
<1> QED
  BY <1>1, <1>2, <1>3 DEF ClockOK

(* The clock starts at zero, and no deadline has passed. *)
LEMMA MutateInitBudget == MutateInit => BudgetInv
<1> SUFFICES ASSUME MutateInit PROVE BudgetInv
  OBVIOUS
<1>1. ClockOK
  BY HarborAssumption DEF MutateInit, ClockOK
<1>2. OnSchedule
  BY DEF MutateInit, OnSchedule, HarborPhases, AfterImport
<1>3. NoDeadline
  BY DEF MutateInit, NoDeadline
<1> QED
  BY <1>1, <1>2, <1>3 DEF BudgetInv

(* Steps that take no time. *)
LEMMA TimelessBudget ==
    ASSUME BudgetInv, UNCHANGED <<agent, times>>, result' # "deadline" \/ result' = result,
           \/ mutating' = mutating
           \/ mutating = "prepare" /\ mutating' = "cleanup"
           \/ mutating = "inspect" /\ mutating' \in {"import", "cleanup"}
           \/ mutating \in {"import"} \cup AfterImport /\ mutating' \in AfterImport
           \/ mutating' = "killed"
    PROVE  BudgetInv'
<1>1. UNCHANGED <<agent, clock, began, attempt, overran, timedOut>>
  BY DEF times
<1>2. ClockOK'
  <2>1. ClockOK /\ (mutating' \in {"prepare", "compile"} => mutating' = mutating)
    BY DEF BudgetInv, AfterImport
  <2> QED
    BY <1>1, <2>1 DEF ClockOK
<1>3. NoDeadline => NoDeadline'
  BY <1>1 DEF NoDeadline
<1>4. ASSUME OnSchedule PROVE OnSchedule'
  <2> DEFINE most == Allowance("prepare") + HarborProcess
             all == most + Allowance("import")
  <2>1. clock \in Nat /\ most \in Nat /\ Allowance("import") \in Nat
    BY BudgetTypes DEF BudgetInv, ClockOK
  <2>2. clock <= most => clock <= all
    BY <2>1
  <2>3. mutating = "prepare" => clock <= most
    BY <1>4, <2>1 DEF OnSchedule
  <2>4. mutating \in {"prepare", "inspect", "import"} => clock <= most
    BY <1>4, <2>3 DEF OnSchedule
  <2>5. mutating \in AfterImport => clock <= all
    BY <1>4 DEF OnSchedule
  <2> HIDE DEF most, all
  <2>6. mutating' \in {"inspect", "import"} => clock <= most
    BY <2>4 DEF AfterImport
  <2>7. mutating' \in AfterImport => clock <= all
    BY <2>2, <2>4, <2>5 DEF AfterImport
  <2>8. (mutating' = "prepare" \/ mutating' \in HarborPhases) => mutating' = mutating
    BY DEF HarborPhases, AfterImport
  <2>9. HarborSoFar(mutating, attempt)' = HarborSoFar(mutating', attempt)
    BY <1>1 DEF HarborSoFar
  <2> QED
    BY <1>1, <1>4, <2>6, <2>7, <2>8, <2>9 DEF OnSchedule, most, all
<1> QED
  BY <1>1, <1>2, <1>3, <1>4 DEF BudgetInv, PerAttempt

(* Preparation ends within its allowance, and Harbor's job begins then.     *)
LEMMA PrepareBudget ==
    ASSUME BudgetInv, Prepare
    PROVE  BudgetInv'
<1>1. PICK d \in Durations("prepare") : Passes("prepare", d)
  BY DEF Prepare
<1>2. clock' \in Nat /\ (~overran' => ~overran /\ clock' <= clock + Allowance("prepare"))
  BY <1>1, PassingKeepsTime, Allowances DEF BudgetInv
<1>3. /\ began' = clock' /\ attempt' = attempt /\ timedOut' = timedOut /\ agent' = agent
      /\ mutating = "prepare" /\ mutating' \in {"compile", "cleanup"}
      /\ result' \in {result, "error"}
  BY DEF Prepare, Fails
<1>4. ClockOK'
  BY <1>2, <1>3 DEF BudgetInv, ClockOK
<1>5. ASSUME PerAttempt', ~overran' PROVE OnSchedule' /\ NoDeadline'
  <2>1. OnSchedule /\ NoDeadline
    BY <1>2, <1>3, <1>5 DEF BudgetInv, PerAttempt
  <2>2. clock' <= Allowance("prepare")
    BY <1>2, <1>3, <1>5, <2>1, Allowances DEF OnSchedule
  <2>3. HarborSoFar("compile", attempt') = 0
    BY DEF HarborSoFar
  <2>4. HarborProcess \in Nat /\ Allowance("prepare") \in Nat /\ Allowance("import") \in Nat
    BY RoundsFit, Allowances DEF BudgetInv, ClockOK
  <2>5. \A spent \in Nat : clock' <= began' + spent
    <3>1. clock' \in Nat /\ began' = clock'
      BY <1>2, <1>3
    <3>2. ASSUME NEW n \in Nat, NEW spent \in Nat
          PROVE  n <= n + spent
      OBVIOUS
    <3> QED
      BY <3>1, <3>2
  <2>a. clock' <= Allowance("prepare") + HarborProcess + Allowance("import")
    BY <1>2, <2>2, <2>4
  <2>6. OnSchedule'
    BY <1>3, <2>2, <2>3, <2>5, <2>a DEF OnSchedule, HarborPhases, AfterImport
  <2> QED
    BY <1>3, <2>1, <2>6 DEF NoDeadline
<1> QED
  BY <1>4, <1>5 DEF BudgetInv

(* A phase of Harbor's job that keeps to its allowance ends on schedule.    *)
LEMMA PhaseBudget ==
    ASSUME BudgetInv, NEW phase \in HarborPhases, Phase(phase)
    PROVE  BudgetInv'
<1>1. PICK d \in Durations(phase) : Passes(phase, d)
  BY DEF Phase
<1>2. /\ clock' \in Nat /\ Allowance(phase) \in Nat
      /\ ~overran' => ~overran /\ clock' <= clock + Allowance(phase)
  BY <1>1, PassingKeepsTime DEF BudgetInv
<1>3. /\ began' = began /\ attempt' = attempt /\ timedOut' = timedOut /\ agent' = agent
      /\ mutating = phase /\ phase # "teardown" /\ mutating' = Following(phase)
      /\ result' = result
  BY DEF Phase
<1>4. mutating' \in HarborPhases /\ mutating' # "compile"
  BY <1>3 DEF HarborPhases, Following
<1>5. ClockOK'
  BY <1>2, <1>3, <1>4 DEF BudgetInv, ClockOK, HarborPhases
<1>6. ASSUME PerAttempt', ~overran' PROVE OnSchedule' /\ NoDeadline'
  <2>1. OnSchedule /\ NoDeadline
    BY <1>2, <1>3, <1>6 DEF BudgetInv, PerAttempt
  <2>2. /\ HarborSoFar(phase, attempt) \in Int
        /\ HarborSoFar(phase, attempt) + Allowance(phase) = HarborSoFar(mutating', attempt')
    BY <1>3, PhaseFits DEF BudgetInv, ClockOK
  <2>3. /\ began' <= Allowance("prepare")
        /\ clock' <= began' + HarborSoFar(mutating', attempt')
    BY <1>2, <1>3, <1>6, <2>1, <2>2 DEF OnSchedule, BudgetInv, ClockOK
  <2>4. OnSchedule'
    BY <1>4, <2>3 DEF OnSchedule, HarborPhases, AfterImport
  <2> QED
    BY <1>3, <2>1, <2>4 DEF NoDeadline
<1> QED
  BY <1>5, <1>6 DEF BudgetInv

(* The only step that counts a round. *)
LEMMA TeardownBudget ==
    ASSUME BudgetInv, Teardown
    PROVE  BudgetInv'
<1>1. PICK d \in Durations("teardown") : Passes("teardown", d)
  BY DEF Teardown
<1>2. clock' \in Nat /\ (~overran' => ~overran /\ clock' <= clock + Allowance("teardown"))
  BY <1>1, PassingKeepsTime DEF BudgetInv, HarborPhases
<1>3. /\ began' = began /\ timedOut' = timedOut /\ agent' = agent
      /\ mutating = "teardown" /\ result' = result
      /\ \/ mutating' = "inspect" /\ attempt' = attempt
         \/ attempt < MaxRetries /\ mutating' = "recreate" /\ attempt' = attempt + 1
  BY DEF Teardown
<1>4. ClockOK'
  BY <1>2, <1>3, HarborAssumption DEF BudgetInv, ClockOK
<1>5. ASSUME PerAttempt', ~overran' PROVE OnSchedule' /\ NoDeadline'
  <2> DEFINE soFar == HarborSoFar("teardown", attempt)
             allowed == Allowance("teardown")
  <2>1. OnSchedule /\ NoDeadline
    BY <1>2, <1>3, <1>5 DEF BudgetInv, PerAttempt
  <2>2. /\ soFar \in Int /\ allowed \in Nat
        /\ soFar + allowed <= HarborProcess
        /\ soFar + allowed = HarborSoFar("recreate", attempt + 1)
    BY PhaseFits, Allowances DEF BudgetInv, ClockOK, HarborPhases
  <2>3. began <= Allowance("prepare") /\ clock <= began + soFar
    BY <1>3, <2>1 DEF OnSchedule, HarborPhases
  <2>4. HarborProcess \in Nat /\ began \in Nat /\ clock \in Nat /\ Allowance("prepare") \in Nat
    BY RoundsFit, Allowances DEF BudgetInv, ClockOK
  <2> HIDE DEF soFar, allowed
  <2>5. clock' <= began + (soFar + allowed) /\ clock' <= Allowance("prepare") + HarborProcess
    <3>1. clock' <= clock + allowed
      BY <1>2, <1>5 DEF allowed
    <3> QED
      BY <1>2, <2>2, <2>3, <2>4, <3>1
  <2>6. OnSchedule'
    BY <1>3, <2>2, <2>3, <2>5 DEF OnSchedule, HarborPhases, AfterImport
  <2> QED
    BY <1>3, <2>1, <2>6 DEF NoDeadline
<1> QED
  BY <1>4, <1>5 DEF BudgetInv

(* A deadline is only reached when something has overrun. *)
LEMMA DeadlineBudget ==
    ASSUME BudgetInv, HarborTimesOut \/ DeadlinePasses, Timeout > 0
    PROVE  BudgetInv'
<1>1. mutating \in HarborPhases \cup {"prepare", "import", "cleanup"}
  BY DEF HarborTimesOut, DeadlinePasses
<1>2. PICK d \in Durations(mutating) :
         /\ overran' = (overran \/ d > Allowance(mutating))
         /\ \/ HarborTimesOut /\ clock + d > began + ProcessLimit
            \/ DeadlinePasses /\ clock + d > OperatorDeadline
  BY DEF HarborTimesOut, DeadlinePasses
<1>3. d \in Nat /\ Allowance(mutating) \in Nat
  BY <1>1, DurationsAreTimes
<1>4. PerAttempt => overran'
  <2> SUFFICES ASSUME PerAttempt, ~overran' PROVE FALSE
    OBVIOUS
  <2>1. ~overran /\ ~(d > Allowance(mutating))
    BY <1>2
  <2>2. OnSchedule /\ ClockOK
    BY <2>1 DEF BudgetInv
  <2>3. d <= Allowance(mutating)
    BY <1>3, <2>1
  <2>4. /\ ProcessLimit \in Nat /\ OperatorDeadline \in Nat
        /\ mutating \in HarborPhases =>
              /\ clock + Allowance(mutating) <= began + ProcessLimit
              /\ clock + Allowance(mutating) <= OperatorDeadline
        /\ mutating \in {"prepare", "import", "cleanup"} =>
              clock + Allowance(mutating) <= OperatorDeadline
    BY <2>2, DeadlinesAreFar, RoundsFit DEF ClockOK
  <2>5. HarborTimesOut => mutating \in HarborPhases
    BY DEF HarborTimesOut
  <2> QED
    BY <1>1, <1>2, <1>3, <2>2, <2>3, <2>4, <2>5 DEF ClockOK
<1>5. UNCHANGED <<agent, attempt, began>>
  BY DEF HarborTimesOut, DeadlinePasses
<1>6. mutating' \in {"inspect", "killed"}
  BY DEF HarborTimesOut, DeadlinePasses
<1>7. OperatorDeadline \in Nat /\ ProcessLimit \in Nat
  BY RoundsFit, Allowances DEF OperatorDeadline, ProcessLimit, RunTimeout, Least, Most,
     BudgetInv, ClockOK
<1>8. clock' \in Nat
  <2>1. clock' = began + ProcessLimit \/ clock' = OperatorDeadline
    BY DEF HarborTimesOut, DeadlinePasses
  <2> QED
    BY <1>7, <2>1 DEF BudgetInv, ClockOK
<1> QED
  BY <1>4, <1>5, <1>6, <1>8 DEF BudgetInv, ClockOK, PerAttempt

(* Every step of a mutation that is on schedule leaves it on schedule.      *)
LEMMA MutateNextBudget ==
    ASSUME BudgetInv, [MutateNext]_mutateVars, Timeout > 0
    PROVE  BudgetInv'
<1>1. CASE PrepareRaises
  BY <1>1, TimelessBudget DEF PrepareRaises, Fails
<1>2. CASE Inspect
  BY <1>2, TimelessBudget DEF Inspect, Fails
<1>3. CASE Copy \/ Cleanup
  <2>1. PICK phase \in {"import", "cleanup"} :
           mutating = phase /\ \E d \in Durations(phase) : Passes(phase, d)
    BY <1>3 DEF Copy, Cleanup
  <2>2. /\ clock' \in Nat /\ Allowance(phase) \in Nat
        /\ ~overran' => ~overran /\ clock' <= clock + Allowance(phase)
    BY <2>1, PassingKeepsTime DEF BudgetInv
  <2>3. /\ UNCHANGED <<agent, began, attempt, timedOut>>
        /\ phase = "import" => mutating' = "rename"
        /\ phase = "cleanup" => mutating' = "done"
    BY <1>3, <2>1 DEF Copy, Cleanup
  <2>4. result' = result
    BY <1>3 DEF Copy, Cleanup
  <2>5. ClockOK'
    BY <2>1, <2>2, <2>3 DEF BudgetInv, ClockOK
  <2>6. ASSUME PerAttempt', ~overran' PROVE OnSchedule' /\ NoDeadline'
    <3>1. OnSchedule /\ NoDeadline
      BY <2>2, <2>3, <2>6 DEF BudgetInv, PerAttempt
    <3>2. phase = "import" =>
             clock' <= Allowance("prepare") + HarborProcess + Allowance("import")
      <4>1. phase = "import" => clock <= Allowance("prepare") + HarborProcess
        BY <2>1, <3>1 DEF OnSchedule
      <4>2. phase = "import" => clock' <= clock + Allowance("import")
        BY <2>2, <2>6
      <4> QED
        BY <2>2, <4>1, <4>2, BudgetTypes DEF BudgetInv, ClockOK
    <3>3. OnSchedule'
      BY <2>1, <2>3, <3>2 DEF OnSchedule, HarborPhases, AfterImport
    <3> QED
      BY <2>3, <2>4, <3>1, <3>3 DEF NoDeadline
  <2> QED
    BY <2>5, <2>6 DEF BudgetInv
<1>4. CASE Rename \/ Check \/ Discard \/ ImportRaises
  <2>1. UNCHANGED <<agent, times>>
    BY <1>4 DEF Rename, Check, Discard, ImportRaises
  <2>2. /\ mutating \in {"import"} \cup AfterImport /\ mutating' \in AfterImport
        /\ result' = result \/ result' = "ok"
    BY <1>4 DEF Rename, Check, Discard, ImportRaises, AfterImport
  <2> QED
    BY <2>1, <2>2, TimelessBudget
<1>5. CASE UndoSpace \/ UndoInstalled \/ UndoMoved \/ UndoRaises
  <2>1. UNCHANGED <<agent, times>>
    BY <1>5 DEF UndoSpace, UndoInstalled, UndoMoved, UndoRaises
  <2>2. /\ mutating \in AfterImport /\ mutating' \in AfterImport
        /\ result' = result \/ result' = "error"
    BY <1>5 DEF UndoSpace, UndoInstalled, UndoMoved, UndoRaises, Fails, AfterImport
  <2> QED
    BY <2>1, <2>2, TimelessBudget
<1>6. CASE Interrupted \/ UNCHANGED mutateVars
  BY <1>6, TimelessBudget DEF Interrupted, mutateVars
<1> QED
  BY <1>1, <1>2, <1>3, <1>4, <1>5, <1>6, PrepareBudget, PhaseBudget, TeardownBudget, DeadlineBudget
  DEF MutateNext

(* For every timeout and every number of retries the budget pays for a        *)
(* mutation whose phases keep to their allowances: neither deadline passes.  *)
THEOREM BudgetIsEnough ==
    ASSUME Timeout > 0
    PROVE  MutateSpec => []BudgetSuffices
<1>1. MutateInit => BudgetInv
  BY MutateInitBudget
<1>2. BudgetInv /\ [MutateNext]_mutateVars => BudgetInv'
  BY MutateNextBudget
<1>3. BudgetInv => BudgetSuffices
  BY DEF BudgetInv, NoDeadline, BudgetSuffices
<1> QED
  BY <1>1, <1>2, <1>3, PTL DEF MutateSpec

------------------------------------------------------------------------------
(* PrivateSearch: whatever the names, the files and the size of a chunk.  A   *)
(* mention that has not been found begins in the part that is searched again. *)

MentionAhead(position) == \A m \in Matches(0, Len(file)) : m[1] > position

SearchInv ==
    /\ file \in Seq(STRING) /\ searched \in 0..Len(file) /\ from = TailBefore(searched)
    /\ mention = "undecided" => MentionAhead(from)
    /\ mention = "absent" => Matches(0, Len(file)) = {}

(* A set of naturals that is not empty has a least member. *)
LEMMA LeastNatural ==
    ASSUME NEW S \in SUBSET Nat, S # {}
    PROVE  Min(S) \in S /\ \A n \in S : Min(S) <= n
<1>1. \E m \in S : \A n \in S : ~(<<n, m>> \in OpToRel(<, Nat))
  BY NatLessThanWellFounded, WFMin
<1>2. \A m, n \in Nat : <<n, m>> \in OpToRel(<, Nat) <=> n < m
  BY DEF OpToRel
<1>3. PICK m \in S : \A n \in S : ~(n < m)
  BY <1>1, <1>2
<1>4. \A n \in S : m <= n
  BY <1>3
<1> QED
  BY <1>4 DEF Min

(* A match is as long as its name. *)
LEMMA MatchIsShort ==
    ASSUME file \in Seq(STRING), NEW a \in Nat, NEW b \in 0..Len(file), NEW m \in Matches(a, b)
    PROVE  /\ m \in Nat \X Nat /\ m = <<m[1], m[2]>>
           /\ a < m[1] /\ m[1] <= m[2] /\ m[2] <= b /\ m[2] < m[1] + Longest
<1>1. m[1] \in a + 1 .. b /\ m[2] \in a + 1 .. b /\ m = <<m[1], m[2]>>
  BY DEF Matches
<1>2. Len(SubSeq(file, m[1], m[2])) \in 1..Longest
  BY SearchAssumption DEF Matches
<1>3. Len(SubSeq(file, m[1], m[2])) = IF m[1] <= m[2] THEN m[2] - m[1] + 1 ELSE 0
  <2>1. m[1] \in Int /\ m[2] \in Int /\ \A i \in m[1]..m[2] : file[i] \in STRING
    BY <1>1
  <2> QED
    BY <2>1, SubSeqProperties
<1> QED
  BY <1>1, <1>2, <1>3, SearchAssumption

(* So is a mention. *)
LEMMA MentionIsShort ==
    ASSUME file \in Seq(STRING), NEW m \in Matches(0, Len(file))
    PROVE  /\ m \in Nat \X Nat /\ m = <<m[1], m[2]>>
           /\ 0 < m[1] /\ m[1] <= m[2] /\ m[2] <= Len(file) /\ m[2] < m[1] + Longest
<1>1. 0 \in Nat /\ Len(file) \in 0..Len(file)
  OBVIOUS
<1> QED
  BY <1>1, MatchIsShort

(* Where there is a match, there is a first one. *)
LEMMA FirstMatch ==
    ASSUME file \in Seq(STRING), NEW a \in Nat, NEW b \in 0..Len(file), Matches(a, b) # {}
    PROVE  \E m \in Matches(a, b) : IsFirst(m, a, b)
<1> DEFINE M == Matches(a, b)
           Starts == {m[1] : m \in M}
<1>1. \A m \in M : m[1] \in Nat /\ m[2] \in Nat /\ m = <<m[1], m[2]>>
  BY MatchIsShort
<1>2. Starts \in SUBSET Nat /\ Starts # {}
  BY <1>1
<1> DEFINE start == Min(Starts)
           Ends == {m[2] : m \in {n \in M : n[1] = start}}
<1> HIDE DEF M
<1>3. start \in Starts /\ \A n \in Starts : start <= n
  BY <1>2, LeastNatural
<1> HIDE DEF start
<1>4. Ends \in SUBSET Nat /\ Ends # {}
  BY <1>1, <1>3
<1> DEFINE end == Min(Ends)
<1>5. end \in Ends /\ \A n \in Ends : end <= n
  BY <1>4, LeastNatural
<1> HIDE DEF end
<1>6. PICK m \in M : m[1] = start /\ m[2] = end
  BY <1>5
<1>7. \A n \in M : m[1] < n[1] \/ (m[1] = n[1] /\ m[2] <= n[2])
  <2> TAKE n \in M
  <2>1. n[1] \in Nat /\ start \in Nat /\ start <= n[1]
    BY <1>1, <1>2, <1>3
  <2>2. n[1] = start => end <= n[2]
    BY <1>5
  <2> QED
    BY <1>6, <2>1, <2>2
<1> QED
  BY <1>6, <1>7 DEF IsFirst, M

(* A mention that begins in the part searched is a match of that part. *)
LEMMA MentionMatches ==
    ASSUME file \in Seq(STRING), NEW a \in Nat, NEW b \in 0..Len(file),
           NEW m \in Matches(0, Len(file)), a < m[1], m[2] <= b
    PROVE  m \in Matches(a, b)
<1>1. /\ m \in Nat \X Nat /\ 0 < m[1] /\ m[1] <= m[2] /\ m[2] <= Len(file)
      /\ m = <<m[1], m[2]>>
  BY MentionIsShort
<1>2. m[1] \in a + 1 .. b /\ m[2] \in a + 1 .. b
  BY <1>1
<1>3. m[1] = a + 1 \/ file[m[1] - 1] \notin Letters
  BY <1>1 DEF Matches
<1>4. m[2] = b \/ file[m[2] + 1] \notin Letters
  BY <1>1 DEF Matches
<1>5. SubSeq(file, m[1], m[2]) \in Names
  BY DEF Matches
<1> QED
  BY <1>1, <1>2, <1>3, <1>4, <1>5 DEF Matches

(* After a chunk without a whole match every mention begins in the part that  *)
(* is kept: one that began earlier would end inside the text searched, and    *)
(* the first match, no longer than it could be, too.                        *)
LEMMA ChunkKeepsMentions ==
    ASSUME SearchInv, MentionAhead(from), NEW e \in 0..Len(file), ~MatchIsWhole(from, e)
    PROVE  MentionAhead(TailBefore(e))
<1> SUFFICES ASSUME NEW m \in Matches(0, Len(file)), ~(m[1] > TailBefore(e))
             PROVE  FALSE
  BY DEF MentionAhead
<1>1. file \in Seq(STRING) /\ from \in Nat /\ Longest \in Nat /\ Overlap = Longest + 1
  BY SearchAssumption DEF SearchInv, TailBefore, Overlap
<1>2. /\ m[1] \in Nat /\ m[2] \in Nat /\ 0 < m[1] /\ from < m[1]
      /\ m[2] < m[1] + Longest
  BY <1>1, MentionIsShort DEF MentionAhead
<1>3. m[1] <= e - Overlap
  BY <1>1, <1>2 DEF TailBefore
<1>4. m \in Matches(from, e)
  BY <1>1, <1>2, <1>3, MentionMatches
<1>5. PICK n \in Matches(from, e) : IsFirst(n, from, e)
  BY <1>1, <1>4, FirstMatch
<1>6. n[1] \in Nat /\ n[2] \in Nat /\ n[2] < n[1] + Longest
  BY <1>1, MatchIsShort
<1>7. n[1] <= m[1]
  BY <1>2, <1>4, <1>5, <1>6 DEF IsFirst
<1>8. n[2] < e
  BY <1>1, <1>2, <1>3, <1>6, <1>7
<1> QED
  BY <1>5, <1>8 DEF MatchIsWhole

(* A file that is passed mentions no private task, for all names, files and   *)
(* sizes of a chunk: what the search drops between two chunks never holds     *)
(* the beginning of a mention (_contains_private_task_name).                *)
THEOREM NothingPrivateIsMissed == SearchSpec => []NoMentionMissed
<1>1. SearchInit => SearchInv
  <2> SUFFICES ASSUME SearchInit PROVE SearchInv
    OBVIOUS
  <2>1. file \in Seq(STRING) /\ from = 0 /\ searched = 0 /\ mention = "undecided"
    BY SearchAssumption DEF SearchInit
  <2>2. MentionAhead(0)
    BY <2>1, MentionIsShort DEF MentionAhead
  <2>3. from = TailBefore(searched)
    BY <2>1, SearchAssumption DEF TailBefore, Overlap
  <2> QED
    BY <2>1, <2>2, <2>3 DEF SearchInv
<1>2. SearchInv /\ [SearchNext]_searchVars => SearchInv'
  <2> SUFFICES ASSUME SearchInv, [SearchNext]_searchVars PROVE SearchInv'
    OBVIOUS
  <2>0. file \in Seq(STRING) /\ Len(file) \in Nat /\ file' = file /\ from \in Nat
    BY SearchAssumption DEF SearchInv, SearchNext, ReadChunk, FileEnds, ReadingFails, searchVars,
       TailBefore, Overlap
  <2>1. Matches(0, Len(file))' = Matches(0, Len(file))
    BY <2>0 DEF Matches
  <2>2. CASE ReadChunk
    <3>1. NextEnd \in 0..Len(file)
      BY <2>0, <2>2, SearchAssumption DEF ReadChunk, NextEnd, SearchInv
    <3>2. searched' = NextEnd /\ from' = TailBefore(NextEnd) /\ mention' # "absent"
      BY <2>2 DEF ReadChunk
    <3>3. mention' = "undecided" => MentionAhead(TailBefore(NextEnd))
      BY <2>2, <3>1, ChunkKeepsMentions DEF ReadChunk, SearchInv
    <3>4. from' = TailBefore(searched)'
      BY <3>2 DEF TailBefore, Overlap
    <3>5. mention' = "undecided" => MentionAhead(from)'
      BY <2>1, <3>2, <3>3 DEF MentionAhead
    <3> QED
      BY <2>0, <3>1, <3>2, <3>4, <3>5 DEF SearchInv
  <2>3. CASE FileEnds
    <3>1. UNCHANGED <<from, searched>> /\ searched = Len(file) /\ MentionAhead(from)
      BY <2>3 DEF FileEnds, SearchInv
    <3>2. mention' \in {"present", "absent"}
          /\ (mention' = "absent" => Matches(from, Len(file)) = {})
      BY <2>3 DEF FileEnds
    <3>3. \A m \in Matches(0, Len(file)) : m \in Matches(from, Len(file))
      <4> TAKE m \in Matches(0, Len(file))
      <4>1. from < m[1] /\ m[2] <= Len(file)
        BY <2>0, <3>1, MentionIsShort DEF MentionAhead
      <4> QED
        BY <2>0, <4>1, MentionMatches
    <3> QED
      BY <2>0, <2>1, <3>1, <3>2, <3>3 DEF SearchInv, TailBefore, Overlap
  <2>4. CASE ReadingFails \/ UNCHANGED searchVars
    <3>1. UNCHANGED <<from, searched>> /\ (mention' = mention \/ mention' = "unreadable")
      BY <2>4 DEF ReadingFails, searchVars
    <3> QED
      BY <2>0, <2>1, <3>1 DEF SearchInv, MentionAhead, TailBefore, Overlap
  <2> QED
    BY <2>2, <2>3, <2>4 DEF SearchNext
<1>3. SearchInv => NoMentionMissed
  BY DEF SearchInv, NoMentionMissed
<1> QED
  BY <1>1, <1>2, <1>3, PTL DEF SearchSpec

------------------------------------------------------------------------------
(* Admission: the outputs of the stages.  An output has the level of its     *)
(* stage in the order of the stages.                                        *)

Level(path) == Position(StageOf(path))

OperatorPcs == {"archive", "operator", "feedback", "judging", "receipt"}
CommitPcs   == {"commit", "snapshot", "stage", "gitcommit", "tag"}

OutputSet ==
    [run : Nat, valid : BOOLEAN, accept : BOOLEAN, receipt : Trees \cup {None}]

AdmissionTypeOK ==
    /\ tree \in Trees \cup {None} /\ seen \in Trees \cup {None}
    /\ outputs \in [Paths -> OutputSet \cup {None}]
    /\ todo \subseteq Paths /\ runs \in Nat
    /\ judged \in [Judges -> {None} \cup ((Trees \cup {None}) \X BOOLEAN)]
    /\ pc \in OperatorPcs => cmd \in StageNames
    /\ pc \in {"judging", "receipt"} => cmd \in Judges
    /\ pc = "feedback" => cmd = "analyze"

(* While an operator is invoked, all that it has not written itself is older; *)
(* what is to be archived is still listed, and gone when the operator runs.  *)
OutputsInOrder ==
    /\ \A p \in Paths : outputs[p] # None => outputs[p].run <= runs
    /\ pc \in OperatorPcs =>
          \A p \in Paths : outputs[p] # None /\ Level(p) # Position(cmd) =>
             outputs[p].run < runs
    /\ pc = "archive" =>
          \A p \in Paths :
             /\ outputs[p] # None => outputs[p].run < runs
             /\ outputs[p] # None /\ Level(p) >= Position(cmd) => p \in todo
    /\ pc \in OperatorPcs \ {"archive"} =>
          \A p \in Paths : Level(p) > Position(cmd) => outputs[p] = None
    /\ pc \in {"operator", "judging"} =>
          \A p \in Paths : Level(p) >= Position(cmd) => outputs[p] = None

StaleInv == AdmissionTypeOK /\ OutputsInOrder /\ NothingStale

(* The stages have the positions 1 to 6. *)
LEMMA StageFacts ==
    /\ StageNames = {"select", "rollout", "analyze", "mutate", "validate", "novelty"}
    /\ \A s \in StageNames : Position(s) \in 1..6 /\ StageOrder[Position(s)] = s
<1>1. /\ DOMAIN StageOrder = 1..6
      /\ StageOrder[1] = "select" /\ StageOrder[2] = "rollout" /\ StageOrder[3] = "analyze"
      /\ StageOrder[4] = "mutate" /\ StageOrder[5] = "validate" /\ StageOrder[6] = "novelty"
  BY DEF StageOrder
<1>2. StageNames = {"select", "rollout", "analyze", "mutate", "validate", "novelty"}
  BY <1>1 DEF StageNames
<1>3. ASSUME NEW s \in StageNames
      PROVE  Position(s) \in 1..6 /\ StageOrder[Position(s)] = s
  <2>1. \E i \in DOMAIN StageOrder : StageOrder[i] = s
    BY DEF StageNames
  <2> QED
    BY <1>1, <2>1 DEF Position
<1> QED
  BY <1>2, <1>3

(* No two stages share one. *)
LEMMA PositionIsUnique ==
    ASSUME NEW s \in StageNames, NEW u \in StageNames, Position(s) = Position(u)
    PROVE  s = u
  BY StageFacts

(* The outputs that a rerun of each stage removes. *)
LEMMA OutputFacts ==
    /\ OutputsOf("select") = {"parents.json"} /\ OutputsOf("rollout") = {"rollout"}
    /\ OutputsOf("analyze") = {"analyze", "feedback"} /\ OutputsOf("mutate") = {"mutate"}
    /\ OutputsOf("validate") = {"validate"} /\ OutputsOf("novelty") = {"novelty.json", "novelty"}
  BY DEF OutputsOf, StageOutputs

(* Every path belongs to one stage. *)
LEMMA PathsOfStages ==
    /\ \A p \in Paths : StageOf(p) \in StageNames /\ p \in OutputsOf(StageOf(p))
    /\ \A s \in StageNames : \A p \in OutputsOf(s) : p \in Paths /\ StageOf(p) = s
<1>1. Paths = {"parents.json", "rollout", "analyze", "feedback", "mutate", "validate",
               "novelty.json", "novelty"}
  BY DEF Paths, AllPaths, StageOutputs
<1>2. \A s, u \in StageNames : \A p \in OutputsOf(s) \cap OutputsOf(u) : s = u
  BY StageFacts, OutputFacts
<1>3. \A p \in Paths : \E s \in StageNames : p \in OutputsOf(s)
  BY <1>1, StageFacts, OutputFacts
<1>4. \A s \in StageNames : OutputsOf(s) \subseteq Paths
  BY <1>1, StageFacts, OutputFacts
<1>5. \A p \in Paths : StageOf(p) \in StageNames /\ p \in OutputsOf(StageOf(p))
  BY <1>3 DEF StageOf
<1> QED
  BY <1>2, <1>4, <1>5

(* Every output belongs to one stage; answers and receipts to their own.    *)
LEMMA LevelFacts ==
    /\ \A p \in Paths : Level(p) \in 1..6
    /\ \A s \in StageNames : AnswerPath(s) \in Paths /\ Level(AnswerPath(s)) = Position(s)
    /\ \A j \in Judges : ReceiptPath(j) \in Paths /\ Level(ReceiptPath(j)) = Position(j)
    /\ "feedback" \in Paths /\ Level("feedback") = Position("analyze")
    /\ Judges \subseteq StageNames
<1>1. \A s \in StageNames : AnswerPath(s) \in OutputsOf(s)
  BY StageFacts, OutputFacts DEF AnswerPath, StageOutputs
<1>2. \A j \in Judges : ReceiptPath(j) \in OutputsOf(j) /\ j \in StageNames
  BY StageFacts, OutputFacts DEF Judges, ReceiptPath, StageOutputs
<1>3. "feedback" \in OutputsOf("analyze") /\ "analyze" \in StageNames
  BY StageFacts, OutputFacts
<1> QED
  BY <1>1, <1>2, <1>3, PathsOfStages, StageFacts DEF Level

(* Admission: what the judges have said.  As long as nobody edits during a    *)
(* command, a receipt names the tree that its judge read last.               *)

HasReceipt(judge) ==
    /\ HasOutput(judge)
    /\ outputs[ReceiptPath(judge)] # None /\ outputs[ReceiptPath(judge)].receipt # None

ReceiptsAreTrue ==
    \A judge \in Judges : HasReceipt(judge) =>
        judged[judge] = <<outputs[ReceiptPath(judge)].receipt, outputs[AnswerPath(judge)].accept>>

AllAccepted(content) == \A judge \in Judges \cap Configured : judged[judge] = <<content, TRUE>>

QuietInv ==
    ~raced =>
        /\ ReceiptsAreTrue
        /\ pc = "judging" => seen = tree
        /\ pc = "receipt" =>
              /\ outputs[AnswerPath(cmd)] # None
              /\ judged[cmd] = <<tree, outputs[AnswerPath(cmd)].accept>>
        /\ pc \in {"commit", "snapshot"} => AllAccepted(tree)
        /\ pc \in {"stage", "gitcommit", "tag"} => AllAccepted(seen)

(* What an operator may answer is an output of its own run. *)
LEMMA AnswersAreOutputs ==
    ASSUME AdmissionTypeOK
    PROVE  /\ Answers \subseteq OutputSet \cup {None}
           /\ \A answer \in Answers : answer = None \/ (answer.run = runs /\ answer.receipt = None)
           /\ Answer(TRUE, TRUE) \in OutputSet /\ Answer(TRUE, TRUE).run = runs
  BY DEF AdmissionTypeOK, Answers, Answer, OutputSet

(* A new child has no outputs. *)
LEMMA AdmissionInitTypeOK == AdmissionInit => AdmissionTypeOK
  BY TreeAssumption DEF AdmissionInit, AdmissionTypeOK, OperatorPcs

(* Steps that write no output. *)
LEMMA TypeWithoutOutput ==
    ASSUME AdmissionTypeOK, UNCHANGED <<outputs, runs, judged>>,
           tree' \in Trees \cup {None}, seen' \in Trees \cup {None}, todo' \subseteq Paths,
           \/ pc' \notin OperatorPcs
           \/ pc' = "judging" /\ cmd' \in Judges
           \/ UNCHANGED <<pc, cmd>>
    PROVE  AdmissionTypeOK'
<1>1. Judges \subseteq StageNames
  BY LevelFacts
<1> QED
  BY <1>1 DEF AdmissionTypeOK, OperatorPcs

(* Every command leaves outputs, receipts and trees of their types.         *)
LEMMA AdmissionNextTypeOK ==
    ASSUME AdmissionTypeOK, [AdmissionNext]_admissionVars
    PROVE  AdmissionTypeOK'
<1>1. CASE Fork \/ DropWorktree \/ ResetIndex
  BY <1>1, TreeAssumption, TypeWithoutOutput
  DEF Fork, DropWorktree, ResetIndex, command, history, AdmissionTypeOK
<1>2. ASSUME NEW content \in Trees, Edit(content) PROVE AdmissionTypeOK'
  BY <1>2, TypeWithoutOutput DEF Edit, command, AdmissionTypeOK
<1>3. ASSUME NEW stage \in StageNames, Invoke(stage) PROVE AdmissionTypeOK'
  <2>1. pc' \in {"operator", "archive"} /\ cmd' = stage /\ runs' = runs + 1
    BY <1>3 DEF Invoke
  <2>2. todo' \subseteq Paths
    BY <1>3 DEF Invoke, StaleOutputs, Existing
  <2> QED
    BY <1>3, <2>1, <2>2
    DEF Invoke, durable, worktree, history, AdmissionTypeOK, OperatorPcs
<1>4. CASE ArchiveOutput
  <2>1. PICK p \in todo : /\ outputs' = [outputs EXCEPT ![p] = None]
                          /\ todo' = todo \ {p} /\ pc' \in {"operator", "archive"}
    BY <1>4 DEF ArchiveOutput
  <2>2. outputs' \in [Paths -> OutputSet \cup {None}]
    BY <2>1 DEF AdmissionTypeOK
  <2> QED
    BY <1>4, <2>1, <2>2 DEF ArchiveOutput, worktree, history, AdmissionTypeOK, OperatorPcs
<1>5. CASE WriteFeedback
  <2>1. outputs' \in [Paths -> OutputSet \cup {None}]
    BY <1>5, AnswersAreOutputs DEF WriteFeedback, AdmissionTypeOK
  <2> QED
    BY <1>5, <2>1 DEF WriteFeedback, Stop, worktree, history, AdmissionTypeOK, OperatorPcs
<1>6. CASE JudgeReads
  BY <1>6, TypeWithoutOutput DEF JudgeReads, durable, worktree, history, AdmissionTypeOK
<1>7. CASE WriteReceipt
  <2>1. outputs' \in [Paths -> OutputSet \cup {None}]
    <3>1. ASSUME NEW p \in Paths,
                 outputs' = [outputs EXCEPT ![p] =
                    IF @ = None THEN [Answer(TRUE, TRUE) EXCEPT !.receipt = tree]
                    ELSE [@ EXCEPT !.receipt = tree]]
          PROVE  outputs' \in [Paths -> OutputSet \cup {None}]
      <4>1. [Answer(TRUE, TRUE) EXCEPT !.receipt = tree] \in OutputSet
        BY AnswersAreOutputs DEF OutputSet, AdmissionTypeOK
      <4>2. outputs[p] # None => [outputs[p] EXCEPT !.receipt = tree] \in OutputSet
        BY DEF OutputSet, AdmissionTypeOK
      <4> QED
        BY <3>1, <4>1, <4>2 DEF AdmissionTypeOK
    <3>2. ReceiptPath(cmd) \in Paths
      BY <1>7, LevelFacts DEF WriteReceipt, AdmissionTypeOK
    <3> QED
      BY <1>7, <3>1, <3>2 DEF WriteReceipt, AdmissionTypeOK
  <2> QED
    BY <1>7, <2>1 DEF WriteReceipt, Stop, worktree, history, AdmissionTypeOK, OperatorPcs
<1>8. ASSUME NEW answer \in Answers, NEW status \in {0, 1}, OperatorRuns(answer, status)
      PROVE  AdmissionTypeOK'
  <2>1. cmd \in StageNames /\ AnswerPath(cmd) \in Paths
    BY <1>8, LevelFacts DEF OperatorRuns, AdmissionTypeOK, OperatorPcs
  <2>2. outputs' = [outputs EXCEPT ![AnswerPath(cmd)] = answer]
    BY <1>8 DEF OperatorRuns, OperatorEnds
  <2>3. outputs' \in [Paths -> OutputSet \cup {None}]
    BY <2>1, <2>2, AnswersAreOutputs DEF AdmissionTypeOK
  <2>4. tree' \in Trees \cup {None}
    BY <1>8 DEF OperatorRuns, AdmissionTypeOK
  <2>5. /\ seen' \in {seen, None} /\ todo' \in {todo, {}} /\ runs' = runs /\ judged' = judged
        /\ pc' = "idle" \/ (pc' = "feedback" /\ cmd = "analyze" /\ cmd' = cmd)
    BY <1>8 DEF OperatorRuns, OperatorEnds, Stop, history
  <2> QED
    BY <2>1, <2>3, <2>4, <2>5 DEF AdmissionTypeOK, OperatorPcs
<1>9. ASSUME NEW answer \in Answers, NEW status \in {0, 1}, JudgeAnswers(answer, status)
      PROVE  AdmissionTypeOK'
  <2>1. cmd \in Judges /\ AnswerPath(cmd) \in Paths
    BY <1>9, LevelFacts DEF JudgeAnswers, AdmissionTypeOK
  <2>2. outputs' = [outputs EXCEPT ![AnswerPath(cmd)] = answer]
    BY <1>9 DEF JudgeAnswers, OperatorEnds
  <2>3. outputs' \in [Paths -> OutputSet \cup {None}]
    BY <2>1, <2>2, AnswersAreOutputs DEF AdmissionTypeOK
  <2>4. judged' \in [Judges -> {None} \cup ((Trees \cup {None}) \X BOOLEAN)]
    <3>1. CASE answer # None /\ answer.valid
      <4>1. <<seen, answer.accept>> \in (Trees \cup {None}) \X BOOLEAN
        BY <3>1, AnswersAreOutputs DEF AdmissionTypeOK, OutputSet
      <4> QED
        BY <1>9, <2>1, <3>1, <4>1 DEF JudgeAnswers, AdmissionTypeOK
    <3>2. CASE ~(answer # None /\ answer.valid)
      BY <1>9, <3>2 DEF JudgeAnswers, AdmissionTypeOK
    <3> QED
      BY <3>1, <3>2
  <2>5. /\ seen' \in {seen, None} /\ todo' \in {todo, {}} /\ runs' = runs /\ tree' = tree
        /\ pc' = "idle" \/ (pc' = "receipt" /\ cmd' = cmd)
    BY <1>9 DEF JudgeAnswers, OperatorEnds, Stop, worktree
  <2> QED
    BY <2>1, <2>3, <2>4, <2>5, LevelFacts DEF AdmissionTypeOK, OperatorPcs
<1>10. CASE BeginCommit \/ CommitChild \/ Snapshot \/ StagePaths \/ CommitIndex
  BY <1>10, TypeWithoutOutput
  DEF BeginCommit, CommitChild, Snapshot, StagePaths, CommitIndex, Stop, durable, worktree, history,
      AdmissionTypeOK, OperatorPcs
<1>11. CASE CreateTag \/ AppendLineage \/ LeaveWorktree \/ Crash
  BY <1>11, TypeWithoutOutput
  DEF CreateTag, AppendLineage, LeaveWorktree, Crash, Stop, durable, worktree, history,
      AdmissionTypeOK, OperatorPcs
<1>12. CASE UNCHANGED admissionVars
  BY <1>12 DEF admissionVars, durable, worktree, command, history, AdmissionTypeOK
<1> QED
  BY <1>1, <1>2, <1>3, <1>4, <1>5, <1>6, <1>7, <1>8, <1>9, <1>10, <1>11, <1>12 DEF AdmissionNext

(* Steps that change no output and begin no invocation. *)
LEMMA OrderWithoutOutput ==
    ASSUME OutputsInOrder, NothingStale, UNCHANGED <<outputs, runs>>,
           \/ pc' \notin OperatorPcs
           \/ pc = "operator" /\ pc' = "judging" /\ cmd' = cmd
           \/ UNCHANGED <<pc, cmd, todo>>
    PROVE  OutputsInOrder' /\ NothingStale'
  BY DEF OutputsInOrder, NothingStale, OperatorPcs

(* Whatever a command writes it writes at its own stage, when nothing is left *)
(* of the later ones.                                                       *)
LEMMA OrderAfterWrite ==
    ASSUME AdmissionTypeOK, OutputsInOrder, NothingStale,
           pc \in OperatorPcs \ {"archive"},
           NEW p \in Paths, Level(p) = Position(cmd),
           NEW answer \in OutputSet \cup {None},
           answer # None =>
              answer.run = runs \/ (outputs[p] # None /\ answer.run = outputs[p].run),
           outputs' = [outputs EXCEPT ![p] = answer], runs' = runs,
           \/ pc' = "idle"
           \/ pc' \in {"feedback", "receipt"} /\ cmd' = cmd
    PROVE  OutputsInOrder' /\ NothingStale'
<1>1. /\ outputs'[p] = answer
      /\ \A q \in Paths : q # p => outputs'[q] = outputs[q]
  BY DEF AdmissionTypeOK
<1>2. answer # None => answer.run <= runs
  BY DEF OutputsInOrder, AdmissionTypeOK, OutputSet
<1>3. \A q \in Paths : outputs'[q] # None => outputs'[q].run <= runs
  BY <1>1, <1>2 DEF OutputsInOrder
<1>4. \A q \in Paths : /\ Level(q) > Position(cmd) => outputs[q] = None
                       /\ outputs[q] # None /\ Level(q) # Position(cmd) => outputs[q].run < runs
  BY DEF OutputsInOrder
<1>5. OutputsInOrder'
  BY <1>1, <1>3, <1>4, LevelFacts DEF OutputsInOrder, OperatorPcs
<1>6. NothingStale'
  <2> SUFFICES ASSUME NEW q \in Paths, NEW s \in Paths, outputs'[q] # None, outputs'[s] # None,
                      Level(q) < Level(s)
               PROVE  outputs'[q].run < outputs'[s].run
    BY DEF NothingStale, Level
  <2>1. CASE q = p
    <3>1. s # p /\ outputs'[s] = outputs[s]
      BY <1>1, <2>1, LevelFacts
    <3>2. Level(s) > Position(cmd)
      BY <2>1
    <3> QED
      BY <1>4, <3>1, <3>2
  <2>2. CASE q # p /\ s = p
    <3>1. outputs[q] # None /\ outputs[q].run < runs
      BY <1>1, <1>4, <2>2, LevelFacts
    <3>2. CASE answer.run = runs
      BY <1>1, <2>2, <3>1, <3>2
    <3>3. CASE outputs[p] # None /\ answer.run = outputs[p].run
      BY <1>1, <2>2, <3>1, <3>3 DEF NothingStale, Level
    <3> QED
      BY <1>1, <2>2, <3>2, <3>3
  <2>3. CASE q # p /\ s # p
    BY <1>1, <2>3 DEF NothingStale, Level
  <2> QED
    BY <2>1, <2>2, <2>3
<1> QED
  BY <1>5, <1>6

(* No command leaves an output older than what it was made from.            *)
LEMMA AdmissionNextStale ==
    ASSUME StaleInv, [AdmissionNext]_admissionVars
    PROVE  StaleInv'
<1> USE DEF StaleInv
<1>0. AdmissionTypeOK'
  BY AdmissionNextTypeOK
<1>1. CASE Fork \/ DropWorktree \/ ResetIndex \/ UNCHANGED admissionVars
  BY <1>0, <1>1, OrderWithoutOutput
  DEF Fork, DropWorktree, ResetIndex, command, admissionVars, durable
<1>2. ASSUME NEW content \in Trees, Edit(content) PROVE StaleInv'
  BY <1>0, <1>2, OrderWithoutOutput DEF Edit, command
<1>3. ASSUME NEW stage \in StageNames, Invoke(stage) PROVE StaleInv'
  <2>1. /\ pc' = (IF StaleOutputs(stage) = {} THEN "operator" ELSE "archive")
        /\ cmd' = stage /\ runs' = runs + 1 /\ todo' = StaleOutputs(stage)
        /\ outputs' = outputs
    BY <1>3 DEF Invoke, durable
  <2>2. \A p \in Paths : outputs[p] # None => outputs[p].run < runs'
    BY <2>1 DEF OutputsInOrder, AdmissionTypeOK, OutputSet
  <2>3. \A p \in Paths : outputs[p] # None /\ Level(p) >= Position(stage) => p \in todo'
    BY <2>1 DEF StaleOutputs, Existing, Level
  <2>4. \A p \in Paths : pc' = "operator" /\ Level(p) >= Position(stage) => outputs[p] = None
    BY <2>1, <2>3
  <2>5. \A p \in Paths : pc' = "operator" /\ Level(p) > Position(stage) => outputs[p] = None
    BY <2>4, LevelFacts, StageFacts
  <2>6. \A p \in Paths : outputs'[p] # None => outputs'[p].run <= runs'
    BY <2>1, <2>2 DEF OutputsInOrder, AdmissionTypeOK, OutputSet
  <2>7. OutputsInOrder'
    BY <2>1, <2>2, <2>3, <2>4, <2>5, <2>6 DEF OutputsInOrder
  <2>8. NothingStale'
    BY <2>1 DEF NothingStale
  <2> QED
    BY <1>0, <2>7, <2>8
<1>4. CASE ArchiveOutput
  <2>1. PICK p \in todo : /\ outputs' = [outputs EXCEPT ![p] = None]
                          /\ todo' = todo \ {p}
                          /\ pc' = IF todo = {p} THEN "operator" ELSE "archive"
    BY <1>4 DEF ArchiveOutput
  <2>2. /\ pc = "archive" /\ UNCHANGED <<cmd, runs>> /\ p \in Paths
        /\ cmd \in StageNames
    BY <1>4, <2>1 DEF ArchiveOutput, AdmissionTypeOK, OperatorPcs
  <2>3. \A q \in Paths : outputs'[q] # None => q # p /\ outputs'[q] = outputs[q]
    BY <2>1, <2>2 DEF AdmissionTypeOK
  <2>4. \A q \in Paths : outputs[q] # None => outputs[q].run < runs /\ outputs[q].run <= runs
    BY <2>2 DEF OutputsInOrder
  <2>5. \A q \in Paths : outputs'[q] # None /\ Level(q) >= Position(cmd) => q \in todo'
    BY <2>1, <2>2, <2>3 DEF OutputsInOrder
  <2>6. todo = {p} => \A q \in Paths :
           Level(q) >= Position(cmd) \/ Level(q) > Position(cmd) => outputs'[q] = None
    BY <2>1, <2>2, <2>5, LevelFacts, StageFacts
  <2>7. OutputsInOrder'
    BY <2>1, <2>2, <2>3, <2>4, <2>5, <2>6 DEF OutputsInOrder
  <2>8. NothingStale'
    BY <2>3 DEF NothingStale
  <2> QED
    BY <1>0, <2>7, <2>8
<1>5. CASE WriteFeedback
  <2>1. /\ Level("feedback") = Position(cmd) /\ "feedback" \in Paths /\ pc = "feedback"
        /\ outputs' = [outputs EXCEPT !["feedback"] = Answer(TRUE, TRUE)]
        /\ runs' = runs /\ pc' = "idle"
    BY <1>5, LevelFacts DEF WriteFeedback, Stop, AdmissionTypeOK
  <2> QED
    BY <1>0, <2>1, AnswersAreOutputs, OrderAfterWrite DEF OperatorPcs
<1>6. CASE JudgeReads
  BY <1>0, <1>6, OrderWithoutOutput DEF JudgeReads, durable
<1>7. CASE WriteReceipt
  <2> DEFINE path == ReceiptPath(cmd)
             receipt == IF outputs[path] = None THEN [Answer(TRUE, TRUE) EXCEPT !.receipt = tree]
                        ELSE [outputs[path] EXCEPT !.receipt = tree]
  <2>1. /\ path \in Paths /\ Level(path) = Position(cmd) /\ pc = "receipt" /\ runs' = runs
        /\ pc' = "idle"
    BY <1>7, LevelFacts DEF WriteReceipt, Stop, AdmissionTypeOK
  <2>2. CASE Snapshotable
    <3>1. outputs' = [outputs EXCEPT ![path] = receipt]
      BY <1>7, <2>2 DEF WriteReceipt
    <3>2. /\ receipt \in OutputSet
          /\ receipt.run = runs \/ (outputs[path] # None /\ receipt.run = outputs[path].run)
      <4>1. CASE outputs[path] = None
        BY <4>1, AnswersAreOutputs DEF OutputSet, AdmissionTypeOK
      <4>2. CASE outputs[path] # None
        BY <2>1, <4>2 DEF OutputSet, AdmissionTypeOK
      <4> QED
        BY <4>1, <4>2
    <3> HIDE DEF path, receipt
    <3> QED
      BY <1>0, <2>1, <3>1, <3>2, OrderAfterWrite DEF OperatorPcs
  <2>3. CASE ~Snapshotable
    BY <1>0, <1>7, <2>1, <2>3, OrderWithoutOutput DEF WriteReceipt, OperatorPcs
  <2> QED
    BY <2>2, <2>3
<1>8. ASSUME NEW answer \in Answers, NEW status \in {0, 1},
             OperatorRuns(answer, status) \/ JudgeAnswers(answer, status)
      PROVE  StaleInv'
  <2>1. /\ pc \in OperatorPcs \ {"archive"} /\ runs' = runs
        /\ outputs' = [outputs EXCEPT ![AnswerPath(cmd)] = answer]
        /\ pc' = "idle" \/ (pc' \in {"feedback", "receipt"} /\ cmd' = cmd)
    BY <1>8 DEF OperatorRuns, JudgeAnswers, OperatorEnds, Stop, OperatorPcs
  <2>2. AnswerPath(cmd) \in Paths /\ Level(AnswerPath(cmd)) = Position(cmd)
    BY <2>1, LevelFacts DEF AdmissionTypeOK
  <2>3. answer \in OutputSet \cup {None} /\ (answer # None => answer.run = runs)
    BY AnswersAreOutputs
  <2> QED
    BY <1>0, <2>1, <2>2, <2>3, OrderAfterWrite
<1>9. CASE BeginCommit \/ CommitChild \/ Snapshot \/ StagePaths \/ CommitIndex
  <2>1. UNCHANGED <<outputs, runs>> /\ pc' \notin OperatorPcs
    BY <1>9 DEF BeginCommit, CommitChild, Snapshot, StagePaths, CommitIndex, Stop, durable,
       OperatorPcs
  <2> QED
    BY <1>0, <2>1, OrderWithoutOutput
<1>10. CASE CreateTag \/ AppendLineage \/ LeaveWorktree \/ Crash
  <2>1. UNCHANGED <<outputs, runs>> /\ pc' \notin OperatorPcs
    BY <1>10 DEF CreateTag, AppendLineage, LeaveWorktree, Crash, Stop, durable, OperatorPcs
  <2> QED
    BY <1>0, <2>1, OrderWithoutOutput
<1> QED
  BY <1>1, <1>2, <1>3, <1>4, <1>5, <1>6, <1>7, <1>8, <1>9, <1>10 DEF AdmissionNext

(* No output of a stage outlives the rerun of an earlier one, for any         *)
(* selection of operators, wherever a command dies.                         *)
THEOREM NothingIsEverStale == AdmissionSpec => []NothingStale
<1>1. AdmissionInit => StaleInv
  <2> SUFFICES ASSUME AdmissionInit PROVE OutputsInOrder /\ NothingStale
    BY AdmissionInitTypeOK DEF StaleInv
  <2> QED
    BY DEF AdmissionInit, OutputsInOrder, NothingStale, OperatorPcs
<1>2. StaleInv /\ [AdmissionNext]_admissionVars => StaleInv'
  BY AdmissionNextStale
<1>3. StaleInv => NothingStale
  BY DEF StaleInv
<1> QED
  BY <1>1, <1>2, <1>3, PTL DEF AdmissionSpec

------------------------------------------------------------------------------
(* Admission: what a commit may tag. *)

(* The receipts that are there after a step were there before it. *)
ReceiptsKept ==
    \A judge \in Judges : HasReceipt(judge)' =>
        /\ HasReceipt(judge)
        /\ outputs[ReceiptPath(judge)].receipt' = outputs[ReceiptPath(judge)].receipt
        /\ outputs[AnswerPath(judge)].accept' = outputs[AnswerPath(judge)].accept

(* Where the two judges leave their answers and their receipts. *)
LEMMA JudgePaths ==
    /\ Judges = {"validate", "novelty"}
    /\ AnswerPath("validate") = "validate" /\ ReceiptPath("validate") = "validate"
    /\ AnswerPath("novelty") = "novelty.json" /\ ReceiptPath("novelty") = "novelty"
    /\ "validate" \in Paths /\ "novelty" \in Paths /\ "novelty.json" \in Paths
<1>1. /\ AnswerPath("validate") = "validate" /\ ReceiptPath("validate") = "validate"
      /\ AnswerPath("novelty") = "novelty.json" /\ ReceiptPath("novelty") = "novelty"
  BY DEF AnswerPath, ReceiptPath, StageOutputs
<1>2. Judges = {"validate", "novelty"}
  BY DEF Judges
<1> QED
  BY <1>1, <1>2, LevelFacts

(* A step that removes an output, or writes one that is no judge's, leaves    *)
(* every receipt that remains as it was.                                    *)
LEMMA OtherOutputsKeepReceipts ==
    ASSUME AdmissionTypeOK, NEW p \in Paths, NEW answer,
           outputs' = [outputs EXCEPT ![p] = answer],
           answer = None \/ p \notin {"validate", "novelty", "novelty.json"}
    PROVE  ReceiptsKept
<1>1. /\ outputs'[p] = answer
      /\ \A q \in Paths : q # p => outputs'[q] = outputs[q]
  BY DEF AdmissionTypeOK
<1> SUFFICES ASSUME NEW judge \in Judges, HasReceipt(judge)'
             PROVE  /\ HasReceipt(judge)
                    /\ outputs[ReceiptPath(judge)].receipt' = outputs[ReceiptPath(judge)].receipt
                    /\ outputs[AnswerPath(judge)].accept' = outputs[AnswerPath(judge)].accept
  BY DEF ReceiptsKept
<1>2. /\ AnswerPath(judge) \in Paths \cap {"validate", "novelty", "novelty.json"}
      /\ ReceiptPath(judge) \in Paths \cap {"validate", "novelty", "novelty.json"}
  BY JudgePaths
<1>3. outputs'[AnswerPath(judge)] # None /\ outputs'[ReceiptPath(judge)] # None
  BY DEF HasReceipt, HasOutput
<1>4. AnswerPath(judge) # p /\ ReceiptPath(judge) # p
  BY <1>1, <1>2, <1>3
<1> QED
  BY <1>1, <1>2, <1>4 DEF HasReceipt, HasOutput

(* Steps in which no judge answers. *)
LEMMA QuietWithoutAnswer ==
    ASSUME QuietInv, ReceiptsKept, judged' = judged, ~raced' => ~raced,
           \/ pc' \notin CommitPcs \cup {"judging", "receipt"}
           \/ UNCHANGED <<pc, cmd, tree, seen, outputs>>
           \/ pc \in {"stage", "gitcommit"} /\ pc' \in {"gitcommit", "tag"} /\ seen' = seen
           \/ pc = "commit" /\ pc' = "snapshot" /\ tree' = tree
           \/ pc = "snapshot" /\ pc' = "stage" /\ seen' = tree
           \/ pc' = "judging" /\ seen' = tree /\ tree' = tree
           \/ pc' = "commit" /\ (~raced => AllAccepted(tree)) /\ tree' = tree
    PROVE  QuietInv'
<1> SUFFICES ASSUME ~raced'
             PROVE  /\ ReceiptsAreTrue'
                    /\ (pc = "judging" => seen = tree)'
                    /\ (pc = "receipt" =>
                          /\ outputs[AnswerPath(cmd)] # None
                          /\ judged[cmd] = <<tree, outputs[AnswerPath(cmd)].accept>>)'
                    /\ (pc \in {"commit", "snapshot"} => AllAccepted(tree))'
                    /\ (pc \in {"stage", "gitcommit", "tag"} => AllAccepted(seen))'
  BY DEF QuietInv
<1>1. ReceiptsAreTrue'
  BY DEF QuietInv, ReceiptsKept, ReceiptsAreTrue
<1> QED
  BY <1>1 DEF QuietInv, CommitPcs, AllAccepted

(* The two steps of a judge's command that write: its answer, then its        *)
(* receipt.                                                                 *)
LEMMA JudgeAnswersQuietly ==
    ASSUME StaleInv, QuietInv, NEW answer \in Answers, NEW status \in {0, 1},
           JudgeAnswers(answer, status)
    PROVE  QuietInv'
<1>1. AdmissionTypeOK /\ pc = "judging" /\ cmd \in Judges
  BY DEF StaleInv, AdmissionTypeOK, JudgeAnswers
<1>2. /\ AnswerPath(cmd) \in Paths /\ ReceiptPath(cmd) \in Paths
      /\ outputs[ReceiptPath(cmd)] = None
  BY <1>1, LevelFacts, StageFacts DEF StaleInv, OutputsInOrder, OperatorPcs
<1>3. /\ outputs' = [outputs EXCEPT ![AnswerPath(cmd)] = answer] /\ tree' = tree /\ raced' = raced
      /\ judged' = IF answer # None /\ answer.valid
                   THEN [judged EXCEPT ![cmd] = <<seen, answer.accept>>] ELSE judged
  BY DEF JudgeAnswers, OperatorEnds, worktree
<1>4. \/ pc' = "idle"
      \/ pc' = "receipt" /\ cmd' = cmd /\ answer # None /\ answer.valid
  BY DEF JudgeAnswers, OperatorEnds, Stop
<1>5. /\ outputs'[AnswerPath(cmd)] = answer
      /\ \A q \in Paths : q # AnswerPath(cmd) => outputs'[q] = outputs[q]
  BY <1>1, <1>2, <1>3 DEF AdmissionTypeOK
<1>6. ASSUME NEW judge \in Judges, judge = cmd PROVE ~HasReceipt(judge)'
  <2>1. outputs'[ReceiptPath(judge)] \in {None, answer}
    BY <1>2, <1>5, <1>6
  <2>2. answer = None \/ answer.receipt = None
    BY <1>1, AnswersAreOutputs
  <2> QED
    BY <2>1, <2>2 DEF HasReceipt
<1>7. ASSUME NEW judge \in Judges, judge # cmd
      PROVE  /\ judged'[judge] = judged[judge]
             /\ outputs'[AnswerPath(judge)] = outputs[AnswerPath(judge)]
             /\ outputs'[ReceiptPath(judge)] = outputs[ReceiptPath(judge)]
  <2>1. judged'[judge] = judged[judge]
    BY <1>1, <1>3, <1>7 DEF AdmissionTypeOK
  <2>2. /\ AnswerPath(judge) \in Paths /\ AnswerPath(judge) # AnswerPath(cmd)
        /\ ReceiptPath(judge) \in Paths /\ ReceiptPath(judge) # AnswerPath(cmd)
    BY <1>1, <1>7, JudgePaths
  <2> QED
    BY <1>5, <2>1, <2>2
<1>8. ~raced => ReceiptsAreTrue'
  BY <1>6, <1>7 DEF ReceiptsAreTrue, QuietInv, HasReceipt, HasOutput
<1>9. ~raced /\ pc' = "receipt" => judged'[cmd] = <<tree', answer.accept>>
  BY <1>1, <1>3, <1>4 DEF QuietInv, AdmissionTypeOK
<1> QED
  BY <1>3, <1>4, <1>5, <1>8, <1>9 DEF QuietInv

(* A receipt is of the tree that the judge has just seen, if nobody edits.  *)
LEMMA ReceiptIsWrittenQuietly ==
    ASSUME StaleInv, QuietInv, WriteReceipt
    PROVE  QuietInv'
<1> DEFINE path == ReceiptPath(cmd)
           receipt == IF outputs[path] = None THEN [Answer(TRUE, TRUE) EXCEPT !.receipt = tree]
                      ELSE [outputs[path] EXCEPT !.receipt = tree]
<1>1. /\ AdmissionTypeOK /\ pc = "receipt" /\ cmd \in Judges /\ pc' = "idle"
      /\ judged' = judged /\ raced' = raced
      /\ AnswerPath(cmd) \in Paths /\ path \in Paths
  BY LevelFacts DEF StaleInv, AdmissionTypeOK, WriteReceipt, Stop, history
<1>2. CASE ~Snapshotable
  <2>1. ReceiptsKept
    BY <1>2 DEF WriteReceipt, ReceiptsKept, HasReceipt, HasOutput
  <2> QED
    BY <1>1, <2>1, QuietWithoutAnswer DEF CommitPcs
<1>3. CASE Snapshotable
  <2>1. outputs' = [outputs EXCEPT ![path] = receipt]
    BY <1>3 DEF WriteReceipt
  <2>2. receipt.receipt = tree /\ (outputs[path] # None => receipt.accept = outputs[path].accept)
    <3>1. CASE outputs[path] = None
      BY <3>1 DEF Answer
    <3>2. CASE outputs[path] # None
      BY <1>1, <3>2 DEF AdmissionTypeOK, OutputSet
    <3> QED
      BY <3>1, <3>2
  <2> HIDE DEF receipt
  <2>3. /\ outputs'[path] = receipt
        /\ \A q \in Paths : q # path => outputs'[q] = outputs[q]
    BY <1>1, <2>1 DEF AdmissionTypeOK
  <2>4. ASSUME ~raced PROVE ReceiptsAreTrue'
    <3>1. judged'[cmd] = <<outputs'[path].receipt, outputs'[AnswerPath(cmd)].accept>>
      <4>1. outputs'[AnswerPath(cmd)].accept = outputs[AnswerPath(cmd)].accept
        <5>1. CASE AnswerPath(cmd) = path
          BY <1>1, <2>2, <2>3, <2>4, <5>1 DEF QuietInv
        <5>2. CASE AnswerPath(cmd) # path
          BY <1>1, <2>3, <5>2
        <5> QED
          BY <5>1, <5>2
      <4> QED
        BY <1>1, <2>2, <2>3, <2>4, <4>1 DEF QuietInv
    <3>2. ASSUME NEW judge \in Judges, judge # cmd
          PROVE  /\ outputs'[AnswerPath(judge)] = outputs[AnswerPath(judge)]
                 /\ outputs'[ReceiptPath(judge)] = outputs[ReceiptPath(judge)]
      BY <1>1, <2>3, <3>2, JudgePaths
    <3> QED
      BY <1>1, <2>4, <3>1, <3>2 DEF ReceiptsAreTrue, QuietInv, HasReceipt, HasOutput
  <2> QED
    BY <1>1, <2>4 DEF QuietInv
<1> QED
  BY <1>2, <1>3

(* Every other command keeps that link between receipt and tree.            *)
LEMMA AdmissionNextQuiet ==
    ASSUME StaleInv, QuietInv, [AdmissionNext]_admissionVars
    PROVE  QuietInv'
<1>0. AdmissionTypeOK
  BY DEF StaleInv
<1>1. outputs' = outputs => ReceiptsKept
  BY DEF ReceiptsKept, HasReceipt, HasOutput
<1>2. CASE Fork \/ DropWorktree \/ ResetIndex \/ UNCHANGED admissionVars
  BY <1>1, <1>2, QuietWithoutAnswer
  DEF Fork, DropWorktree, ResetIndex, command, history, admissionVars, durable, worktree, CommitPcs
<1>3. ASSUME NEW content \in Trees, Edit(content) PROVE QuietInv'
  <2>1. UNCHANGED <<outputs, judged, pc>> /\ (raced' <=> raced \/ pc # "idle")
    BY <1>3 DEF Edit, command
  <2>2. CASE raced'
    BY <2>2 DEF QuietInv
  <2>3. CASE ~raced'
    <3>1. ~raced /\ pc' \notin CommitPcs \cup {"judging", "receipt"}
      BY <2>1, <2>3 DEF CommitPcs
    <3> QED
      BY <1>1, <2>1, <3>1, QuietWithoutAnswer
  <2> QED
    BY <2>2, <2>3
<1>4. ASSUME NEW stage \in StageNames, Invoke(stage) PROVE QuietInv'
  BY <1>1, <1>4, QuietWithoutAnswer DEF Invoke, durable, history, CommitPcs
<1>5. CASE ArchiveOutput
  <2>1. PICK p \in todo : /\ outputs' = [outputs EXCEPT ![p] = None]
                          /\ pc' \in {"operator", "archive"}
    BY <1>5 DEF ArchiveOutput
  <2>2. ReceiptsKept
    BY <1>0, <2>1, OtherOutputsKeepReceipts DEF AdmissionTypeOK
  <2> QED
    BY <1>5, <2>1, <2>2, QuietWithoutAnswer DEF ArchiveOutput, history, CommitPcs
<1>6. CASE WriteFeedback
  <2>1. ReceiptsKept
    BY <1>0, <1>6, LevelFacts, OtherOutputsKeepReceipts DEF WriteFeedback
  <2> QED
    BY <1>6, <2>1, QuietWithoutAnswer DEF WriteFeedback, Stop, history, CommitPcs
<1>7. CASE JudgeReads
  BY <1>1, <1>7, QuietWithoutAnswer DEF JudgeReads, durable, worktree, history, CommitPcs
<1>8. ASSUME NEW answer \in Answers, NEW status \in {0, 1}, OperatorRuns(answer, status)
      PROVE  QuietInv'
  <2>1. /\ outputs' = [outputs EXCEPT ![AnswerPath(cmd)] = answer]
        /\ pc' \notin CommitPcs \cup {"judging", "receipt"} /\ judged' = judged /\ raced' = raced
    BY <1>8 DEF OperatorRuns, OperatorEnds, Stop, history, CommitPcs
  <2>2. cmd \in StageNames \ Judges
    BY <1>0, <1>8 DEF OperatorRuns, AdmissionTypeOK, OperatorPcs
  <2>3. AnswerPath(cmd) \in Paths \ {"validate", "novelty", "novelty.json"}
    BY <2>2, LevelFacts, StageFacts, JudgePaths, PositionIsUnique DEF AnswerPath, StageOutputs
  <2>4. ReceiptsKept
    BY <1>0, <2>1, <2>3, OtherOutputsKeepReceipts
  <2> QED
    BY <2>1, <2>4, QuietWithoutAnswer
<1>9. ASSUME NEW answer \in Answers, NEW status \in {0, 1}, JudgeAnswers(answer, status)
      PROVE  QuietInv'
  BY <1>9, JudgeAnswersQuietly
<1>10. CASE WriteReceipt
  BY <1>10, ReceiptIsWrittenQuietly
<1>11. CASE BeginCommit
  <2>1. ASSUME ~raced PROVE AllAccepted(tree)
    <3> SUFFICES ASSUME NEW judge \in Judges \cap Configured
                 PROVE  judged[judge] = <<tree, TRUE>>
      BY DEF AllAccepted
    <3>1. /\ HasReceipt(judge) /\ outputs[ReceiptPath(judge)].receipt = tree
          /\ outputs[AnswerPath(judge)].accept
      BY <1>11 DEF BeginCommit, Admits, OnParent, HasReceipt
    <3>2. outputs[AnswerPath(judge)].accept \in BOOLEAN
      BY <1>0, <3>1, JudgePaths DEF AdmissionTypeOK, OutputSet, HasReceipt, HasOutput
    <3>3. judged[judge] =
             <<outputs[ReceiptPath(judge)].receipt, outputs[AnswerPath(judge)].accept>>
      BY <2>1, <3>1 DEF QuietInv, ReceiptsAreTrue
    <3>4. outputs[AnswerPath(judge)].accept = TRUE
      BY <3>1, <3>2
    <3> QED
      BY <3>1, <3>3, <3>4
  <2> QED
    BY <1>1, <1>11, <2>1, QuietWithoutAnswer DEF BeginCommit, durable, worktree, history
<1>12. CASE CommitChild
  BY <1>1, <1>12, QuietWithoutAnswer DEF CommitChild, Stop, worktree, history, CommitPcs
<1>13. CASE Snapshot
  BY <1>1, <1>13, QuietWithoutAnswer DEF Snapshot, Stop, durable, worktree, history, CommitPcs
<1>14. CASE StagePaths \/ CommitIndex
  BY <1>1, <1>14, QuietWithoutAnswer DEF StagePaths, CommitIndex, Stop, history, CommitPcs
<1>15. CASE CreateTag \/ AppendLineage \/ LeaveWorktree \/ Crash
  BY <1>1, <1>15, QuietWithoutAnswer
  DEF CreateTag, AppendLineage, LeaveWorktree, Crash, Stop, durable, worktree, history, CommitPcs
<1> QED
  BY <1>2, <1>3, <1>4, <1>5, <1>6, <1>7, <1>8, <1>9, <1>10, <1>11, <1>12, <1>13, <1>14, <1>15
  DEF AdmissionNext

(* The tree a commit tags is the tree every configured judge read last and    *)
(* accepted, as long as nobody edits the worktree during a command, wherever  *)
(* commands die.                                                            *)
THEOREM TaggedTreeIsJudged == AdmissionSpec => QuietCommitIsJudged
<1>1. AdmissionInit => StaleInv /\ QuietInv
  <2> SUFFICES ASSUME AdmissionInit PROVE OutputsInOrder /\ NothingStale /\ QuietInv
    BY AdmissionInitTypeOK DEF StaleInv
  <2>1. \A judge \in Judges : ~HasReceipt(judge)
    BY JudgePaths DEF AdmissionInit, HasReceipt, HasOutput
  <2> QED
    BY <2>1 DEF AdmissionInit, OutputsInOrder, NothingStale, OperatorPcs, QuietInv, ReceiptsAreTrue
<1>2. StaleInv /\ QuietInv /\ [AdmissionNext]_admissionVars => StaleInv' /\ QuietInv'
  BY AdmissionNextStale, AdmissionNextQuiet
<1>3. QuietInv /\ [AdmissionNext]_admissionVars =>
         [tag' # tag /\ ~raced =>
            \A judge \in Judges \cap Configured : judged[judge] = <<tag', TRUE>>]_admissionVars
  <2> SUFFICES ASSUME QuietInv, AdmissionNext, tag' # tag, ~raced
               PROVE  \A judge \in Judges \cap Configured : judged[judge] = <<tag', TRUE>>
    OBVIOUS
  <2>1. CreateTag
    BY DEF AdmissionNext, Fork, DropWorktree, ResetIndex, Edit, Invoke, ArchiveOutput, WriteFeedback,
       JudgeReads, WriteReceipt, OperatorRuns, JudgeAnswers, BeginCommit, CommitChild, Snapshot,
       StagePaths, CommitIndex, AppendLineage, LeaveWorktree, Crash, durable
  <2> QED
    BY <2>1 DEF CreateTag, QuietInv, AllAccepted
<1> QED
  BY <1>1, <1>2, <1>3, PTL DEF AdmissionSpec, QuietCommitIsJudged

------------------------------------------------------------------------------
(* CandidateFiles: between the listing and the tag the index and HEAD are the *)
(* parent's, so that what is listed says all that the worktree adds to it.   *)

BeforeTag == {"agent", "mutated", "judges", "listed", "built"}

Trackable(f) == f \in ParentFiles \/ f \notin IgnoredFiles

FilesTypeOK ==
    /\ work \in [Files -> Contents] /\ staging \in [Files -> Contents]
    /\ headTree \in [Files -> Contents] /\ seenWork \in [Files -> Contents] \cup {NoContent}

ListIsWhole ==
    /\ seenWork \in [Files -> Contents]
    /\ \A f \in Files : Trackable(f) /\ f \notin Covered(listed) => seenWork[f] = ParentTree[f]
    /\ ~late => work = seenWork

ListIsInside ==
    /\ Violations(listed) = {}
    /\ \A d \in listed : d \in Files \/ NewDirectory(d)

FilesInv ==
    /\ FilesTypeOK
    /\ commitStep \in {"listed", "built"} =>
          staging = ParentTree /\ headTree = ParentTree /\ ListIsWhole /\ ListIsInside
    /\ commitStep \in BeforeTag => tagged = NoContent
    /\ TagIsTheCandidate

(* The parent's tree has the parent's files and no others. *)
LEMMA ParentTreeFacts ==
    /\ ParentTree \in [Files -> Contents] /\ Present(ParentTree) = ParentFiles
    /\ \A f \in Files : f \notin ParentFiles => ParentTree[f] = NoContent
  BY FilesAssumption DEF ParentTree, Contents, Present

(* Git names an untracked file by itself or by a directory it lies in that    *)
(* holds nothing of the index.                                              *)
LEMMA StatusNameFacts ==
    ASSUME NEW f \in Files
    PROVE  \/ StatusName(f) = f
           \/ Contains(DirsOf[f], StatusName(f)) /\ TrackedIn(StatusName(f)) = {}
<1>1. CASE FreshDirs(f) = {}
  BY <1>1 DEF StatusName
<1>2. CASE FreshDirs(f) # {}
  <2>1. FreshDirs(f) \subseteq 1..Len(DirsOf[f]) /\ Len(DirsOf[f]) \in Nat
    BY FilesAssumption DEF FreshDirs
  <2>2. Min(FreshDirs(f)) \in FreshDirs(f)
    BY <1>2, <2>1, LeastNatural
  <2> QED
    BY <1>2, <2>1, <2>2 DEF StatusName, FreshDirs, Contains
<1> QED
  BY <1>1, <1>2

(* With the index and HEAD at the parent, the changed paths cover whatever    *)
(* git may add, and name files or directories that the parent does not have. *)
LEMMA ChangedPathsAreWhole ==
    ASSUME FilesTypeOK, staging = ParentTree, headTree = ParentTree
    PROVE  /\ \A f \in Files : Trackable(f) /\ f \notin Covered(ChangedPaths) =>
                 work[f] = ParentTree[f]
           /\ \A d \in ChangedPaths : d \in Files \/ NewDirectory(d)
<1>1. ASSUME NEW f \in Files, Trackable(f), f \notin Covered(ChangedPaths)
      PROVE  work[f] = ParentTree[f]
  <2>1. CASE f \in ParentFiles
    <3>1. TrackedWork[f] = work[f]
      BY <2>1, FilesAssumption DEF TrackedWork, ParentTree
    <3>2. f \notin DiffersFrom(ParentTree)
      BY <1>1 DEF Covered, ChangedPaths
    <3> QED
      BY <3>1, <3>2 DEF DiffersFrom
  <2>2. CASE f \notin ParentFiles
    <3>1. StatusName(f) \notin ChangedPaths
      BY <1>1, StatusNameFacts DEF Covered
    <3>2. f \notin Untracked
      BY <3>1 DEF ChangedPaths, DirtyPaths
    <3>3. f \notin Present(work)
      BY <1>1, <2>2, <3>2, ParentTreeFacts DEF Untracked, Trackable
    <3> QED
      BY <2>2, <3>3, ParentTreeFacts DEF Present, FilesTypeOK
  <2> QED
    BY <2>1, <2>2
<1>2. ASSUME NEW d \in ChangedPaths, d \notin Files PROVE NewDirectory(d)
  <2>1. PICK f \in Untracked : d = StatusName(f)
    BY <1>2 DEF ChangedPaths, DirtyPaths, DiffersFrom, Present, FilesTypeOK
  <2>2. f \in Files
    BY DEF Untracked, Present, FilesTypeOK
  <2>3. TrackedIn(d) = {}
    BY <1>2, <2>1, <2>2, StatusNameFacts
  <2> QED
    BY <2>3, ParentTreeFacts DEF TrackedIn, NewDirectory
<1> QED
  BY <1>1, <1>2

(* What the commit holds, seen from the list. *)
LEMMA CommitHoldsTheList ==
    ASSUME FilesTypeOK, ListIsWhole, ListIsInside
    PROVE  LET committed == AddPaths(ParentTree, listed)
           IN  /\ committed \in [Files -> Contents]
               /\ ~late => \A f \in Files : Trackable(f) => committed[f] = seenWork[f]
               /\ \A f \in OutsidePaths \cap Files :
                     committed[f] = ParentTree[f] \/ \E dir \in ToSet(DirsOf[f]) : NewDirectory(dir)
<1> DEFINE committed == AddPaths(ParentTree, listed)
<1>1. \A f \in Files :
         committed[f] = IF f \in Covered(listed) /\ Trackable(f) THEN work[f] ELSE ParentTree[f]
  BY ParentTreeFacts DEF AddPaths, Trackable
<1>2. committed \in [Files -> Contents]
  BY ParentTreeFacts DEF AddPaths, FilesTypeOK
<1> HIDE DEF committed
<1>3. ASSUME ~late, NEW f \in Files, Trackable(f) PROVE committed[f] = seenWork[f]
  BY <1>1, <1>3 DEF ListIsWhole
<1>4. ASSUME NEW f \in OutsidePaths \cap Files, committed[f] # ParentTree[f]
      PROVE  \E dir \in ToSet(DirsOf[f]) : NewDirectory(dir)
  <2>1. f \in Covered(listed) /\ f \notin listed
    BY <1>1, <1>4 DEF ListIsInside, Violations
  <2>2. PICK dir \in listed : Contains(DirsOf[f], dir)
    BY <2>1 DEF Covered
  <2>3. dir \in ToSet(DirsOf[f])
    BY <2>2, FilesAssumption DEF Contains, ToSet
  <2> QED
    BY <2>2, <2>3, FilesAssumption DEF ListIsInside
<1> QED
  BY <1>2, <1>3, <1>4 DEF committed

(* Every step keeps working tree, index and list as the commit needs them.  *)
LEMMA FilesNextInv ==
    ASSUME FilesInv, [FilesNext]_fileVars
    PROVE  FilesInv'
<1> USE DEF FilesInv
<1>1. ASSUME NEW f \in Files, NEW content \in Contents, EditFile(f, content) PROVE FilesInv'
  <2>1. FilesTypeOK'
    BY <1>1 DEF EditFile, FilesTypeOK
  <2>2. /\ commitStep \in BeforeTag /\ commitStep' = commitStep /\ tagged' = tagged
        /\ UNCHANGED <<staging, headTree, listed, seenWork>>
    BY <1>1 DEF EditFile, BeforeTag
  <2>3. commitStep \in {"listed", "built"} => late'
    BY <1>1 DEF EditFile
  <2>4. commitStep \in {"listed", "built"} => ListIsWhole' /\ ListIsInside'
    BY <2>2, <2>3
    DEF ListIsWhole, ListIsInside, Covered, Violations, NewDirectory, Trackable, ParentTree
  <2> QED
    BY <2>1, <2>2, <2>4 DEF TagIsTheCandidate, ParentTree
<1>2. ASSUME NEW f \in Files, StageFile(f) PROVE FilesInv'
  <2>1. FilesTypeOK'
    BY <1>2 DEF StageFile, FilesTypeOK
  <2> QED
    BY <1>2, <2>1 DEF StageFile, TagIsTheCandidate, BeforeTag
<1>3. CASE CommitByAgent
  BY <1>3 DEF CommitByAgent, FilesTypeOK, TagIsTheCandidate, BeforeTag
<1>4. CASE CheckChanges \/ \E refusesOutside \in BOOLEAN : MutateEnds(refusesOutside)
  <2>1. /\ commitStep \in BeforeTag /\ commitStep' \notin {"listed", "built"}
        /\ UNCHANGED <<work, staging, headTree, tagged, seenWork>>
    BY <1>4 DEF CheckChanges, MutateEnds, BeforeTag
  <2> QED
    BY <2>1 DEF FilesTypeOK, TagIsTheCandidate
<1>5. CASE ListChanges
  <2>1. /\ commitStep = "judges" /\ tagged' = tagged
        /\ UNCHANGED <<work, staging, headTree, late>>
    BY <1>5 DEF ListChanges
  <2>2. CASE commitStep' = "listed"
    <3>1. /\ headTree = ParentTree /\ staging = ParentTree /\ Violations(ChangedPaths) = {}
          /\ listed' = ChangedPaths /\ seenWork' = work
      BY <1>5, <2>2 DEF ListChanges, IndexIsClean
    <3>2. FilesTypeOK'
      BY <2>1, <3>1 DEF FilesTypeOK
    <3>3. ListIsWhole' /\ ListIsInside'
      BY <2>1, <3>1, ChangedPathsAreWhole
      DEF ListIsWhole, ListIsInside, Covered, Violations, NewDirectory, Trackable, ParentTree,
          FilesTypeOK
    <3> QED
      BY <2>1, <2>2, <3>1, <3>2, <3>3 DEF TagIsTheCandidate, BeforeTag, ParentTree
  <2>3. CASE commitStep' # "listed"
    <3>1. commitStep' \notin {"listed", "built"} /\ seenWork' = NoContent
      BY <1>5, <2>3 DEF ListChanges
    <3> QED
      BY <2>1, <3>1 DEF FilesTypeOK, TagIsTheCandidate, BeforeTag
  <2> QED
    BY <2>2, <2>3
<1>6. CASE BuildSnapshot
  <2>1. /\ commitStep = "listed" /\ commitStep' \in {"built", "raised"}
        /\ UNCHANGED <<work, staging, headTree, listed, tagged, seenWork, late>>
    BY <1>6 DEF BuildSnapshot
  <2>2. ListIsWhole' /\ ListIsInside'
    BY <2>1
    DEF ListIsWhole, ListIsInside, Covered, Violations, NewDirectory, Trackable, ParentTree
  <2> QED
    BY <2>1, <2>2 DEF FilesTypeOK, TagIsTheCandidate, BeforeTag, ParentTree
<1>7. CASE CommitSnapshot
  <2> DEFINE committed == AddPaths(ParentTree, listed)
  <2>1. /\ commitStep = "built" /\ commitStep' \in {"raised", "tagged"}
        /\ UNCHANGED <<work, seenWork, late>>
    BY <1>7 DEF CommitSnapshot
  <2>2. /\ staging = ParentTree /\ headTree = ParentTree /\ ListIsWhole /\ ListIsInside
        /\ tagged = NoContent
    BY <2>1 DEF BeforeTag
  <2>3. \/ UNCHANGED <<staging, headTree, tagged>>
        \/ staging' = committed /\ headTree' = committed /\ tagged' \in {committed, NoContent}
    BY <1>7, <2>2 DEF CommitSnapshot
  <2>4. /\ committed \in [Files -> Contents]
        /\ ~late => \A f \in Files : Trackable(f) => committed[f] = seenWork[f]
        /\ \A f \in OutsidePaths \cap Files :
              committed[f] = ParentTree[f] \/ \E dir \in ToSet(DirsOf[f]) : NewDirectory(dir)
    BY <2>2, CommitHoldsTheList
  <2> HIDE DEF committed
  <2>5. FilesTypeOK'
    BY <2>1, <2>3, <2>4 DEF FilesTypeOK
  <2>6. TagIsTheCandidate'
    BY <2>1, <2>2, <2>3, <2>4
    DEF TagIsTheCandidate, NothingForgotten, SurfaceKept, Trackable, NewDirectory, ParentTree
  <2> QED
    BY <2>1, <2>5, <2>6 DEF BeforeTag
<1>8. CASE UNCHANGED fileVars
  BY <1>8
  DEF fileVars, FilesTypeOK, ListIsWhole, ListIsInside, Covered, Violations, NewDirectory, Trackable,
      ParentTree, TagIsTheCandidate, NothingForgotten, SurfaceKept
<1> QED
  BY <1>1, <1>2, <1>3, <1>4, <1>5, <1>6, <1>7, <1>8 DEF FilesNext

(* For any set of files and directories, any surface and any ignored files, a  *)
(* child's tag is the whole candidate that was listed, and a file outside the *)
(* surface is the parent's unless it lies in a new directory.                *)
THEOREM TagHoldsTheCandidate == FilesSpec => []TagIsTheCandidate
<1>1. FilesInit => FilesInv
  BY ParentTreeFacts DEF FilesInit, FilesInv, FilesTypeOK, BeforeTag, TagIsTheCandidate
<1>2. FilesInv /\ [FilesNext]_fileVars => FilesInv'
  BY FilesNextInv
<1>3. FilesInv => TagIsTheCandidate
  BY DEF FilesInv
<1> QED
  BY <1>1, <1>2, <1>3, PTL DEF FilesSpec


------------------------------------------------------------------------------
(* Population: for any strategies, tasks and number of generations, what is  *)
(* shown as progress is progress.  A generation's parent is one that select  *)
(* could pick among those kept before it, also when it was resumed.          *)

PopulationTypeOK ==
    /\ strategy \in Strategies
    /\ child_ \in 0..LastBorn /\ chosen \in 0..LastBorn
    /\ moment \in {"select", "mutate", "evaluate", "gate", "record", "reflect", "next"}
    /\ kills \in Nat
    /\ rundir \in [predicted : Predictions \cup {Unwritten},
                   note : Headings \cup {Unwritten}]
    /\ family \in [0..LastBorn -> Rows \cup {Unwritten}]

(* Which rows there are, at which moment.                                    *)
RowsInOrder ==
    /\ family[0] # Unwritten /\ family[0].verdict = "keep"
    /\ \A g \in 0..LastBorn : g > child_ => family[g] = Unwritten
    /\ moment \in {"select", "mutate", "evaluate"} => child_ > 0 /\ family[child_] = Unwritten
    /\ moment \in {"gate", "record", "reflect"} => child_ > 0 /\ family[child_] # Unwritten
    /\ moment = "gate" => family[child_].verdict = "pending"
    /\ moment \in {"gate", "record"} => family[child_].verified = {}

ParentsArePicked ==
    /\ \A g \in Born \ {0} : family[g].parent \in Picks(KeptBefore(g))
    /\ moment \in {"mutate", "evaluate", "gate"} => chosen \in Picks(KeptBefore(child_))

KeptScoreTheirParent ==
    strategy.select = "greedy" /\ strategy.gate \in {"hillclimb", "strict"} =>
        \A g \in Kept :
            /\ Score(family[g].parent) <= Score(g)
            /\ strategy.gate = "strict" => Score(family[g].parent) < Score(g)

VerifiedAreFixes ==
    \A g \in Born : family[g].verified # {} =>
        /\ g > 0 /\ family[g].predicted # Unwritten
        /\ family[g].verified =
             {e \in family[g].predicted : /\ family[g].vector[e[2]] = "pass"
                                          /\ family[family[g].parent].vector[e[2]] = "fail"}

CreditIsCounted ==
    \A note \in DOMAIN playbook :
        /\ \A g \in playbook[note].gens :
              g \in Born /\ family[g].note = note /\ family[g].verified # {}
        /\ playbook[note].credit =
             Cardinality({p \in playbook[note].gens \X Entries : p[2] \in family[p[1]].verified})

PopulationInv ==
    /\ PopulationTypeOK /\ RowsInOrder /\ ParentsArePicked
    /\ KeptScoreTheirParent /\ VerifiedAreFixes /\ CreditIsCounted

(* Bounded naturals have a largest one.                                      *)
LEMMA LargestNatural ==
    ASSUME NEW S \in SUBSET Nat, S # {}, NEW b \in Nat, \A x \in S : x <= b
    PROVE  Max(S) \in S /\ \A x \in S : x <= Max(S)
<1> DEFINE R == {b - x : x \in S}
<1>0. \A x \in S : b - x \in Nat
  OBVIOUS
<1>1. R \in SUBSET Nat /\ R # {}
  BY <1>0
<1>2. Min(R) \in R /\ \A n \in R : Min(R) <= n
  BY <1>1, LeastNatural
<1>3. PICK m \in S : Min(R) = b - m
  BY <1>2
<1>4. \A x \in S : b - m <= b - x
  BY <1>2, <1>3
<1>5. \A x \in S : m >= x
  BY <1>4
<1> QED
  BY <1>5 DEF Max

(* A score counts tasks. *)
LEMMA ScoreIsNatural ==
    \A g : Score(g) \in Nat /\ Score(g) <= Cardinality(GatedTasks)
<1> SUFFICES ASSUME NEW g PROVE Score(g) \in Nat /\ Score(g) <= Cardinality(GatedTasks)
  OBVIOUS
<1>1. PassedTasks(family[g].vector) \in SUBSET GatedTasks
  BY DEF PassedTasks
<1> QED
  BY <1>1, PopulationAssumption, FS_Subset, FS_CardinalityType DEF Score

(* Among the generations given, the greedy pick is the first that scores     *)
(* most.                                                                     *)
LEMMA GreedyPickFacts ==
    ASSUME NEW K \in SUBSET (0..LastBorn), K # {}
    PROVE  /\ GreedyPick(K) \in K
           /\ \A h \in K : Score(h) <= Score(GreedyPick(K))
           /\ \A h \in K : h < GreedyPick(K) => Score(h) < Score(GreedyPick(K))
<1> DEFINE S == {Score(g) : g \in K}
<1>0. \A g : Score(g) \in Nat /\ Score(g) <= Cardinality(GatedTasks)
  BY ScoreIsNatural
<1>a. \A x \in K : x \in Nat
  BY PopulationAssumption
<1>1. S \in SUBSET Nat /\ S # {} /\ \A x \in S : x <= Cardinality(GatedTasks)
  BY <1>0
<1>2. Cardinality(GatedTasks) \in Nat
  BY PopulationAssumption, FS_CardinalityType
<1> HIDE DEF S
<1>3. Max(S) \in S /\ \A x \in S : x <= Max(S)
  BY <1>1, <1>2, LargestNatural
<1>4. \A g \in K : Score(g) \in S /\ Score(g) <= Max(S)
  BY <1>3 DEF S
<1>5. PICK g \in K : Score(g) = Max(S)
  BY <1>3 DEF S
<1>6. g \in TopScored(K)
  BY <1>4, <1>5 DEF TopScored
<1>7. TopScored(K) \in SUBSET Nat
  BY <1>a DEF TopScored
<1>8. Min(TopScored(K)) \in TopScored(K) /\ \A n \in TopScored(K) : Min(TopScored(K)) <= n
  BY <1>6, <1>7, LeastNatural
<1>9. GreedyPick(K) = Min(TopScored(K))
  BY DEF GreedyPick
<1>10. GreedyPick(K) \in K /\ \A h \in K : Score(h) <= Score(GreedyPick(K))
  BY <1>8, <1>9 DEF TopScored
<1>11. ASSUME NEW h \in K, h < GreedyPick(K), ~(Score(h) < Score(GreedyPick(K)))
       PROVE  FALSE
  <2>1. Score(h) = Score(GreedyPick(K))
    BY <1>0, <1>10, <1>11
  <2>2. h \in TopScored(K)
    BY <1>10, <2>1 DEF TopScored
  <2>3. GreedyPick(K) <= h
    BY <1>8, <1>9, <2>2
  <2>4. h \in Nat /\ GreedyPick(K) \in Nat
    BY <1>10, <1>a
  <2> QED
    BY <1>11, <2>3, <2>4
<1> QED
  BY <1>10, <1>11

(* What each way to select can pick.                                         *)
LEMMA PicksFacts ==
    ASSUME strategy \in Strategies, NEW K \in SUBSET (0..LastBorn), K # {}
    PROVE  /\ Picks(K) \subseteq K
           /\ strategy.select = "greedy" => Picks(K) = {GreedyPick(K)}
           /\ strategy.select \in {"newest", "ahe_latest"} => Picks(K) = {Max(K)}
           /\ strategy.select = "score_weighted" =>
                \A p \in Picks(K) : Score(p) = 0 => \A h \in K : Score(h) = 0
<1>1. strategy.select \in {"greedy", "newest", "random", "score_weighted",
                           "score_child_prop", "ahe_latest"}
  BY PopulationAssumption DEF Strategy
<1>2. GreedyPick(K) \in K
  BY GreedyPickFacts
<1>3. Max(K) \in K
  <2>1. K \in SUBSET Nat /\ \A x \in K : x <= LastBorn
    BY PopulationAssumption
  <2> QED
    BY <2>1, PopulationAssumption, LargestNatural
<1>4. WeightedPicks(K) \subseteq K
  BY DEF WeightedPicks
<1>5. ChildPropPicks(K) = K /\ NewestPick(K) = Max(K)
  BY DEF ChildPropPicks, NewestPick
<1>6. \A p \in WeightedPicks(K) : Score(p) = 0 => \A h \in K : Score(h) = 0
  <2> SUFFICES ASSUME NEW p \in WeightedPicks(K), Score(p) = 0, NEW h \in K
               PROVE  Score(h) = 0
    OBVIOUS
  <2>1. ~(Score(h) > 0)
    BY DEF WeightedPicks
  <2> QED
    BY <2>1, ScoreIsNatural
<1> HIDE DEF WeightedPicks, ChildPropPicks, NewestPick, GreedyPick
<1>7. CASE strategy.select = "greedy"
  BY <1>2, <1>7 DEF Picks
<1>8. CASE strategy.select \in {"newest", "ahe_latest"}
  BY <1>3, <1>5, <1>8 DEF Picks
<1>9. CASE strategy.select = "score_weighted"
  BY <1>4, <1>6, <1>9 DEF Picks
<1>10. CASE strategy.select \in {"random", "score_child_prop"}
  BY <1>5, <1>10 DEF Picks
<1> QED
  BY <1>1, <1>7, <1>8, <1>9, <1>10

(* What was kept before a generation is among the generations before it.    *)
LEMMA KeptBeforeFacts ==
    ASSUME PopulationTypeOK, RowsInOrder, NEW g \in 1..LastBorn
    PROVE  /\ KeptBefore(g) \in SUBSET (0..LastBorn) /\ 0 \in KeptBefore(g)
           /\ \A h \in KeptBefore(g) : h \in 0..(g - 1) /\ h \in Born
           /\ Picks(KeptBefore(g)) \subseteq KeptBefore(g)
<1>1. KeptBefore(g) \in SUBSET (0..LastBorn) /\ 0 \in KeptBefore(g)
  BY PopulationAssumption DEF KeptBefore, RowsInOrder
<1>2. \A h \in KeptBefore(g) : h \in 0..(g - 1) /\ h \in Born
  BY PopulationAssumption DEF KeptBefore, Born
<1> QED
  BY <1>1, <1>2, PicksFacts DEF PopulationTypeOK

(* While a generation is selected for or judged, those kept are before it.   *)
LEMMA ValidParentsAreBefore ==
    ASSUME PopulationTypeOK, RowsInOrder, moment \in {"select", "gate"}
    PROVE  ValidParents = KeptBefore(child_)
<1>1. child_ \in 1..LastBorn
  BY PopulationAssumption DEF PopulationTypeOK, RowsInOrder
<1>2. ASSUME NEW g \in ValidParents PROVE g \in KeptBefore(child_)
  <2>1. g \in 0..LastBorn /\ family[g] # Unwritten /\ family[g].verdict = "keep"
    BY DEF ValidParents, Born
  <2>2. g # child_ /\ ~(g > child_)
    BY <2>1 DEF RowsInOrder
  <2> QED
    BY <1>1, <2>1, <2>2, PopulationAssumption DEF KeptBefore
<1>3. KeptBefore(child_) \subseteq ValidParents
  BY <1>1, PopulationAssumption DEF KeptBefore, ValidParents, Born
<1> QED
  BY <1>2, <1>3

(* What could be picked for a generation rests on the rows before it.        *)
LEMMA PicksRestOnRowsBefore ==
    ASSUME NEW g \in Nat, \A h \in 0..(g - 1) : family'[h] = family[h], strategy' = strategy
    PROVE  /\ KeptBefore(g)' = KeptBefore(g)
           /\ Picks(KeptBefore(g))' = Picks(KeptBefore(g))
<1> DEFINE K == KeptBefore(g)
<1>1. K' = K
  BY DEF KeptBefore
<1>2. \A h \in K : family'[h] = family[h]
  BY DEF KeptBefore
<1>3. \A h \in K : Score(h)' = Score(h)
  BY <1>2 DEF Score
<1> HIDE DEF K
<1>4. TopScored(K)' = TopScored(K)
  BY <1>1, <1>3 DEF TopScored
<1>5. WeightedPicks(K)' = WeightedPicks(K)
  BY <1>1, <1>3 DEF WeightedPicks
<1>6. Picks(K)' = Picks(K)
  BY <1>1, <1>4, <1>5 DEF Picks, GreedyPick, NewestPick, ChildPropPicks
<1> QED
  BY <1>1, <1>6 DEF K

(* A step that changes at most the row of the generation under way.          *)
RowStep ==
    /\ strategy' = strategy /\ child_' = child_
    /\ DOMAIN family' = 0..LastBorn
    /\ \A h \in 0..LastBorn : h # child_ => family'[h] = family[h]

(* A step that writes one row takes no parent's eligibility back.           *)
LEMMA ParentsStayPicked ==
    ASSUME PopulationTypeOK, RowsInOrder, ParentsArePicked, RowStep,
           child_ \in Born' \ {0} =>
              \/ family'[child_].parent = chosen /\ moment = "evaluate"
              \/ child_ \in Born /\ family'[child_].parent = family[child_].parent
    PROVE  /\ \A g \in Born' \ {0} : family'[g].parent \in Picks(KeptBefore(g))'
           /\ Picks(KeptBefore(child_))' = Picks(KeptBefore(child_))
<1>1. child_ \in 0..LastBorn
  BY DEF PopulationTypeOK
<1>2. \A g \in 0..child_ : Picks(KeptBefore(g))' = Picks(KeptBefore(g))
  <2> SUFFICES ASSUME NEW g \in 0..child_
               PROVE  Picks(KeptBefore(g))' = Picks(KeptBefore(g))
    OBVIOUS
  <2>1. g \in Nat /\ \A h \in 0..(g - 1) : family'[h] = family[h]
    BY <1>1, PopulationAssumption DEF RowStep
  <2> QED
    BY <2>1, PicksRestOnRowsBefore DEF RowStep
<1>3. ASSUME NEW g \in Born' \ {0}
      PROVE  family'[g].parent \in Picks(KeptBefore(g))'
  <2>1. g \in 0..LastBorn /\ family'[g] # Unwritten
    BY DEF Born
  <2>2. g \in 0..child_
    BY <1>1, <2>1, PopulationAssumption DEF RowStep, RowsInOrder
  <2>3. CASE g = child_
    BY <1>2, <1>3, <2>2, <2>3 DEF ParentsArePicked
  <2>4. CASE g # child_
    <3>1. family'[g] = family[g] /\ g \in Born
      BY <2>1, <2>4 DEF RowStep, Born
    <3> QED
      BY <1>2, <1>3, <2>2, <3>1 DEF ParentsArePicked
  <2> QED
    BY <2>3, <2>4
<1>4. Picks(KeptBefore(child_))' = Picks(KeptBefore(child_))
  <2>1. child_ \in Nat /\ child_' = child_
    BY <1>1, PopulationAssumption DEF RowStep
  <2> DEFINE K == KeptBefore(child_)
  <2>2. \A h \in 0..(child_ - 1) : family'[h] = family[h]
    BY <1>1, PopulationAssumption DEF RowStep
  <2>3. K' = K
    BY <2>1, <2>2 DEF KeptBefore
  <2>4. \A h \in K : family'[h] = family[h]
    BY <2>2 DEF KeptBefore
  <2>5. \A h \in K : Score(h)' = Score(h)
    BY <2>4 DEF Score
  <2> HIDE DEF K
  <2>6. TopScored(K)' = TopScored(K)
    BY <2>3, <2>5 DEF TopScored
  <2>7. WeightedPicks(K)' = WeightedPicks(K)
    BY <2>3, <2>5 DEF WeightedPicks
  <2>8. Picks(K)' = Picks(K)
    BY <2>3, <2>6, <2>7 DEF Picks, GreedyPick, NewestPick, ChildPropPicks, RowStep
  <2> QED
    BY <2>8 DEF K
<1> QED
  BY <1>3, <1>4

(* What record reads of one task in a vector. *)
LEMMA TaskPassedFacts ==
    ASSUME NEW v \in [GatedTasks -> {"pass", "fail", "none"}], NEW t \in GatedTasks
    PROVE  /\ TaskPassed(v, t) = {TRUE} <=> v[t] = "pass"
           /\ TaskPassed(v, t) = {FALSE} <=> v[t] = "fail"
<1>1. CASE v[t] = "none"
  <2>1. TaskPassed(v, t) = {}
    BY <1>1 DEF TaskPassed
  <2> QED
    BY <1>1, <2>1
<1>2. CASE v[t] # "none"
  <2>1. TaskPassed(v, t) = {v[t] = "pass"}
    BY <1>2 DEF TaskPassed
  <2>2. CASE v[t] = "pass"
    <3>1. TaskPassed(v, t) = {TRUE}
      BY <2>1, <2>2
    <3> QED
      BY <2>2, <3>1
  <2>3. CASE v[t] = "fail"
    <3>1. (v[t] = "pass") = FALSE
      BY <2>3
    <3>2. TaskPassed(v, t) = {FALSE}
      BY <2>1, <3>1
    <3> QED
      BY <2>3, <3>2
  <2> QED
    BY <1>2, <2>2, <2>3
<1> QED
  BY <1>1, <1>2

(* Steps that change no row keep what is said of rows.                       *)
LEMMA SameRowsKeep ==
    ASSUME PopulationInv, UNCHANGED <<strategy, family>>
    PROVE  /\ KeptScoreTheirParent' /\ VerifiedAreFixes'
           /\ \A g \in Born' \ {0} : family'[g].parent \in Picks(KeptBefore(g))'
           /\ Picks(KeptBefore(child_))' = Picks(KeptBefore(child_)) \/ child_' # child_
           /\ playbook' = playbook => CreditIsCounted'
<1> USE DEF PopulationInv
<1>1. Born' = Born /\ Kept' = Kept
  BY DEF Born, Kept
<1>2. \A g : Score(g)' = Score(g)
  BY DEF Score
<1>3. KeptScoreTheirParent'
  BY <1>1, <1>2 DEF KeptScoreTheirParent
<1>4. VerifiedAreFixes'
  BY <1>1 DEF VerifiedAreFixes
<1>5. \A g \in Nat : Picks(KeptBefore(g))' = Picks(KeptBefore(g))
  BY PicksRestOnRowsBefore
<1>6. \A g \in Born' \ {0} : family'[g].parent \in Picks(KeptBefore(g))'
  BY <1>1, <1>5, PopulationAssumption DEF Born, ParentsArePicked
<1>7. child_' = child_ => Picks(KeptBefore(child_))' = Picks(KeptBefore(child_))
  <2> SUFFICES ASSUME child_' = child_
               PROVE  Picks(KeptBefore(child_))' = Picks(KeptBefore(child_))
    OBVIOUS
  <2>1. \A h \in 0..(child_ - 1) : family'[h] = family[h]
    OBVIOUS
  <2>2. child_ \in Nat
    BY DEF PopulationTypeOK
  <2> QED
    BY <2>1, <2>2, PicksRestOnRowsBefore DEF Picks, KeptBefore, GreedyPick, NewestPick,
      ChildPropPicks, TopScored, WeightedPicks, Score
<1>8. playbook' = playbook => CreditIsCounted'
  BY <1>1 DEF CreditIsCounted
<1> QED
  BY <1>3, <1>4, <1>6, <1>7, <1>8

(* While a child is judged, the candidates for a parent are what was kept  *)
(* before it.                                                              *)
LEMMA PicksAreGenerations ==
    ASSUME PopulationTypeOK, RowsInOrder, moment \in {"select", "gate"}
    PROVE  /\ Picks(ValidParents) = Picks(KeptBefore(child_))
           /\ Picks(ValidParents) \subseteq 0..LastBorn
<1>1. child_ \in 1..LastBorn
  BY PopulationAssumption DEF PopulationTypeOK, RowsInOrder
<1>2. ValidParents = KeptBefore(child_)
  BY ValidParentsAreBefore
<1>3. Picks(KeptBefore(child_)) \subseteq 0..LastBorn
  BY <1>1, KeptBeforeFacts
<1> QED
  BY <1>2, <1>3

(* Select picks a parent among those that may be picked. *)
LEMMA ChooseKeeps ==
    ASSUME PopulationInv, Choose_
    PROVE  PopulationInv'
<1> USE DEF PopulationInv, Choose_
<1>1. chosen' \in Picks(KeptBefore(child_)) /\ chosen' \in 0..LastBorn
  BY PicksAreGenerations
<1>2. PopulationTypeOK'
  BY <1>1 DEF PopulationTypeOK
<1>3. RowsInOrder'
  BY DEF RowsInOrder
<1>4. ParentsArePicked'
  BY <1>1, SameRowsKeep DEF ParentsArePicked
<1> QED
  BY <1>2, <1>3, <1>4, SameRowsKeep

(* Proposing an edit leaves the rows alone. *)
LEMMA ProposeKeeps ==
    ASSUME PopulationInv, Propose
    PROVE  PopulationInv'
<1> USE DEF PopulationInv, Propose
<1>1. PopulationTypeOK'
  BY DEF PopulationTypeOK
<1>2. RowsInOrder'
  BY DEF RowsInOrder
<1>3. ParentsArePicked'
  BY SameRowsKeep DEF ParentsArePicked
<1> QED
  BY <1>1, <1>2, <1>3, SameRowsKeep

(* The next child starts without a row. *)
LEMMA NextChildKeeps ==
    ASSUME PopulationInv, NextChild
    PROVE  PopulationInv'
<1> USE DEF PopulationInv, NextChild
<1>1. PopulationTypeOK'
  BY PopulationAssumption DEF PopulationTypeOK
<1>2. RowsInOrder'
  BY PopulationAssumption DEF RowsInOrder, PopulationTypeOK
<1>3. ParentsArePicked'
  BY SameRowsKeep DEF ParentsArePicked
<1> QED
  BY <1>1, <1>2, <1>3, SameRowsKeep

(* A run that is cut off leaves the rows it has written. *)
LEMMA CutOffKeeps ==
    ASSUME PopulationInv, CutOff
    PROVE  PopulationInv'
<1> USE DEF PopulationInv
<1>0. UNCHANGED <<strategy, child_, rundir, family, playbook>> /\ kills' = kills + 1
  BY DEF CutOff
<1>1. CASE moment \in {"mutate", "evaluate"}
  <2>1. moment' = "select" /\ chosen' = chosen
    BY <1>1 DEF CutOff
  <2>2. PopulationTypeOK'
    BY <1>0, <2>1, PopulationAssumption DEF PopulationTypeOK
  <2>3. RowsInOrder'
    BY <1>0, <1>1, <2>1 DEF RowsInOrder
  <2>4. ParentsArePicked'
    BY <1>0, <2>1, SameRowsKeep DEF ParentsArePicked
  <2> QED
    BY <1>0, <2>2, <2>3, <2>4, SameRowsKeep
<1>2. CASE moment = "gate"
  <2>1. moment' = "gate" /\ chosen' \in Picks(ValidParents)
    BY <1>2 DEF CutOff
  <2>2. chosen' \in Picks(KeptBefore(child_)) /\ chosen' \in 0..LastBorn
    BY <1>2, <2>1, PicksAreGenerations
  <2>3. PopulationTypeOK'
    BY <1>0, <2>1, <2>2 DEF PopulationTypeOK
  <2>4. RowsInOrder'
    BY <1>0, <1>2, <2>1 DEF RowsInOrder
  <2>5. ParentsArePicked'
    BY <1>0, <2>2, SameRowsKeep DEF ParentsArePicked
  <2> QED
    BY <1>0, <2>3, <2>4, <2>5, SameRowsKeep
<1>3. CASE moment \in {"record", "reflect"}
  <2>1. moment' = "next" /\ chosen' = chosen
    BY <1>3 DEF CutOff
  <2>2. PopulationTypeOK'
    BY <1>0, <2>1 DEF PopulationTypeOK
  <2>3. RowsInOrder'
    BY <1>0, <1>3, <2>1 DEF RowsInOrder
  <2>4. ParentsArePicked'
    BY <1>0, <2>1, SameRowsKeep DEF ParentsArePicked
  <2> QED
    BY <1>0, <2>2, <2>3, <2>4, SameRowsKeep
<1> QED
  BY <1>1, <1>2, <1>3 DEF CutOff

(* Reflect reads the rows and credits what they say. *)
LEMMA ReflectKeeps ==
    ASSUME PopulationInv, Reflect
    PROVE  PopulationInv'
<1> USE DEF PopulationInv
<1>0. UNCHANGED <<strategy, child_, chosen, rundir, family, kills>> /\ moment' = "next"
  BY DEF Reflect
<1>1. PopulationTypeOK'
  BY <1>0 DEF PopulationTypeOK
<1>2. RowsInOrder'
  BY <1>0 DEF RowsInOrder, Reflect
<1>3. ParentsArePicked'
  BY <1>0, SameRowsKeep DEF ParentsArePicked
<1>4. CreditIsCounted'
  <2>0. playbook' = FoldedPlaybook
    BY DEF Reflect
  <2> SUFFICES ASSUME NEW note \in DOMAIN FoldedPlaybook
               PROVE  /\ \A g \in playbook'[note].gens :
                            g \in Born /\ family[g].note = note /\ family[g].verified # {}
                      /\ playbook'[note].credit =
                           Cardinality({p \in playbook'[note].gens \X Entries :
                                          p[2] \in family[p[1]].verified})
    BY <1>0, <2>0 DEF CreditIsCounted, Born
  <2>1. CASE note \in Notes
    <3>1. playbook'[note] = Insight(note)
      BY <2>0, <2>1 DEF FoldedPlaybook
    <3>2. playbook'[note].gens = Supporters(note) /\ playbook'[note].credit = Credit(note)
      BY <3>1 DEF Insight
    <3> QED
      BY <3>2 DEF Supporters, Credit
  <2>2. CASE note \notin Notes
    <3>1. playbook'[note] = playbook[note] /\ note \in DOMAIN playbook
      BY <2>0, <2>2 DEF FoldedPlaybook
    <3> QED
      BY <3>1 DEF CreditIsCounted
  <2> QED
    BY <2>1, <2>2
<1> QED
  BY <1>0, <1>1, <1>2, <1>3, <1>4, SameRowsKeep

(* Rows before the one that changes are told by, and count, as before.       *)
LEMMA OldRowsKeep ==
    ASSUME PopulationInv, RowStep, NEW g \in Born, g # child_
    PROVE  /\ family'[g] = family[g] /\ g \in Born'
           /\ Score(g)' = Score(g)
           /\ g > 0 => /\ family'[family[g].parent] = family[family[g].parent]
                       /\ Score(family[g].parent)' = Score(family[g].parent)
<1> USE DEF PopulationInv
<1>1. g \in 0..LastBorn /\ family[g] # Unwritten
  BY DEF Born
<1>2. family'[g] = family[g]
  BY <1>1 DEF RowStep
<1>3. g \in Born'
  BY <1>1, <1>2 DEF Born
<1>4. Score(g)' = Score(g)
  BY <1>2 DEF Score
<1>5. ASSUME g > 0
      PROVE  /\ family'[family[g].parent] = family[family[g].parent]
             /\ Score(family[g].parent)' = Score(family[g].parent)
  <2>1. g < child_
    BY <1>1, PopulationAssumption DEF RowsInOrder, PopulationTypeOK
  <2>2. family[g].parent \in Picks(KeptBefore(g))
    BY <1>5 DEF ParentsArePicked
  <2>3. g \in 1..LastBorn
    BY <1>1, <1>5, PopulationAssumption
  <2>4. family[g].parent \in 0..(g - 1)
    BY <2>2, <2>3, KeptBeforeFacts
  <2>5. family[g].parent \in 0..LastBorn /\ family[g].parent # child_
    BY <2>1, <2>3, <2>4, PopulationAssumption
  <2>6. family'[family[g].parent] = family[family[g].parent]
    BY <2>5 DEF RowStep
  <2> QED
    BY <1>2, <2>6 DEF Score
<1> QED
  BY <1>2, <1>3, <1>4, <1>5

(* An insight keeps its credit when a row without fixes changes.             *)
LEMMA CreditOfOtherRows ==
    ASSUME PopulationInv, RowStep, playbook' = playbook,
           child_ \in Born => family[child_].verified = {}
    PROVE  CreditIsCounted'
<1> USE DEF PopulationInv
<1> SUFFICES ASSUME NEW note \in DOMAIN playbook
             PROVE  /\ \A g \in playbook[note].gens :
                          g \in Born' /\ family'[g].note = note /\ family'[g].verified # {}
                    /\ playbook[note].credit =
                         Cardinality({p \in playbook[note].gens \X Entries :
                                        p[2] \in family'[p[1]].verified})
  BY DEF CreditIsCounted
<1>1. \A g \in playbook[note].gens : g \in Born /\ family[g].note = note /\ family[g].verified # {}
  BY DEF CreditIsCounted
<1>2. \A g \in playbook[note].gens : g # child_
  BY <1>1
<1>3. \A g \in playbook[note].gens : family'[g] = family[g] /\ g \in Born'
  BY <1>1, <1>2, OldRowsKeep
<1>4. {p \in playbook[note].gens \X Entries : p[2] \in family'[p[1]].verified}
        = {p \in playbook[note].gens \X Entries : p[2] \in family[p[1]].verified}
  BY <1>3
<1> QED
  BY <1>1, <1>3, <1>4 DEF CreditIsCounted

(* What is to be shown of the row that changes.                              *)
LEMMA RowStepKeeps ==
    ASSUME PopulationInv, RowStep,
           child_ \in Kept' /\ strategy.select = "greedy"
             /\ strategy.gate \in {"hillclimb", "strict"} =>
               /\ Score(family[child_].parent)' <= Score(child_)'
               /\ strategy.gate = "strict" => Score(family[child_].parent)' < Score(child_)',
           child_ \in Born' /\ family'[child_].verified # {} =>
             /\ child_ > 0 /\ family'[child_].predicted # Unwritten
             /\ family'[child_].verified =
                  {e \in family'[child_].predicted :
                     /\ family'[child_].vector[e[2]] = "pass"
                     /\ family'[family'[child_].parent].vector[e[2]] = "fail"}
    PROVE  KeptScoreTheirParent' /\ VerifiedAreFixes'
<1> USE DEF PopulationInv
<1>0. \A g \in Born' : g = child_ \/ (g # child_ /\ g \in Born)
  BY DEF Born, RowStep
<1>1. ASSUME strategy.select = "greedy", strategy.gate \in {"hillclimb", "strict"},
             NEW g \in Kept'
      PROVE  /\ Score(family[g].parent)' <= Score(g)'
             /\ strategy.gate = "strict" => Score(family[g].parent)' < Score(g)'
  <2>1. CASE g = child_
    <3>1. child_' = child_
      BY DEF RowStep
    <3> QED
      BY <1>1, <2>1, <3>1 DEF Score
  <2>2. CASE g # child_
    <3>1. g \in Born /\ g > 0 /\ family'[g].verdict = "keep"
      BY <1>0, <2>2, PopulationAssumption DEF Kept, Born
    <3>2. /\ family'[g] = family[g] /\ Score(g)' = Score(g)
          /\ Score(family[g].parent)' = Score(family[g].parent)
      BY <2>2, <3>1, OldRowsKeep
    <3>3. g \in Kept
      BY <3>1, <3>2 DEF Kept
    <3> QED
      BY <1>1, <3>2, <3>3 DEF KeptScoreTheirParent
  <2> QED
    BY <2>1, <2>2
<1>2. KeptScoreTheirParent'
  BY <1>1 DEF KeptScoreTheirParent, RowStep
<1>3. ASSUME NEW g \in Born', family'[g].verified # {}
      PROVE  /\ g > 0 /\ family'[g].predicted # Unwritten
             /\ family'[g].verified =
                  {e \in family'[g].predicted :
                     /\ family'[g].vector[e[2]] = "pass"
                     /\ family'[family'[g].parent].vector[e[2]] = "fail"}
  <2>1. CASE g = child_
    BY <1>3, <2>1
  <2>2. CASE g # child_
    <3>1. g \in Born
      BY <1>0, <2>2
    <3>2. family'[g] = family[g]
      BY <2>2, <3>1, OldRowsKeep
    <3>3. g > 0
      BY <1>3, <3>1, <3>2 DEF VerifiedAreFixes
    <3>4. family'[family[g].parent] = family[family[g].parent]
      BY <2>2, <3>1, <3>3, OldRowsKeep
    <3> QED
      BY <1>3, <3>1, <3>2, <3>4 DEF VerifiedAreFixes
  <2> QED
    BY <2>1, <2>2
<1>4. VerifiedAreFixes'
  BY <1>3 DEF VerifiedAreFixes
<1> QED
  BY <1>2, <1>4

(* An evaluation writes the first row of its child, under the parent       *)
(* chosen.                                                                 *)
LEMMA MeasureKeeps ==
    ASSUME PopulationInv, Measure
    PROVE  PopulationInv'
<1> USE DEF PopulationInv
<1>0. /\ UNCHANGED <<strategy, child_, resumed, chosen, rundir, playbook, kills>>
      /\ moment = "evaluate"
  BY DEF Measure
<1>1. PICK vector \in [GatedTasks -> {"pass", "fail", "none"}] :
         /\ family' = [family EXCEPT ![child_] =
               [parent |-> chosen, vector |-> vector,
                verdict |-> IF Complete_(vector) THEN "pending" ELSE "discard",
                note |-> Unwritten, predicted |-> Unwritten, verified |-> {}]]
         /\ moment' = IF Complete_(vector) THEN "gate" ELSE "next"
  BY DEF Measure
<1> DEFINE new == [parent |-> chosen, vector |-> vector,
                   verdict |-> IF Complete_(vector) THEN "pending" ELSE "discard",
                   note |-> Unwritten, predicted |-> Unwritten, verified |-> {}]
<1>2. new \in Rows
  BY DEF PopulationTypeOK, Rows
<1>3. new # Unwritten
  BY <1>2, PopulationAssumption
<1>4. child_ \in 0..LastBorn /\ child_ > 0 /\ family[child_] = Unwritten /\ child_ \in Nat
  BY <1>0, PopulationAssumption DEF PopulationTypeOK, RowsInOrder
<1>5. /\ new.parent = chosen /\ new.verdict \in {"pending", "discard"} /\ new.verified = {}
      /\ Complete_(vector) => new.verdict = "pending"
  OBVIOUS
<1>6. family' = [family EXCEPT ![child_] = new]
  BY <1>1
<1> HIDE DEF new
<1>7. RowStep /\ family'[child_] = new
  BY <1>0, <1>4, <1>6 DEF RowStep, PopulationTypeOK
<1>8. PopulationTypeOK'
  <2>1. moment' \in {"gate", "next"}
    BY <1>1
  <2> QED
    BY <1>0, <1>2, <1>6, <2>1 DEF PopulationTypeOK
<1>9. RowsInOrder'
  <2>1. moment' \in {"gate", "next"} /\ (moment' = "gate" => new.verdict = "pending")
    BY <1>1, <1>5
  <2>2. 0 \in 0..LastBorn
    BY PopulationAssumption
  <2>3. family'[0] = family[0] /\ \A g \in 0..LastBorn : g > child_ => family'[g] = Unwritten
    BY <1>4, <1>7, <2>2 DEF RowStep, RowsInOrder
  <2> QED
    BY <1>0, <1>3, <1>4, <1>5, <1>7, <2>1, <2>3 DEF RowsInOrder
<1>10. ParentsArePicked'
  <2>1. family'[child_].parent = chosen
    BY <1>5, <1>7
  <2>2. /\ \A g \in Born' \ {0} : family'[g].parent \in Picks(KeptBefore(g))'
        /\ Picks(KeptBefore(child_))' = Picks(KeptBefore(child_))
    BY <1>0, <1>7, <2>1, ParentsStayPicked
  <2> QED
    BY <1>0, <2>2 DEF ParentsArePicked
<1>11. child_ \notin Kept' /\ child_ \notin Born
  BY <1>4, <1>5, <1>7 DEF Kept, Born
<1>12. KeptScoreTheirParent' /\ VerifiedAreFixes'
  BY <1>5, <1>7, <1>11, RowStepKeeps
<1>13. CreditIsCounted'
  BY <1>0, <1>7, <1>11, CreditOfOtherRows
<1> QED
  BY <1>8, <1>9, <1>10, <1>12, <1>13

(* The gate keeps a child by the rule of its recipe. *)
LEMMA JudgeKeeps ==
    ASSUME PopulationInv, Judge
    PROVE  PopulationInv'
<1> USE DEF PopulationInv
<1>0. /\ UNCHANGED <<strategy, child_, resumed, chosen, rundir, playbook, kills>>
      /\ moment = "gate" /\ moment' = "record"
      /\ family' = [family EXCEPT ![child_].verdict = VerdictOf(Accepts)]
  BY DEF Judge
<1>1. child_ \in 1..LastBorn /\ child_ \in Born /\ family[child_] \in Rows
  BY <1>0, PopulationAssumption DEF PopulationTypeOK, RowsInOrder, Born
<1>2. VerdictOf(Accepts) \in {"keep", "discard"} /\ (VerdictOf(Accepts) = "keep" => Accepts)
  BY DEF VerdictOf
<1> DEFINE new == [family[child_] EXCEPT !.verdict = VerdictOf(Accepts)]
<1>3. new \in Rows
  BY <1>1, <1>2 DEF Rows
<1>4. /\ new # Unwritten /\ new.verdict = VerdictOf(Accepts)
      /\ new.parent = family[child_].parent /\ new.vector = family[child_].vector
      /\ new.verified = family[child_].verified
  BY <1>1, <1>3, PopulationAssumption DEF Rows
<1>5. family' = [family EXCEPT ![child_] = new]
  BY <1>0
<1> HIDE DEF new
<1>6. RowStep /\ family'[child_] = new
  BY <1>0, <1>1, <1>5 DEF RowStep, PopulationTypeOK
<1>7. PopulationTypeOK'
  BY <1>0, <1>3, <1>5 DEF PopulationTypeOK
<1>8. RowsInOrder'
  <2>1. 0 \in 0..LastBorn /\ child_ # 0 /\ child_ \in 0..LastBorn
    BY <1>1, PopulationAssumption
  <2>2. family'[0] = family[0] /\ \A g \in 0..LastBorn : g > child_ => family'[g] = Unwritten
    BY <1>1, <1>6, <2>1 DEF RowStep, RowsInOrder
  <2>3. new.verified = {}
    BY <1>0, <1>4 DEF RowsInOrder
  <2> QED
    BY <1>0, <1>1, <1>4, <1>6, <2>2, <2>3 DEF RowsInOrder
<1>9. ParentsArePicked'
  BY <1>0, <1>1, <1>4, <1>6, ParentsStayPicked DEF ParentsArePicked
<1>10. ASSUME child_ \in Kept', strategy.select = "greedy",
              strategy.gate \in {"hillclimb", "strict"}
       PROVE  /\ Score(family[child_].parent)' <= Score(child_)'
              /\ strategy.gate = "strict" => Score(family[child_].parent)' < Score(child_)'
  <2>1. Accepts
    BY <1>2, <1>4, <1>6, <1>10 DEF Kept
  <2>2. HillclimbAccepts(child_, chosen, strategy.gate = "strict")
    <3>1. CASE strategy.gate = "strict"
      BY <2>1, <3>1 DEF Accepts, HillclimbAccepts
    <3>2. CASE strategy.gate = "hillclimb"
      BY <2>1, <3>2 DEF Accepts, HillclimbAccepts
    <3> QED
      BY <1>10, <3>1, <3>2
  <2>3. /\ Score(chosen) <= Score(child_)
        /\ strategy.gate = "strict" => Score(chosen) < Score(child_)
    BY <2>2, ScoreIsNatural DEF HillclimbAccepts
  <2> DEFINE K == KeptBefore(child_)
  <2>4. K \in SUBSET (0..LastBorn) /\ K # {} /\ \A h \in K : h \in 0..(child_ - 1)
    BY <1>1, KeptBeforeFacts
  <2>5. chosen \in Picks(K) /\ family[child_].parent \in Picks(K)
    BY <1>0, <1>1 DEF ParentsArePicked
  <2> HIDE DEF K
  <2>6. Picks(K) = {GreedyPick(K)} /\ Picks(K) \subseteq K
    BY <1>10, <2>4, PicksFacts DEF PopulationTypeOK
  <2>7. family[child_].parent = chosen /\ chosen \in K
    BY <2>5, <2>6
  <2>8. chosen # child_ /\ chosen \in 0..LastBorn
    BY <1>1, <2>4, <2>7
  <2>9. Score(chosen)' = Score(chosen) /\ Score(child_)' = Score(child_)
    <3>1. family'[chosen] = family[chosen]
      BY <1>6, <2>8 DEF RowStep
    <3>2. family'[child_].vector = family[child_].vector
      BY <1>4, <1>6
    <3> QED
      BY <1>0, <3>1, <3>2 DEF Score
  <2>10. Score(family[child_].parent)' = Score(chosen)
    <3>1. family'[child_].parent = chosen
      BY <1>4, <1>6, <2>7
    <3>2. family'[family'[child_].parent] = family[chosen]
      BY <1>6, <2>8, <3>1 DEF RowStep
    <3> QED
      BY <1>0, <3>2 DEF Score
  <2> QED
    BY <2>3, <2>9, <2>10
<1>11. family'[child_].verified = {} /\ family[child_].verified = {}
  BY <1>0, <1>4, <1>6 DEF RowsInOrder
<1>12. KeptScoreTheirParent' /\ VerifiedAreFixes'
  BY <1>6, <1>10, <1>11, RowStepKeeps
<1>13. CreditIsCounted'
  BY <1>0, <1>6, <1>11, CreditOfOtherRows
<1> QED
  BY <1>7, <1>8, <1>9, <1>12, <1>13

(* What record adds to a row is what its vector and its parent's say.       *)
LEMMA AnnotateKeeps ==
    ASSUME PopulationInv, Annotate
    PROVE  PopulationInv'
<1> USE DEF PopulationInv
<1>0. /\ UNCHANGED <<strategy, child_, resumed, chosen, rundir, playbook, kills>>
      /\ moment = "record" /\ moment' \in {"next", "reflect"}
      /\ family' = [family EXCEPT ![child_] = RecordFields]
  BY DEF Annotate
<1>1. child_ \in 1..LastBorn /\ child_ \in Born /\ family[child_] \in Rows
  BY <1>0, PopulationAssumption DEF PopulationTypeOK, RowsInOrder, Born
<1> DEFINE fixes == VerifiedFixes(child_, rundir.predicted)
<1>2. family[child_].parent \in 0..(child_ - 1)
  BY <1>1, KeptBeforeFacts DEF ParentsArePicked
<1>3. family[family[child_].parent] \in Rows
  <2>1. family[child_].parent \in Picks(KeptBefore(child_))
    BY <1>1 DEF ParentsArePicked
  <2>2. family[child_].parent \in Born
    BY <1>1, <2>1, KeptBeforeFacts
  <2> QED
    BY <2>2 DEF Born, PopulationTypeOK
<1>4. rundir.predicted \in Predictions \cup {Unwritten}
      /\ rundir.note \in Headings \cup {Unwritten}
  BY DEF PopulationTypeOK
<1>5. rundir.predicted # Unwritten =>
        /\ rundir.predicted \subseteq Entries
        /\ \A e \in rundir.predicted : e[2] \in GatedTasks
  BY <1>4, PopulationAssumption DEF Entries
<1>6. rundir.predicted # Unwritten =>
        fixes = {e \in rundir.predicted :
                   /\ family[child_].vector[e[2]] = "pass"
                   /\ family[family[child_].parent].vector[e[2]] = "fail"}
  <2> SUFFICES ASSUME rundir.predicted # Unwritten, NEW e \in rundir.predicted
               PROVE  (/\ TaskPassed(family[family[child_].parent].vector, e[2]) = {FALSE}
                       /\ TaskPassed(family[child_].vector, e[2]) = {TRUE})
                      <=> (/\ family[child_].vector[e[2]] = "pass"
                           /\ family[family[child_].parent].vector[e[2]] = "fail")
    BY Zenon DEF VerifiedFixes
  <2>1. e[2] \in GatedTasks
    BY <1>5
  <2>2. /\ family[child_].vector \in [GatedTasks -> {"pass", "fail", "none"}]
        /\ family[family[child_].parent].vector \in [GatedTasks -> {"pass", "fail", "none"}]
    BY <1>1, <1>3 DEF Rows
  <2> QED
    BY <2>1, <2>2, TaskPassedFacts
<1>7. rundir.predicted = Unwritten => fixes = {}
  BY DEF VerifiedFixes
<1> HIDE DEF fixes
<1>8. fixes \in SUBSET Entries
  BY <1>5, <1>6, <1>7
<1> DEFINE new == RecordFields
<1>9. new = [family[child_] EXCEPT !.note = rundir.note, !.predicted = rundir.predicted,
                                   !.verified = fixes]
  BY DEF RecordFields, fixes
<1>10. new \in Rows
  BY <1>1, <1>4, <1>8, <1>9 DEF Rows
<1>11. /\ new # Unwritten /\ new.verified = fixes /\ new.predicted = rundir.predicted
       /\ new.parent = family[child_].parent /\ new.vector = family[child_].vector
       /\ new.verdict = family[child_].verdict
  BY <1>1, <1>9, <1>10, PopulationAssumption DEF Rows
<1> HIDE DEF new
<1>12. RowStep /\ family'[child_] = new
  BY <1>0, <1>1 DEF RowStep, PopulationTypeOK, new
<1>13. PopulationTypeOK'
  BY <1>0, <1>10 DEF PopulationTypeOK, new
<1>14. RowsInOrder'
  <2>1. 0 \in 0..LastBorn /\ child_ # 0 /\ child_ \in 0..LastBorn
    BY <1>1, PopulationAssumption
  <2>2. family'[0] = family[0] /\ \A g \in 0..LastBorn : g > child_ => family'[g] = Unwritten
    BY <1>1, <1>12, <2>1 DEF RowStep, RowsInOrder
  <2> QED
    BY <1>0, <1>1, <1>11, <1>12, <2>2 DEF RowsInOrder
<1>15. ParentsArePicked'
  BY <1>0, <1>1, <1>11, <1>12, ParentsStayPicked DEF ParentsArePicked
<1>16. family'[family[child_].parent] = family[family[child_].parent]
  <2>1. family[child_].parent \in 0..LastBorn /\ family[child_].parent # child_
    BY <1>1, <1>2, PopulationAssumption
  <2> QED
    BY <1>12, <2>1 DEF RowStep
<1>17. ASSUME child_ \in Kept', strategy.select = "greedy",
              strategy.gate \in {"hillclimb", "strict"}
       PROVE  /\ Score(family[child_].parent)' <= Score(child_)'
              /\ strategy.gate = "strict" => Score(family[child_].parent)' < Score(child_)'
  <2>1. child_ \in Kept
    BY <1>1, <1>11, <1>12, <1>17 DEF Kept
  <2>2. Score(child_)' = Score(child_)
    BY <1>0, <1>11, <1>12 DEF Score
  <2>3. Score(family[child_].parent)' = Score(family[child_].parent)
    <3>1. family'[child_'].parent = family[child_].parent
      BY <1>0, <1>11, <1>12
    <3>2. family'[family'[child_'].parent] = family[family[child_].parent]
      BY <1>16, <3>1
    <3> QED
      BY <3>2 DEF Score
  <2> QED
    BY <1>17, <2>1, <2>2, <2>3 DEF KeptScoreTheirParent
<1>18. ASSUME family'[child_].verified # {}
       PROVE  /\ child_ > 0 /\ family'[child_].predicted # Unwritten
              /\ family'[child_].verified =
                   {e \in family'[child_].predicted :
                      /\ family'[child_].vector[e[2]] = "pass"
                      /\ family'[family'[child_].parent].vector[e[2]] = "fail"}
  <2>1. rundir.predicted # Unwritten
    BY <1>7, <1>11, <1>12, <1>18
  <2> QED
    BY <1>1, <1>6, <1>11, <1>12, <1>16, <2>1
<1>19. KeptScoreTheirParent' /\ VerifiedAreFixes'
  BY <1>12, <1>17, <1>18, RowStepKeeps
<1>20. family[child_].verified = {}
  BY <1>0 DEF RowsInOrder
<1>21. CreditIsCounted'
  BY <1>0, <1>12, <1>20, CreditOfOtherRows
<1> QED
  BY <1>13, <1>14, <1>15, <1>19, <1>21

(* A search starts from the baseline alone. *)
LEMMA PopulationInitInv ==
    ASSUME PopulationInit
    PROVE  PopulationInv
<1> USE DEF PopulationInit
<1>1. PICK vector \in [GatedTasks -> {"pass", "fail"}] :
         family = [g \in 0..LastBorn |->
                     IF g > 0 THEN Unwritten
                     ELSE [parent |-> 0, vector |-> vector,
                           verdict |-> "keep", note |-> Unwritten,
                           predicted |-> Unwritten, verified |-> {}]]
  OBVIOUS
<1> DEFINE root == [parent |-> 0, vector |-> vector,
                    verdict |-> "keep", note |-> Unwritten,
                    predicted |-> Unwritten, verified |-> {}]
<1>2. 0 \in 0..LastBorn
  BY PopulationAssumption
<1>3. vector \in [GatedTasks -> {"pass", "fail", "none"}]
  OBVIOUS
<1>4. root \in Rows /\ root.verdict = "keep" /\ root.verified = {}
  BY <1>2, <1>3 DEF Rows
<1>5. family = [g \in 0..LastBorn |-> IF g > 0 THEN Unwritten ELSE root]
  BY <1>1
<1> HIDE DEF root
<1>6. root # Unwritten /\ family[0] = root /\ \A g \in 0..LastBorn : g > 0 => family[g] = Unwritten
  BY <1>2, <1>4, <1>5, PopulationAssumption
<1>7. PopulationTypeOK
  <2>1. family \in [0..LastBorn -> Rows \cup {Unwritten}]
    BY <1>4, <1>5
  <2> QED
    BY <1>2, <2>1, PopulationAssumption DEF PopulationTypeOK
<1>8. RowsInOrder
  BY <1>4, <1>6 DEF RowsInOrder
<1>9. Born = {0}
  <2>1. 0 \in Born
    BY <1>2, <1>6 DEF Born
  <2>2. \A g \in 0..LastBorn : g = 0 \/ g > 0
    OBVIOUS
  <2>3. \A g \in Born : g \in 0..LastBorn /\ family[g] # Unwritten
    BY DEF Born
  <2> QED
    BY <1>6, <2>1, <2>2, <2>3
<1>10. ParentsArePicked /\ KeptScoreTheirParent
  BY <1>9 DEF ParentsArePicked, KeptScoreTheirParent, Kept
<1>11. VerifiedAreFixes
  BY <1>4, <1>6, <1>9 DEF VerifiedAreFixes
<1>12. CreditIsCounted
  BY DEF CreditIsCounted
<1> QED
  BY <1>7, <1>8, <1>10, <1>11, <1>12 DEF PopulationInv

(* Every step keeps the search's invariant. *)
LEMMA PopulationNextInv ==
    ASSUME PopulationInv, [PopulationNext]_populationVars
    PROVE  PopulationInv'
<1>1. CASE UNCHANGED populationVars
  <2>1. UNCHANGED <<strategy, child_, moment, resumed, chosen, rundir, family, playbook,
                    kills>>
    BY <1>1 DEF populationVars
  <2>2. PopulationTypeOK' /\ RowsInOrder'
    BY <2>1 DEF PopulationInv, PopulationTypeOK, RowsInOrder
  <2>3. ParentsArePicked'
    BY <2>1, SameRowsKeep DEF PopulationInv, ParentsArePicked
  <2> QED
    BY <2>1, <2>2, <2>3, SameRowsKeep DEF PopulationInv
<1> QED
  BY <1>1, ChooseKeeps, ProposeKeeps, MeasureKeeps, JudgeKeeps, AnnotateKeeps, ReflectKeeps,
    NextChildKeeps, CutOffKeeps DEF PopulationNext

(* A generation's parent was kept before it, so it is an earlier one.       *)
LEMMA ParentOfBorn ==
    ASSUME PopulationInv, NEW g \in Born \ {0}
    PROVE  /\ g \in 1..LastBorn /\ family[g].parent \in Picks(KeptBefore(g))
           /\ KeptBefore(g) \in SUBSET (0..LastBorn) /\ KeptBefore(g) # {}
           /\ family[g].parent \in KeptBefore(g) /\ family[g].parent \in 0..(g - 1)
<1>1. g \in 1..LastBorn
  BY PopulationAssumption DEF Born
<1>2. family[g].parent \in Picks(KeptBefore(g))
  BY DEF PopulationInv, ParentsArePicked
<1> QED
  BY <1>1, <1>2, KeptBeforeFacts DEF PopulationInv

(* With greedy, the parent has the best score of those before the child.    *)
LEMMA ClimbsWhenGreedy ==
    ASSUME PopulationInv
    PROVE  GreedyClimbs
<1> SUFFICES ASSUME strategy.select = "greedy", strategy.gate \in {"hillclimb", "strict"}
             PROVE  /\ \A g \in Kept : \A h \in KeptBefore(g) :
                         Score(h) <= Score(g) /\ (strategy.gate = "strict" => Score(h) < Score(g))
                    /\ \A g \in Born \ {0} : \A h \in KeptBefore(family[g].parent) :
                         Score(h) < Score(family[g].parent)
  BY DEF GreedyClimbs
<1>1. ASSUME NEW g \in Born \ {0}
      PROVE  /\ \A h \in KeptBefore(g) : Score(h) <= Score(family[g].parent)
             /\ \A h \in KeptBefore(g) : h < family[g].parent =>
                  Score(h) < Score(family[g].parent)
  <2>1. family[g].parent \in Picks(KeptBefore(g)) /\ KeptBefore(g) \in SUBSET (0..LastBorn)
        /\ KeptBefore(g) # {}
    BY ParentOfBorn
  <2>2. family[g].parent = GreedyPick(KeptBefore(g))
    BY <2>1, PicksFacts DEF PopulationInv, PopulationTypeOK
  <2> QED
    BY <2>1, <2>2, GreedyPickFacts
<1>2. ASSUME NEW g \in Kept, NEW h \in KeptBefore(g)
      PROVE  Score(h) <= Score(g) /\ (strategy.gate = "strict" => Score(h) < Score(g))
  <2>1. g \in Born \ {0}
    BY DEF Kept
  <2>2. Score(h) <= Score(family[g].parent)
    BY <1>1, <2>1
  <2>3. /\ Score(family[g].parent) <= Score(g)
        /\ strategy.gate = "strict" => Score(family[g].parent) < Score(g)
    BY DEF PopulationInv, KeptScoreTheirParent
  <2>4. Score(h) \in Nat /\ Score(g) \in Nat /\ Score(family[g].parent) \in Nat
    BY ScoreIsNatural
  <2> QED
    BY <2>2, <2>3, <2>4
<1>3. ASSUME NEW g \in Born \ {0}, NEW h \in KeptBefore(family[g].parent)
      PROVE  Score(h) < Score(family[g].parent)
  <2>1. family[g].parent \in 0..(g - 1) /\ g \in 1..LastBorn
    BY ParentOfBorn
  <2>2. h \in KeptBefore(g) /\ h < family[g].parent
    BY <2>1, PopulationAssumption DEF KeptBefore
  <2> QED
    BY <1>1, <2>2
<1> QED
  BY <1>2, <1>3

(* Whatever the recipe, what the population and the playbook show as         *)
(* progress is progress: a greedy climb never falls and builds on no tie, the *)
(* kept generations of ahe are one line, useless parents die out, and credit *)
(* is what the entries of the predicted lists verify, no more for reflecting  *)
(* again (select, gate, record and credit.py).                              *)
THEOREM ProgressShownIsReal == PopulationSpec => []ProgressIsReal
<1>1. PopulationInit => PopulationInv
  BY PopulationInitInv
<1>2. PopulationInv /\ [PopulationNext]_populationVars => PopulationInv'
  BY PopulationNextInv
<1>3. PopulationInv => ProgressIsReal
  <2> SUFFICES ASSUME PopulationInv PROVE ProgressIsReal
    OBVIOUS
  <2>1. GreedyClimbs
    BY ClimbsWhenGreedy
  <2>2. AheIsALine
    <3> SUFFICES ASSUME strategy.select \in {"newest", "ahe_latest"}, NEW g \in Born \ {0}
                 PROVE  family[g].parent = Max(KeptBefore(g))
      BY DEF AheIsALine
    <3>1. family[g].parent \in Picks(KeptBefore(g)) /\ KeptBefore(g) \in SUBSET (0..LastBorn)
          /\ KeptBefore(g) # {}
      BY ParentOfBorn
    <3> QED
      BY <3>1, PicksFacts DEF PopulationInv, PopulationTypeOK
  <2>3. UselessDieOut
    <3> SUFFICES ASSUME strategy.select = "score_weighted", NEW g \in Born \ {0},
                        Score(family[g].parent) = 0, NEW h \in KeptBefore(g)
                 PROVE  Score(h) = 0
      BY DEF UselessDieOut
    <3>1. family[g].parent \in Picks(KeptBefore(g)) /\ KeptBefore(g) \in SUBSET (0..LastBorn)
          /\ KeptBefore(g) # {}
      BY ParentOfBorn
    <3> QED
      BY <3>1, PicksFacts DEF PopulationInv, PopulationTypeOK
  <2>4. CreditIsVerified
    <3> DEFINE fixes(g) ==
          {e \in family[g].predicted :
             family[g].vector[e[2]] = "pass" /\ family[family[g].parent].vector[e[2]] = "fail"}
    <3> SUFFICES ASSUME NEW note \in DOMAIN playbook
                 PROVE  /\ \A g \in playbook[note].gens : family[g].note = note
                        /\ playbook[note].credit =
                             Cardinality({p \in playbook[note].gens \X Entries :
                                            p[2] \in fixes(p[1])})
      BY DEF CreditIsVerified
    <3>1. \A g \in playbook[note].gens :
             g \in Born /\ family[g].note = note /\ family[g].verified # {}
      BY DEF PopulationInv, CreditIsCounted
    <3>2. \A g \in playbook[note].gens : family[g].verified = fixes(g)
      BY <3>1 DEF PopulationInv, VerifiedAreFixes
    <3> HIDE DEF fixes
    <3>3. {p \in playbook[note].gens \X Entries : p[2] \in fixes(p[1])}
            = {p \in playbook[note].gens \X Entries : p[2] \in family[p[1]].verified}
      BY <3>2
    <3> QED
      BY <3>1, <3>3 DEF PopulationInv, CreditIsCounted
  <2> QED
    BY <2>1, <2>2, <2>3, <2>4 DEF ProgressIsReal
<1> QED
  BY <1>1, <1>2, <1>3, PTL DEF PopulationSpec
==============================================================================
