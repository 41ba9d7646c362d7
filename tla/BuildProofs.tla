---------------------------- MODULE BuildProofs ----------------------------
(***************************************************************************)
(* Proofs about Build for every set of trees and every sequence of edits,  *)
(* pushes, cleans, makes and runs: a binary never holds two definitions of *)
(* a struct, nor a sanitised half and a plain one, whatever the values of  *)
(* SAN; its two halves have the same flags when there is one sanitiser,    *)
(* and with one tree and one SAN in the build directory the header of a    *)
(* table is right.                                                         *)
(***************************************************************************)
EXTENDS Build, TLAPS, FiniteSetTheorems

\* A library and a binary are files.
LEMMA FilesAreFiles ==
  /\ \A l \in Libs : l # NoFile
  /\ \A b \in [lib : Libs, san : Sans, hdr : Ids] : b # NoFile
  <1>1. DOMAIN NoFile = {"none"}
    BY DEF NoFile
  <1>2. \A l \in Libs : "tree" \in DOMAIN l
    BY DEF Libs
  <1>3. \A b \in [lib : Libs, san : Sans, hdr : Ids] : "lib" \in DOMAIN b
    OBVIOUS
  <1> QED
    BY <1>1, <1>2, <1>3

\* New sources in a tree leave every library as new as its tree or stale.
LEMMA WrittenHonest ==
  ASSUME TypeOK, LibsHonest, NEW t \in Trees, NEW v \in 0..MaxVersion, NEW h \in BOOLEAN,
         Written(t, v, h), lib' = lib
  PROVE  /\ LibsHonest'
         /\ version' \in [Trees -> 0..MaxVersion]
         /\ stale' \subseteq Targets
         /\ newer' \subseteq {Harness} \cup {LibFile(x) : x \in Targets}
                              \cup {Headers(u) : u \in Trees}
         /\ newer \subseteq newer'
  <1>1. \A x \in Targets : x \notin stale' => version'[x[1]] = version[x[1]]
    BY DEF Written, TypeOK, Targets
  <1>2. LibsHonest'
    BY <1>1 DEF Written, LibsHonest
  <1>3. stale' \subseteq Targets
    BY DEF Written, TypeOK, Targets
  <1> QED
    BY <1>2, <1>3 DEF Written, TypeOK

\* Nothing is built while the trees move, so what is known of the binary stays.
LEMMA BinKept ==
  ASSUME BinCurrent, UNCHANGED <<lib, bin, used>>, newer \subseteq newer'
  PROVE  BinCurrent'
  BY DEF BinCurrent

\* Every step of the trees, of make and of run.sh preserves the invariant.
LEMMA Inductive == IInv /\ [Next]_vars => IInv'
  <1> SUFFICES ASSUME IInv, [Next]_vars PROVE IInv'
    OBVIOUS
  <1>0. /\ TypeOK /\ LibsHonest /\ JobReady /\ OneDefinition /\ SanitisedTogether
        /\ BinCurrent /\ OneTree /\ HeaderRightForOneTree
    BY DEF IInv
  <1> USE <1>0, BuildAssumption
  <1> USE DEF built
  <1>1. ASSUME NEW t \in Trees, NEW h \in BOOLEAN, Edit(t, h) PROVE IInv'
    <2>1. version[t] + 1 \in 0..MaxVersion
      BY <1>1 DEF Edit, TypeOK
    <2>2. TypeOK' /\ LibsHonest' /\ newer \subseteq newer'
      BY <1>1, <2>1, WrittenHonest DEF Edit, TypeOK
    <2>3. BinCurrent'
      BY <1>1, <2>2, BinKept DEF Edit
    <2>4. JobReady' /\ OneTree'
      BY <1>1 DEF Edit, JobReady, OneTree, Job, Asked
    <2>5. OneDefinition' /\ SanitisedTogether' /\ HeaderRightForOneTree'
      BY <1>1 DEF Edit, OneDefinition, SanitisedTogether, HeaderRightForOneTree
    <2> QED
      BY <2>2, <2>3, <2>4, <2>5 DEF IInv
  <1>2. CASE EditHarness
    <2>1. TypeOK' /\ LibsHonest'
      BY <1>2 DEF EditHarness, TypeOK, LibsHonest
    <2>2. BinCurrent'
      BY <1>2, BinKept DEF EditHarness
    <2>3. JobReady' /\ OneTree'
      BY <1>2 DEF EditHarness, JobReady, OneTree, Job, Asked
    <2>4. OneDefinition' /\ SanitisedTogether' /\ HeaderRightForOneTree'
      BY <1>2 DEF EditHarness, OneDefinition, SanitisedTogether, HeaderRightForOneTree
    <2> QED
      BY <2>1, <2>2, <2>3, <2>4 DEF IInv
  <1>3. CASE Push
    <2>1. TypeOK'
      BY <1>3 DEF Push, TypeOK
    <2> QED
      BY <1>3, <2>1
         DEF Push, IInv, LibsHonest, JobReady, OneDefinition, SanitisedTogether, BinCurrent,
             OneTree, HeaderRightForOneTree, Job, Asked
  <1>4. CASE Clean
    <2>1. TypeOK' /\ LibsHonest'
      BY <1>4 DEF Clean, TypeOK, LibsHonest
    <2>2. JobReady' /\ OneTree'
      BY <1>4, FS_EmptySet DEF Clean, JobReady, OneTree, Job, Asked
    <2>3. OneDefinition' /\ SanitisedTogether' /\ BinCurrent'
      BY <1>4 DEF Clean, OneDefinition, SanitisedTogether, BinCurrent
    <2>4. HeaderRightForOneTree'
      BY <1>4 DEF Clean, HeaderRightForOneTree
    <2> QED
      BY <2>1, <2>2, <2>3, <2>4 DEF IInv
  <1>5. ASSUME NEW t \in Trees, NEW san \in Sans, NEW run \in BOOLEAN, Make(t, san, run)
        PROVE  IInv'
    <2>1. TypeOK'
      BY <1>5 DEF Make, TypeOK
    <2>2. JobReady' /\ OneTree'
      BY <1>5 DEF Make, JobReady, OneTree
    <2>3. LibsHonest' /\ OneDefinition' /\ SanitisedTogether' /\ BinCurrent'
      BY <1>5 DEF Make, LibsHonest, OneDefinition, SanitisedTogether, BinCurrent
    <2>4. HeaderRightForOneTree'
      BY <1>5 DEF Make, HeaderRightForOneTree
    <2> QED
      BY <2>1, <2>2, <2>3, <2>4 DEF IInv
  <1>6. CASE Fetch
    <2>1. /\ LibsHonest' /\ newer \subseteq newer'
          /\ version' \in [Trees -> 0..MaxVersion] /\ stale' \subseteq Targets
          /\ newer' \subseteq {Harness} \cup {LibFile(x) : x \in Targets}
                               \cup {Headers(t) : t \in Trees}
      <3>1. CASE Written(Default, remote, TRUE)
        BY <1>6, <3>1, WrittenHonest DEF Fetch, TypeOK
      <3>2. CASE UNCHANGED <<version, stale, newer>>
        BY <1>6, <3>2 DEF Fetch, TypeOK, LibsHonest
      <3> QED
        BY <1>6, <3>1, <3>2 DEF Fetch
    <2>2. cloned' \in BOOLEAN
      BY <1>6 DEF Fetch, TypeOK
    <2>3. TypeOK'
      BY <1>6, <2>1, <2>2 DEF Fetch, TypeOK, NoJob
    <2>4. BinCurrent'
      BY <1>6, <2>1, BinKept DEF Fetch
    <2>5. JobReady' /\ OneTree'
      BY <1>6 DEF Fetch, JobReady, OneTree
    <2>6. OneDefinition' /\ SanitisedTogether' /\ HeaderRightForOneTree'
      BY <1>6 DEF Fetch, OneDefinition, SanitisedTogether, HeaderRightForOneTree
    <2> QED
      BY <2>1, <2>3, <2>4, <2>5, <2>6 DEF IInv
  <1>7. CASE Lib
    <2> DEFINE new == [tree |-> job.tree, version |-> version[job.tree], san |-> job.san]
    <2>1. Job = <<job.tree, job.san # Plain>> /\ Job \in Targets /\ job.tree \in Trees \ Absent
      BY <1>7 DEF Lib, Job, BURROW_LIB, TypeOK, JobReady, Targets
    <2>2. new \in Libs /\ new # NoFile
      BY <2>1, FilesAreFiles DEF Libs, TypeOK
    <2>3. CASE lib[Job] = NoFile \/ Job \in stale
      <3>1. /\ lib' = [lib EXCEPT ![Job] = new] /\ stale' = stale \ {Job}
            /\ newer' = newer \cup {LibFile(Job)} /\ pc' = "link"
            /\ UNCHANGED <<version, cloned, remote, bin, job, header, report, used>>
        BY <1>7, <2>3 DEF Lib, Job
      <3> HIDE DEF new
      <3>2. TypeOK'
        BY <2>1, <2>2, <3>1 DEF TypeOK
      <3>3. LibsHonest'
        <4>1. lib'[Job] = new /\ \A x \in Targets : x # Job => lib'[x] = lib[x]
          BY <2>1, <3>1 DEF TypeOK
        <4>2. /\ new.tree = Job[1] /\ new.version = version[Job[1]]
              /\ new.san # Plain <=> Job[2]
          BY <2>1 DEF new
        <4> QED
          BY <3>1, <4>1, <4>2 DEF LibsHonest
      <3>4. JobReady'
        BY <2>1, <2>2, <3>1 DEF JobReady, Job, TypeOK
      <3>5. BinCurrent'
        <4>1. \A x : x # Job => lib'[x] = lib[x]
          BY <3>1
        <4> QED
          BY <3>1 DEF BinCurrent, TypeOK, LibFile
      <3>6. OneTree'
        BY <3>1 DEF OneTree, Asked
      <3>7. OneDefinition' /\ SanitisedTogether' /\ HeaderRightForOneTree'
        BY <3>1 DEF OneDefinition, SanitisedTogether, HeaderRightForOneTree
      <3> QED
        BY <3>2, <3>3, <3>4, <3>5, <3>6, <3>7 DEF IInv
    <2>4. CASE ~(lib[Job] = NoFile \/ Job \in stale)
      <3>1. /\ pc' = "link"
            /\ UNCHANGED <<version, cloned, remote, built, job, header, report, used>>
        BY <1>7, <2>4 DEF Lib, Job
      <3>2. TypeOK' /\ LibsHonest' /\ JobReady'
        BY <2>1, <2>4, <3>1 DEF TypeOK, LibsHonest, JobReady, Job
      <3>3. BinCurrent' /\ OneTree' /\ OneDefinition' /\ SanitisedTogether' /\ HeaderRightForOneTree'
        BY <3>1 DEF BinCurrent, OneTree, Asked, OneDefinition, SanitisedTogether, HeaderRightForOneTree
      <3> QED
        BY <3>2, <3>3 DEF IInv
    <2> QED
      BY <2>3, <2>4
  <1>8. CASE Link
    <2> DEFINE hdr == [tree |-> job.tree, version |-> version[job.tree]]
               new == [lib |-> lib[Job], san |-> job.san, hdr |-> hdr]
    <2>1. Job = <<job.tree, job.san # Plain>> /\ Job \in Targets
      BY DEF Job, BURROW_LIB, TypeOK, Targets
    <2>2. /\ lib[Job] \in Libs /\ lib[Job].tree = job.tree
          /\ (lib[Job].san # Plain <=> job.san # Plain)
          /\ lib[Job].version = version[job.tree] /\ job.tree \notin Absent
      BY <1>8, <2>1 DEF Link, JobReady, LibsHonest, TypeOK
    <2>3. /\ pc' = IF job.run THEN "describe" ELSE "idle"
          /\ job' = IF job.run THEN job ELSE NoJob
          /\ used' = used \cup {Asked}
          /\ UNCHANGED <<version, cloned, remote, lib, stale, header, report>>
      BY <1>8 DEF Link, Asked
    <2>4. IsFiniteSet(used') /\ used' \subseteq Trees \X Sans
      <3>1. IsFiniteSet(used')
        BY <2>3, FS_AddElement DEF OneTree
      <3>2. Asked \in Trees \X Sans /\ used \subseteq Trees \X Sans
        BY DEF Asked, TypeOK
      <3> QED
        BY <2>3, <3>1, <3>2
    <2>5. pc' \in {"describe", "run"} => job' = job /\ Asked' = Asked /\ Asked \in used'
      BY <2>3 DEF Asked
    <2>6. BURROW_LIB(lib[Job].tree, lib[Job].san) = Job
      BY <2>1, <2>2 DEF BURROW_LIB
    <2>7. Job = BURROW_LIB(Asked[1], Asked[2]) /\ Asked \in used'
      BY <2>3 DEF Job, Asked
    <2>8. CASE OutOfDate(Job)
      <3>1. bin' = new /\ newer' = {}
        BY <1>8, <2>8 DEF Link, Job
      <3>2. new \in [lib : Libs, san : Sans, hdr : Ids]
        BY <2>2 DEF TypeOK, Ids
      <3>3. TypeOK'
        BY <2>3, <2>4, <3>1, <3>2 DEF TypeOK, NoJob
      <3>4. LibsHonest' /\ HeaderRightForOneTree'
        BY <2>3 DEF LibsHonest, HeaderRightForOneTree
      <3>5. OneDefinition' /\ SanitisedTogether'
        BY <2>2, <3>1 DEF OneDefinition, SanitisedTogether
      <3>6. bin' # NoFile
        BY <3>1, <3>2, FilesAreFiles
      <3>7. JobReady'
        BY <2>2, <2>3, <2>5, <3>6 DEF JobReady
      <3>8. BinCurrent'
        BY <2>3, <2>6, <2>7, <3>1 DEF BinCurrent
      <3>9. OneTree'
        BY <2>2, <2>3, <2>4, <3>1 DEF OneTree
      <3> QED
        BY <3>3, <3>4, <3>5, <3>7, <3>8, <3>9 DEF IInv
    <2>9. CASE ~OutOfDate(Job)
      <3>1. bin' = bin /\ newer' = newer
        BY <1>8, <2>9 DEF Link, Job
      <3>2. bin # NoFile /\ LibFile(Job) \notin newer
        BY <2>9 DEF OutOfDate
      <3>3. TypeOK'
        BY <2>3, <2>4, <3>1 DEF TypeOK, NoJob
      <3>4. LibsHonest' /\ HeaderRightForOneTree'
        BY <2>3 DEF LibsHonest, HeaderRightForOneTree
      <3>5. OneDefinition' /\ SanitisedTogether'
        BY <3>1 DEF OneDefinition, SanitisedTogether
      <3>6. JobReady'
        BY <2>2, <2>3, <2>5, <3>1, <3>2 DEF JobReady
      <3>7. BinCurrent'
        BY <2>3, <3>1 DEF BinCurrent
      <3>8. used' = {Asked} => bin.lib = lib[Job]
        <4>1. ASSUME used' = {Asked}, NEW u \in used PROVE u = Asked
          BY <2>3, <4>1
        <4>2. used' = {Asked} =>
                BURROW_LIB(bin.lib.tree, bin.lib.san) = BURROW_LIB(Asked[1], Asked[2])
          BY <3>2, <4>1 DEF BinCurrent
        <4> QED
          BY <2>7, <3>2, <4>2 DEF BinCurrent
      <3>9. OneTree'
        <4>1. CASE job.run
          BY <2>1, <2>2, <2>3, <2>4, <3>1, <3>8, <4>1 DEF OneTree, Job
        <4>2. CASE ~job.run
          BY <2>3, <2>4, <4>2 DEF OneTree
        <4> QED
          BY <4>1, <4>2
      <3> QED
        BY <3>3, <3>4, <3>5, <3>6, <3>7, <3>9 DEF IInv
    <2> QED
      BY <2>8, <2>9
  <1>9. CASE Describe
    <2>1. TypeOK' /\ LibsHonest'
      BY <1>9 DEF Describe, TypeOK, LibsHonest, Ids
    <2>2. JobReady' /\ OneTree'
      BY <1>9 DEF Describe, JobReady, OneTree, Job, Asked
    <2>3. OneDefinition' /\ SanitisedTogether' /\ BinCurrent' /\ HeaderRightForOneTree'
      BY <1>9 DEF Describe, OneDefinition, SanitisedTogether, BinCurrent, HeaderRightForOneTree
    <2> QED
      BY <2>1, <2>2, <2>3 DEF IInv
  <1>10. CASE Run
    <2>1. bin \in [lib : Libs, san : Sans, hdr : Ids]
      BY <1>10 DEF Run, JobReady, TypeOK
    <2>2. TypeOK'
      <3>1. [tree |-> bin.lib.tree, version |-> bin.lib.version] \in Ids
        BY <2>1 DEF Libs, Ids
      <3>2. NoId \in Ids /\ NoJob \in [tree : Trees, san : Sans, run : BOOLEAN]
        BY DEF NoId, NoJob, Ids
      <3>3. report' \in [header : Ids, linked : Ids, single : BOOLEAN]
        BY <1>10, <3>1 DEF Run, TypeOK
      <3> QED
        BY <1>10, <3>2, <3>3 DEF Run, TypeOK
    <2>3. LibsHonest' /\ JobReady' /\ OneTree'
      BY <1>10 DEF Run, LibsHonest, JobReady, OneTree
    <2>4. OneDefinition' /\ SanitisedTogether' /\ BinCurrent'
      BY <1>10 DEF Run, OneDefinition, SanitisedTogether, BinCurrent
    <2>5. Cardinality(used) = 1 => used = {Asked}
      BY <1>10, FS_Singleton DEF Run, JobReady, OneTree
    <2>6. HeaderRightForOneTree'
      BY <1>10, <2>5 DEF Run, OneTree, HeaderRightForOneTree
    <2> QED
      BY <2>2, <2>3, <2>4, <2>6 DEF IInv
  <1>11. CASE UNCHANGED vars
    <2>1. TypeOK'
      BY <1>11 DEF vars, TypeOK
    <2> QED
      BY <1>11, <2>1
         DEF vars, IInv, LibsHonest, JobReady, OneDefinition, SanitisedTogether, BinCurrent,
             OneTree, HeaderRightForOneTree, Job, Asked
  <1> QED
    BY <1>1, <1>2, <1>3, <1>4, <1>5, <1>6, <1>7, <1>8, <1>9, <1>10, <1>11 DEF Next

\* The invariant holds in every reachable state.
LEMMA Invariance == Spec => []IInv
  <1>1. Init => IInv
    <2> SUFFICES ASSUME Init PROVE IInv
      OBVIOUS
    <2>1. TypeOK
      <3>1. NoId \in Ids /\ NoJob \in [tree : Trees, san : Sans, run : BOOLEAN]
        BY BuildAssumption DEF NoId, NoJob, Ids
      <3>2. 0 \in 0..MaxVersion
        BY BuildAssumption
      <3>3. report \in [header : Ids, linked : Ids, single : BOOLEAN]
        BY <3>1 DEF Init
      <3> QED
        BY <3>1, <3>2, <3>3 DEF Init, TypeOK
    <2>2. LibsHonest /\ JobReady /\ OneDefinition /\ SanitisedTogether /\ BinCurrent
      BY DEF Init, LibsHonest, JobReady, OneDefinition, SanitisedTogether, BinCurrent
    <2>3. OneTree /\ HeaderRightForOneTree
      BY FS_EmptySet DEF Init, OneTree, HeaderRightForOneTree
    <2> QED
      BY <2>1, <2>2, <2>3 DEF IInv
  <1> QED
    BY <1>1, Inductive, PTL DEF Spec

\* Files, jobs and headers keep their types; no library is ever taken from a tree
\* that does not exist.
THEOREM TypeCorrect == Spec => []TypeOK
  <1>1. IInv => TypeOK
    BY DEF IInv
  <1> QED
    BY <1>1, Invariance, PTL

\* The headers and the library of a binary are of one version of one tree.
THEOREM NeverTwoDefinitions == Spec => []OneDefinition
  <1>1. IInv => OneDefinition
    BY DEF IInv
  <1> QED
    BY <1>1, Invariance, PTL

\* The harness and the library of a binary are both sanitised or both plain,
\* after makes with any values of SAN in any order.
THEOREM NeverHalfSanitised == Spec => []SanitisedTogether
  <1>1. IInv => SanitisedTogether
    BY DEF IInv
  <1> QED
    BY <1>1, Invariance, PTL

\* Whoever only ever uses one sanitiser has the same flags on both sides.
THEOREM OneSanitiser ==
  ASSUME NEW S, Sans = {Plain, S}
  PROVE  Spec => []SanBothSides
  <1>1. IInv => SanBothSides
    <2> SUFFICES ASSUME IInv, bin # NoFile PROVE bin.san = bin.lib.san
      BY DEF SanBothSides
    <2>1. bin.san \in {Plain, S} /\ bin.lib.san \in {Plain, S}
      BY DEF IInv, TypeOK, Libs
    <2> QED
      BY <2>1 DEF IInv, SanitisedTogether
  <1> QED
    BY <1>1, Invariance, PTL

\* The header of a table names what was measured, as long as the build directory
\* has seen one tree and one SAN since it was made.
THEOREM HeaderRight == Spec => []HeaderRightForOneTree
  <1>1. IInv => HeaderRightForOneTree
    BY DEF IInv
  <1> QED
    BY <1>1, Invariance, PTL
=============================================================================
