------------------------------- MODULE Build -------------------------------
(***************************************************************************)
(* Which burrow is in the binary: the Makefile, tools/fetch-burrow.sh and  *)
(* the part of tools/run.sh that builds, names the burrow commit in the    *)
(* header and runs build/bench.                                            *)
(*                                                                         *)
(* make knows files by their modification times and nothing else: a        *)
(* prerequisite is newer than a target when it was written after the       *)
(* target was.  So the state keeps, for the binary and for every library,  *)
(* what was written since.  A version of a tree stands for its commit; the *)
(* library and the headers of a tree are what that version holds.  Nobody  *)
(* edits a tree while make reads it.                                       *)
(*                                                                         *)
(* SAN is one of several sets of flags or none, and all that are not none  *)
(* share one directory, so a library remembers which flags it was built    *)
(* with.  A version is all of a tree: that new headers always come with    *)
(* new sources is why a library is never newer than the headers it needs.  *)
(***************************************************************************)
EXTENDS Naturals, FiniteSets

CONSTANTS Trees,        \* the directories BURROW_DIR may name
          Default,      \* $(BUILD)/burrow, the one that is cloned and updated
          Absent,       \* directories that do not exist
          Sans,         \* the values of SAN
          Plain,        \* the empty one
          MaxVersion    \* bound: the versions a tree and the remote go through

ASSUME BuildAssumption ==
  /\ Default \in Trees /\ Absent \subseteq Trees \ {Default}
  /\ Plain \in Sans
  /\ MaxVersion \in Nat

VARIABLES version,   \* per tree
          cloned,    \* is there a checkout at the default place
          remote,    \* the version of burrow's main branch
          lib,       \* per tree, plain and sanitised: libburrow.a
          stale,     \* the libraries with a source written since they were
          bin,       \* build/bench, with what its dependency file names
          newer,     \* the prerequisites of the binary written since it was
          pc, job,   \* the running make or run.sh
          header,    \* the burrow line of the header
          report,    \* the last table: what its header says and what was run
          used       \* the trees and SANs built since the last make clean

built == <<lib, stale, bin, newer>>
vars  == <<version, cloned, remote, built, pc, job, header, report, used>>

Targets == Trees \X BOOLEAN       \* a library: its tree, and is it sanitised
NoFile  == [none |-> TRUE]
NoJob   == [tree |-> Default, san |-> Plain, run |-> FALSE]
NoId    == [tree |-> Default, version |-> 0]

\* The prerequisites of the binary: the harness with the benchmarks, the
\* libraries, and the headers of the trees.
Harness    == <<"harness">>
LibFile(x) == <<"lib", x>>
Headers(t) == <<"headers", t>>

Init ==
  /\ version = [t \in Trees |-> 0]
  /\ cloned = FALSE
  /\ remote = 0
  /\ lib = [x \in Targets |-> NoFile]
  /\ stale = {}
  /\ bin = NoFile
  /\ newer = {}
  /\ pc = "idle"
  /\ job = NoJob
  /\ header = NoId
  /\ report = [header |-> NoId, linked |-> NoId, single |-> TRUE]
  /\ used = {}

Libs == [tree : Trees \ Absent, version : 0..MaxVersion, san : Sans]
Ids  == [tree : Trees, version : 0..MaxVersion]

TypeOK ==
  /\ version \in [Trees -> 0..MaxVersion]
  /\ cloned \in BOOLEAN
  /\ remote \in 0..MaxVersion
  /\ lib \in [Targets -> {NoFile} \cup Libs]
  /\ stale \subseteq Targets
  /\ bin \in {NoFile} \cup [lib : Libs, san : Sans, hdr : Ids]
  /\ newer \subseteq {Harness} \cup {LibFile(x) : x \in Targets}
                       \cup {Headers(t) : t \in Trees}
  /\ pc \in {"idle", "fetch", "lib", "link", "describe", "run"}
  /\ job \in [tree : Trees, san : Sans, run : BOOLEAN]
  /\ header \in Ids
  /\ report \in [header : Ids, linked : Ids, single : BOOLEAN]
  /\ used \subseteq Trees \X Sans
-----------------------------------------------------------------------------
\* New sources in tree t, with or without a header among them.
Written(t, v, headers) ==
  /\ version' = [version EXCEPT ![t] = v]
  /\ stale' = stale \cup ({t} \X BOOLEAN)
  /\ newer' = IF headers THEN newer \cup {Headers(t)} ELSE newer

\* Somebody works on the tree BURROW_DIR points at.  The binary is not affected
\* while it runs.
Edit(t, headers) ==
  /\ pc \in {"idle", "run"}
  /\ t \notin Absent \cup {Default}
  /\ version[t] < MaxVersion
  /\ Written(t, version[t] + 1, headers)
  /\ UNCHANGED <<cloned, remote, lib, bin, pc, job, header, report, used>>

\* Somebody edits src/ or bench/.
EditHarness ==
  /\ pc = "idle"
  /\ newer' = newer \cup {Harness}
  /\ UNCHANGED <<version, cloned, remote, lib, stale, bin, pc, job, header, report, used>>

Push ==
  /\ remote < MaxVersion
  /\ remote' = remote + 1
  /\ UNCHANGED <<version, cloned, built, pc, job, header, report, used>>

\* rm -rf $(BUILD), which holds the binary and the default checkout.
Clean ==
  /\ pc = "idle"
  /\ bin' = NoFile
  /\ cloned' = FALSE
  /\ lib' = [x \in Targets |-> IF x[1] = Default THEN NoFile ELSE lib[x]]
  /\ used' = {}
  /\ UNCHANGED <<version, remote, stale, newer, pc, job, header, report>>
-----------------------------------------------------------------------------
\* make BURROW_DIR=t SAN=..., on its own or as the make of run.sh.
Make(t, san, run) ==
  /\ pc = "idle"
  /\ job' = [tree |-> t, san |-> san, run |-> run]
  /\ pc' = "fetch"
  /\ UNCHANGED <<version, cloned, remote, built, header, report, used>>

\* Mutant: nobody looks whether the tree is there.
FetchUnchecked ==
  /\ pc = "fetch"
  /\ IF job.tree # Default \/ (cloned /\ version[Default] = remote)
     THEN UNCHANGED <<version, cloned, stale, newer>>
     ELSE /\ cloned' = TRUE
          /\ Written(Default, remote, TRUE)
  /\ pc' = "lib"
  /\ UNCHANGED <<remote, lib, bin, job, header, report, used>>

\* fetch-burrow.sh: a tree somebody pointed at is left alone, and must exist.
\* The default one is cloned when it is missing and then moved to the remote's
\* version, which writes the files that differ.
Fetch ==
  /\ pc = "fetch"
  /\ IF job.tree # Default \/ (cloned /\ version[Default] = remote)
     THEN UNCHANGED <<version, cloned, stale, newer>>
     ELSE /\ cloned' = TRUE
          /\ Written(Default, remote, TRUE)
  /\ pc' = IF job.tree \in Absent THEN "idle" ELSE "lib"
  /\ job' = IF job.tree \in Absent THEN NoJob ELSE job
  /\ UNCHANGED <<remote, lib, bin, header, report, used>>

\* Mutant: sanitised and plain objects share one directory.
SharedLib(t, san) == <<t, FALSE>>

\* $(BURROW_LIB): a directory of the benchmarks' own inside the tree, and
\* another one for a sanitised library, whatever the sanitiser.
BURROW_LIB(t, san) == <<t, san # Plain>>

\* $(BURROW_LIB): burrow.  The phony prerequisite makes the rule run always; the
\* make inside the tree decides by its own times: other flags than those of the
\* library that is there are no reason to build it again.
Lib ==
  LET x == BURROW_LIB(job.tree, job.san) IN
  /\ pc = "lib"
  /\ IF lib[x] = NoFile \/ x \in stale
     THEN /\ lib' = [lib EXCEPT ![x] = [tree |-> job.tree, version |-> version[job.tree],
                                        san |-> job.san]]
          /\ stale' = stale \ {x}
          /\ newer' = newer \cup {LibFile(x)}
     ELSE UNCHANGED <<lib, stale, newer>>
  /\ pc' = "link"
  /\ UNCHANGED <<version, cloned, remote, bin, job, header, report, used>>

\* Mutant: the library is not a prerequisite of the binary.
OutOfDateWithoutLib(x) ==
  bin = NoFile \/ newer \cap {Harness, Headers(bin.hdr.tree)} # {}

\* When make runs the rule of $(BIN): there is none, or a prerequisite is newer,
\* be it the harness, the library or a header in the dependency file of the last
\* compile.
OutOfDate(x) ==
  bin = NoFile \/ newer \cap {Harness, LibFile(x), Headers(bin.hdr.tree)} # {}

\* Mutant: the library that is linked is the one that was built first.
LinkAnyLib ==
  LET x == BURROW_LIB(job.tree, job.san) IN
  /\ pc = "link"
  /\ IF OutOfDate(x)
     THEN /\ bin' = [lib |-> IF bin = NoFile THEN lib[x] ELSE bin.lib, san |-> job.san,
                     hdr |-> [tree |-> job.tree, version |-> version[job.tree]]]
          /\ newer' = {}
     ELSE UNCHANGED <<bin, newer>>
  /\ used' = used \cup {<<job.tree, job.san>>}
  /\ pc' = IF job.run THEN "describe" ELSE "idle"
  /\ job' = IF job.run THEN job ELSE NoJob
  /\ UNCHANGED <<version, cloned, remote, lib, stale, header, report>>

\* $(BIN): one command compiles against the headers of the tree and links its
\* library.
Link ==
  LET x == BURROW_LIB(job.tree, job.san) IN
  /\ pc = "link"
  /\ IF OutOfDate(x)
     THEN /\ bin' = [lib |-> lib[x], san |-> job.san,
                     hdr |-> [tree |-> job.tree, version |-> version[job.tree]]]
          /\ newer' = {}
     ELSE UNCHANGED <<bin, newer>>
  /\ used' = used \cup {<<job.tree, job.san>>}
  /\ pc' = IF job.run THEN "describe" ELSE "idle"
  /\ job' = IF job.run THEN job ELSE NoJob
  /\ UNCHANGED <<version, cloned, remote, lib, stale, header, report>>

\* run.sh behind its make: git describe in BURROW_DIR.
Describe ==
  /\ pc = "describe"
  /\ header' = [tree |-> job.tree, version |-> version[job.tree]]
  /\ pc' = "run"
  /\ UNCHANGED <<version, cloned, remote, built, job, report, used>>

\* run.sh runs build/bench and prints the header over its table.
Run ==
  /\ pc = "run"
  /\ report' = [header |-> header,
                linked |-> [tree |-> bin.lib.tree, version |-> bin.lib.version],
                single |-> Cardinality(used) = 1]
  /\ pc' = "idle"
  /\ job' = NoJob /\ header' = NoId
  /\ UNCHANGED <<version, cloned, remote, built, used>>

Next ==
  \/ \E t \in Trees, h \in BOOLEAN : Edit(t, h)
  \/ EditHarness \/ Push \/ Clean
  \/ \E t \in Trees, san \in Sans, run \in BOOLEAN : Make(t, san, run)
  \/ Fetch \/ Lib \/ Link \/ Describe \/ Run

Spec == Init /\ [][Next]_vars
-----------------------------------------------------------------------------
\* "Two definitions of the same struct in one binary" (Makefile:64): whatever was
\* built before, the headers a binary was compiled with and the library it was
\* linked with come from the same version of the same tree.
OneDefinition ==
  bin # NoFile => bin.hdr = [tree |-> bin.lib.tree, version |-> bin.lib.version]

\* "A sanitised benchmark linked against an unsanitised burrow is nothing but
\* false positives" (Makefile:46): the two sides of a binary are both sanitised
\* or both plain, whatever the values of SAN before.
SanitisedTogether == bin # NoFile => (bin.san = Plain <=> bin.lib.san = Plain)

\* "Set SAN and both sides get rebuilt with it" (Makefile:44), for one sanitiser:
\* the two sides have the same flags.  With two it does not hold: the flags of
\* the library are those of the make that built it, and the next sanitiser finds
\* it in place.
SanBothSides == bin # NoFile => bin.san = bin.lib.san

\* As long as a build directory has only seen one tree and one SAN, the commit in
\* the header of a table is the one that was measured, however the tree, the
\* harness and the remote moved in between.
HeaderRightForOneTree == report.single => report.header = report.linked

\* "The library in the binary is the library you think it is" (README.md:103):
\* the commit in the header of a table is the one that was measured.
HeaderNamesLibrary == report.header = report.linked
-----------------------------------------------------------------------------
Job   == BURROW_LIB(job.tree, job.san)     \* the library of the running make
Asked == <<job.tree, job.san>>             \* and what it was asked for

\* The parts of the inductive invariant: a library is what its place says, and
\* is as new as its tree unless make is going to notice,
LibsHonest ==
  \A x \in Targets : lib[x] # NoFile =>
    /\ lib[x].tree = x[1] /\ (lib[x].san # Plain <=> x[2])
    /\ x \notin stale => lib[x].version = version[x[1]]

\* what the steps of a make have done before the one at hand,
JobReady ==
  /\ pc \in {"lib", "link", "describe", "run"} => job.tree \notin Absent
  /\ pc = "link" => lib[Job] # NoFile /\ Job \notin stale
  /\ pc \in {"describe", "run"} => bin # NoFile /\ Asked \in used

\* a binary is linked with the library at the place it was taken from, unless
\* make is going to notice, and that place was used,
BinCurrent ==
  bin # NoFile =>
    LET x == BURROW_LIB(bin.lib.tree, bin.lib.san)
    IN  /\ \E u \in used : x = BURROW_LIB(u[1], u[2])
        /\ LibFile(x) \notin newer => lib[x] = bin.lib

\* and what a build directory with one tree and one SAN in it is going to print.
OneTree ==
  /\ IsFiniteSet(used)
  /\ used = {Asked} =>
       /\ pc = "describe" => bin.lib.tree = job.tree /\ bin.lib.version = version[job.tree]
       /\ pc = "run" => header = [tree |-> bin.lib.tree, version |-> bin.lib.version]

IInv ==
  /\ TypeOK /\ LibsHonest /\ JobReady /\ OneDefinition /\ SanitisedTogether
  /\ BinCurrent /\ OneTree /\ HeaderRightForOneTree
=============================================================================
