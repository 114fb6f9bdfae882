----------------------------- MODULE InvokeTasks -----------------------------
(***************************************************************************)
(* The tasks of the tasks/ package: which of them exist, given what is     *)
(* installed, and in which order invoke's executor runs them.              *)
(*                                                                         *)
(* The namespace is set up once per process (tasks._TASKS, and the feature *)
(* flags are cached), so that all of this depends on the programs found at *)
(* that time only.                                                         *)
(***************************************************************************)
EXTENDS SequencesExt

CONSTANT
  Configured         (* the files in the checkout and the settings that    *)
                     (* features ask for: pylintrc, tests, package ...     *)

-----------------------------------------------------------------------------
(* _features.py: the program a feature looks for in PATH and what else has *)
(* to be there.                                                            *)
Features ==
  [black          |-> [needs |-> {"black"},        with |-> {}],
   pylint         |-> [needs |-> {"pylint"},       with |-> {"package", "pylintrc"}],
   flake8         |-> [needs |-> {"flake8"},       with |-> {"package", ".flake8"}],
   python_package |-> [needs |-> {},               with |-> {"package"}],
   python_tests   |-> [needs |-> {},               with |-> {"package", "tests"}],
   tox_tests      |-> [needs |-> {"tox"},          with |-> {"package", "tests"}],
   sphinx         |-> [needs |-> {"sphinx-build"}, with |-> {}],
   terraform      |-> [needs |-> {"terraform"},    with |-> {"terraform"}],
   sam            |-> [needs |-> {"sam"},          with |-> {"cloudformation"}]]

(* The programs that are found in PATH, of those that are asked for. *)
FromPath(executables, programs) == executables \intersect programs

(* A flag is found out once and kept while the process lasts. *)
Enabled(feature, programs) ==
  /\ FromPath(Features[feature].needs, programs) = Features[feature].needs
  /\ Features[feature].with \subseteq Configured

(* The tasks under tasks.optional: check.py, format.py, doc/tasks.py, ...  *)
Checks ==
  {"check.lint", "check.flake8", "check.black", "check.tf_fmt",
   "check.tf_validate", "check.sam_validate"}

Formats == {"format.black", "format.tf"}

Documents == {"doc.userdoc", "doc.doc", "doc.website"}

(* ... compile.py and test.py; each with its feature flag.                 *)
Optional ==
  [t \in {"compile.compile", "test.local", "test.tox"}
            \union Checks \union Formats \union Documents |->
     CASE t = "compile.compile" -> "python_package"
       [] t = "test.local" -> "python_tests"
       [] t = "test.tox" -> "tox_tests"
       [] t = "check.lint" -> "pylint"
       [] t = "check.flake8" -> "flake8"
       [] t \in {"check.black", "format.black"} -> "black"
       [] t \in {"check.tf_fmt", "check.tf_validate", "format.tf"} -> "terraform"
       [] t = "check.sam_validate" -> "sam"
       [] t \in Documents -> "sphinx"]

(* Those with a collection instead, and what may be collected.             *)
Collections ==
  [t \in {"check.tf", "check.sam", "check.all", "format.all"} |->
     CASE t = "check.tf" -> <<"check.tf_fmt", "check.tf_validate">>
       [] t = "check.sam" -> <<"check.sam_validate">>
       [] t = "check.all" -> <<"check.lint", "check.flake8", "check.black",
                               "check.tf_fmt", "check.tf_validate",
                               "check.sam_validate">>
       [] t = "format.all" -> <<"format.black", "format.tf">>]

(* Those that are always there; the tasks of tasks/deps are left out.      *)
Always ==
  {"build.source", "build.wheels", "build.dist", "build.version",
   "build.release", "upload.source", "upload.wheels", "clean.py",
   "clean.dist", "clean.clean", "clean.cache", "clean.so"}

Tasks == Always \union DOMAIN Optional \union DOMAIN Collections

(* Variant: a task is collected before its feature is looked at. *)
CollectedAlways(task, programs) == Collections[task]

(* The name of an enabled task goes to its collection. *)
Collected(task, programs) ==
  LET may == Collections[task]
  IN  FlattenSeq([i \in DOMAIN may |-> IF Enabled(Optional[may[i]], programs)
                                      THEN <<may[i]>> ELSE <<>>])

(* A collecting task is kept if it has collected something. *)
Registered(programs) ==
  Always
    \union {t \in DOMAIN Optional : Enabled(Optional[t], programs)}
    \union {t \in DOMAIN Collections : Collected(t, programs) # <<>>}

-----------------------------------------------------------------------------
(* Variant: the archives do not depend on the documentation. *)
PreForgotten ==
  [t \in Tasks |->
     CASE t = "doc.doc" -> <<"doc.userdoc">>
       [] OTHER -> <<>>]

(* The tasks that a task names to be run before it. *)
Pre ==
  [t \in Tasks |->
     CASE t \in {"build.source", "build.dist", "build.release"} -> <<"doc.doc">>
       [] t = "doc.doc" -> <<"doc.userdoc">>
       [] t \in {"clean.clean", "clean.dist", "check.lint", "check.flake8",
                 "check.black"} -> <<"clean.py">>
       [] OTHER -> <<>>]

(* setup_tasks replaces the names by tasks; a task that is not there is a  *)
(* KeyError, and then there are no tasks at all.                           *)
SetupFails(programs) ==
  \E t \in Registered(programs) : ~(Range(Pre[t]) \subseteq Registered(programs))

(* What the executor makes of a task: those before it, theirs first, each  *)
(* one only once.  execute() is a new executor that runs them again.       *)
Once(tasks) ==
  FlattenSeq([i \in DOMAIN tasks |-> IF \E j \in 1 .. i - 1 : tasks[j] = tasks[i]
                                    THEN <<>> ELSE <<tasks[i]>>])

Before(task) ==
  FlattenSeq([i \in DOMAIN Pre[task] |-> Append(Pre[Pre[task][i]], Pre[task][i])])

Session(tasks) ==
  Once(FlattenSeq([i \in DOMAIN tasks |-> Append(Before(tasks[i]), tasks[i])]))
=============================================================================
