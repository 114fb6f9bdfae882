---------------------------- MODULE MCCDBRelease -----------------------------
(* Model values for CDBRelease: developers who have nearly everything,     *)
(* nothing at all, or no sphinx-build; wheels for three machines, both      *)
(* libcs and two interpreters.  One image lacks an interpreter that is      *)
(* asked for and has another twice, one has an interpreter too many.  The   *)
(* wheels of a container may bear other tags when it runs again, in an      *)
(* image that has been renewed.                                             *)
EXTENDS CDBRelease

MCConfigured == {"package", "pylintrc", ".flake8", "tests"}
All == {"git", "gpg", "fakeroot", "gzip", "bzip2", "xz", "sphinx-build",
        "pylint", "flake8", "black", "tox"}
MCInstallations ==
  {All \ {"xz", "black"}, {}, {"black", "pylint", "terraform"}}
Built(arch, libc, image, python) ==
  [arch |-> arch, libc |-> libc, image |-> image, python |-> python]
MCWheelSpecs ==
  {Built("x86_64", "manylinux", "1", "27"), Built("x86_64", "manylinux", "1", "36"),
   Built("i686", "manylinux", "1", "36"), Built("aarch64", "musllinux", "1_1", "36")}
Has(spec, abi) ==
  [arch |-> spec.arch, libc |-> spec.libc, image |-> spec.image, python |-> spec.python,
   abi |-> abi]
MCInterpreters ==
  {Has(Built("x86_64", "manylinux", "1", "27"), abi) : abi \in {"m", "mu"}}
   \union {Has(Built("i686", "manylinux", "1", python), "m") : python \in {"36", "37"}}
   \union {Has(Built("aarch64", "musllinux", "1_1", "36"), "m")}
MCTagSets == {{<<2, 17>>, <<2, 5>>, <<1, 2014>>}, {<<2, 5>>, <<1, 1>>}}
MCMenu == {"build.version", "build.release", "build.dist", "build.source",
           "build.wheels", "upload.source", "upload.wheels", "check.all",
           "clean.clean"}
=============================================================================
