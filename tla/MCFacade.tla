------------------------------- MODULE MCFacade -------------------------------
(* Inputs, calls and settings for Facade. *)
EXTENDS Facade

Image(format, parsed, machine, managed, native, code) ==
    [format |-> format, parsed |-> parsed, machine |-> machine,
     managed |-> managed, native |-> native, code |-> code]

Pe       == Image("pe", TRUE, "intel", FALSE, FALSE, "intel")
Broken   == Image("pe", FALSE, "aarch64", FALSE, FALSE, "")
Managed  == Image("pe", TRUE, "aarch64", TRUE, TRUE, "aarch64")
MipsElf  == Image("elf", TRUE, "mips", FALSE, FALSE, "mips")
TornElf  == Image("elf", FALSE, "arm", FALSE, FALSE, "arm")
Dex      == Image("dex", TRUE, "", FALSE, FALSE, "")
ArmDump  == Image("raw", FALSE, "", FALSE, FALSE, "arm")
MipsDump == Image("raw", FALSE, "", FALSE, FALSE, "mips")

AllImages == {Pe, Broken, Managed, MipsElf, TornElf, Dex, ArmDump, MipsDump}

OneCall(entry, image, asked, pdb) ==
    [entry |-> entry, image |-> image, asked |-> asked, pdb |-> pdb]

AllCalls ==
    {OneCall("file", image, "", FALSE) : image \in {Pe, Managed, MipsElf, TornElf, Dex}}
    \cup {OneCall("buffer", image, "", FALSE) : image \in {Broken, TornElf, ArmDump, MipsDump}}
    \cup {OneCall("file", Pe, "", TRUE), OneCall("unmapped", Pe, "", FALSE),
           OneCall("buffer", MipsDump, "intel", FALSE),
           OneCall("buffer", Pe, "mips", FALSE)}

SetUp(name, strings, store, budget, routing, collects) ==
    [backend |-> name, strings |-> strings, store |-> store,
     budget |-> budget, routing |-> routing, gc |-> collects]

AllSettings ==
    {SetUp("", TRUE, FALSE, 1, TRUE, TRUE), SetUp("", FALSE, TRUE, 0, FALSE, FALSE),
     SetUp("x86", FALSE, FALSE, 1, TRUE, TRUE), SetUp("arm", TRUE, TRUE, 0, TRUE, TRUE),
     SetUp("dalvik", FALSE, FALSE, 1, TRUE, FALSE), SetUp("IDA", TRUE, FALSE, 0, TRUE, TRUE)}
=============================================================================
