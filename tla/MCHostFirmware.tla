---------------------------- MODULE MCHostFirmware ---------------------------
(***************************************************************************)
(* Hosts for model checking HostFirmware.                                  *)
(***************************************************************************)
EXTENDS HostFirmware, TLC

CONSTANTS bmc, bios, uefi

\* One component for every way to install.
AllThree == <<bmc, bios, uefi>>
OneOfEach == bmc :> "upload" @@ bios :> "scout" @@ uefi :> "script"
OneFileEach == [c \in {bmc, bios, uefi} |-> 1]
NoReset == [c \in {bmc, bios, uefi} |-> FALSE]
NoDrain == [c \in {bmc, bios, uefi} |-> 0]

\* Two components with uploads, one with a script.
TwoUploads == bmc :> "upload" @@ bios :> "upload" @@ uefi :> "script"
TwoBiosFiles == bmc :> 1 @@ bios :> 2 @@ uefi :> 1
ResetBmc == bmc :> TRUE @@ bios :> FALSE @@ uefi :> FALSE
DrainBios == bmc :> 0 @@ bios :> 1 @@ uefi :> 0

\* What a report may list: everything, nothing known, or also only the first.
KnownOrNot == {Component, NoInfo}
AnyReport == {Component, {bmc}, NoInfo}
==============================================================================
