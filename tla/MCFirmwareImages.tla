-------------------------- MODULE MCFirmwareImages --------------------------
(* What two requests ask for: to be parked, or to be installed from the card, *)
(* from an upload, from a source or by force, with and without a checksum.    *)
EXTENDS FirmwareImages

Ask(park, name, sha256, force, from) ==
    [park |-> park, name |-> name, sha256 |-> sha256, force |-> force, from |-> from]

MCAsked == {Ask(TRUE, "x", TRUE, FALSE, "upload"), Ask(FALSE, "x", FALSE, FALSE, "card"),
            Ask(FALSE, "y", TRUE, FALSE, "upload"), Ask(TRUE, "z", FALSE, FALSE, "upload"),
            Ask(FALSE, "z", TRUE, TRUE, "upload"), Ask(FALSE, "x", TRUE, FALSE, "source")}
\* The same image, uploaded twice to be parked.
ParkAsked == {Ask(TRUE, "x", TRUE, FALSE, "upload")}
=============================================================================
