-------------------------- MODULE MCAddressService --------------------------
(***************************************************************************)
(* The address service on small instances: DHCP, two static documents and  *)
(* one that is refused.                                                    *)
(***************************************************************************)
EXTENDS AddressService

MCDocument == {"dhcp", "static1", "static2", "refused"}

\* Files the daemon can read: the image's, its own, and a person's.
Readable == {Image, Ours("static1"), ByHand("static2")}

\* A person's file this daemon cannot make sense of.
Foreign == {ByHand(None)}

\* A file that still carries the marker and that a person broke.
Broken == {Ours(None)}

MCFirst == Readable \cup Foreign
MCEdits == {ByHand("static1"), ByHand(None), Ours("static2")}
=============================================================================
