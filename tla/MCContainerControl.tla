------------------------- MODULE MCContainerControl -------------------------
(***************************************************************************)
(* Instances of ContainerControl for TLC.                                  *)
(***************************************************************************)
EXTENDS ContainerControl

\* Two guests that share one role: the first is active.
SharedRole == <<1, 1>>
FirstIsActive == <<1>>

\* The first guest has a disk checked by fsck, the second none.
FsckAndNone == <<"fsck", "none">>
NoneNone == <<"none", "none">>

\* Two roles; no guest of the second starts at boot, so that the head of its
\* container list is the dummy element.
TwoRoles == <<1, 2, 1>>
SecondIsDummy == <<1, 0>>
FailoverNoneAb == <<"failover", "none", "ab">>

\* One guest, one role.
OneGuest == <<1>>
OneFsck == <<"fsck">>
OneNone == <<"none">>
=============================================================================
