-------------------------- MODULE MCPortalServices --------------------------
(* A small instance of PortalServices for TLC. *)
EXTENDS PortalServices, TLC

\* The password changes, or the group goes: "new" and "guests" are not known to the built-in directory.
MCMock == [u \in {"jdoe"} |-> [password |-> "old", groups |-> {"analytics"}]]
MCLiveEntry ==
    {[password |-> "new", groups |-> {"analytics"}], [password |-> "old", groups |-> {"guests"}]}
=============================================================================
