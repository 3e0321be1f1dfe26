----------------------- MODULE MCWorkspaceInvitations -----------------------
(* Instances of WorkspaceInvitations for TLC.                               *)
EXTENDS WorkspaceInvitations, TLC

CONSTANTS u1, u2, w1, w2, i1, i2, s1, s2

\* One workspace with an owner, and one nobody has founded yet.
OneOwner == w1 :> u1 @@ w2 :> None

\* The owner manages, the invitee signs in, joins, founds and manages.
InvitationCommands ==
    ({u1} \X {"create", "resend", "revoke", "remove"}) \cup
    ({u2} \X {"signIn", "createOwned", "accept", "create", "revoke", "remove"})

\* Invitations are interchangeable, and so are the requests in flight.
Interchangeable == Permutations({i1, i2}) \cup Permutations({s1, s2})
=============================================================================
