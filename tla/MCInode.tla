------------------------------ MODULE MCInode -------------------------------
(* Instance of Inode.                                                       *)
EXTENDS Inode

TwoNames  == {"a", "b"}
\* /a, /b and /a/b.
ThreePaths == {<<"a">>, <<"b">>, <<"a", "b">>}
AllCalls  == PathCalls
=============================================================================
