-------------------------- MODULE MCInplaceConvert --------------------------
(* InplaceConvert on a small instance. *)
EXTENDS InplaceConvert, TLC

CONSTANTS loose, n, inside, junk, b1, b2, x1, x2

\* The archive holds the nested n, and in the directory n is expanded to a file
\* and the nested b1.  In n there is a b2 of the same name; in each of them a file
\* of the same name.
AllMembers == {loose, n, inside, junk, b1, b2, x1, x2}
InsideOf == n :> {inside, junk, b2} @@ b1 :> {x1} @@ b2 :> {x2}
Ways == loose :> {loose} @@ n :> {n} @@ inside :> {inside, n}
        @@ junk :> {junk, n} @@ b1 :> {b1} @@ x1 :> {x1, b1}
        @@ b2 :> {b2, n} @@ x2 :> {x2, b2, n}
NameOf == loose :> "n/loose" @@ n :> "n.7z" @@ inside :> "n/inside"
          @@ junk :> "n/junk" @@ b1 :> "n/b.7z" @@ b2 :> "n/b.7z"
          @@ x1 :> "n/b/x" @@ x2 :> "n/b/x"
NamesOf == {NameOf[m] : m \in AllMembers}
UnderOf == n :> (AllMembers \ {n}) @@ b1 :> {x1, x2} @@ b2 :> {x1, x2}
=============================================================================
