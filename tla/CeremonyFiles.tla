--------------------------- MODULE CeremonyFiles ---------------------------
(***************************************************************************)
(* The ceremony command line (bin/ceremony.rs): one directory of files,    *)
(* which init writes one after the other and never removes, and the        *)
(* commands that read them.  challenge and nonce are as in Threshold: the  *)
(* message is fixed, and a nonce is a function of the share that it is     *)
(* derived from.                                                           *)
(***************************************************************************)
EXTENDS Threshold, TLC

\* group.json, when it is there, and member-<i>.json for the indices i it has.
NoFiles == [group |-> {}, member |-> <<>>]

ShareFile(coefficients, i) == [index |-> i, share |-> Share(coefficients, i)]

\* init, after n of its files: the group first, then the members in order; what
\* was there under another name stays.  It is cut off when n is short of all.
Written(dir, coefficients, members, n) ==
  IF n = 0 \/ ~MayGenerate(Len(coefficients), members) THEN dir
  ELSE [group |-> {Generate(coefficients, members)},
        member |-> [i \in 1..(n - 1) |-> ShareFile(coefficients, i)] @@ dir.member]

\* nonce_point.
NoncePoint(file, nonce) == [index |-> file.index, point |-> nonce[file.share]]

\* sign, over share files in the order they are given: the signature, if any.
Sign(group, files, nonce, challenge) ==
  LET points == [k \in DOMAIN files |-> NoncePoint(files[k], nonce)]
      partials == [k \in DOMAIN files |->
                     SignPartial(group, files[k].index, files[k].share, points[k].point,
                                 points, challenge)]
  IN {Combined(p) : p \in {p \in {partials} :
        /\ MayCombine(group, p)
        /\ Culprits(group, p, challenge) = {}}}

=============================================================================
