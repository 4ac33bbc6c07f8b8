----------------------------- MODULE PosixLocks -----------------------------
(***************************************************************************)
(* What the server's advisory locks promise, byte by byte: held tells for  *)
(* every byte of every file, and every owner of every connection, which    *)
(* lock that owner has there.  A grant needs every byte of its range free  *)
(* of incompatible locks of others and changes exactly that range of its   *)
(* own owner; a release takes away locks of one owner, or of one           *)
(* connection when the connection closes a handle or ends.                 *)
(***************************************************************************)
EXTENDS Naturals

CONSTANTS Sessions, Owners, Files, MaxOffset

VARIABLE held

Offsets == 0 .. MaxOffset
Cells   == Files \X Offsets \X Sessions \X Owners

Init == held = [cell \in Cells |-> "None"]

Free(file, range, session, owner, kind) ==
    LET now == held
    IN \A x \in range, s \in Sessions, o \in Owners :
         <<s, o>> # <<session, owner>> =>
            \/ now[<<file, x, s, o>>] = "None"
            \/ now[<<file, x, s, o>>] = "Read" /\ kind = "Read"

Put(cells, kind) ==
    LET now == held
    IN held' = [cell \in Cells |-> IF cell \in cells THEN kind ELSE now[cell]]

Grant(session, owner, file, range, kind) ==
    /\ Free(file, range, session, owner, kind)
    /\ Put({file} \X range \X {session} \X {owner}, kind)

Unlock(session, owner, file, range) ==
    Put({file} \X range \X {session} \X {owner}, "None")

\* FlushFile with a lock owner: everything that owner has on the file.
ReleaseOwner(session, owner, file) ==
    Put({file} \X Offsets \X {session} \X {owner}, "None")

\* CloseFile: everything the connection has on the file, whoever owns it.
ReleaseFile(session, file) ==
    Put({file} \X Offsets \X {session} \X Owners, "None")

\* The end of a connection.
ReleaseSession(session) ==
    Put(Files \X Offsets \X {session} \X Owners, "None")

Next ==
    \E s \in Sessions :
        \/ ReleaseSession(s)
        \/ \E f \in Files :
              \/ ReleaseFile(s, f)
              \/ \E o \in Owners :
                    \/ ReleaseOwner(s, o, f)
                    \/ \E a, b \in Offsets :
                          \/ Unlock(s, o, f, a .. b)
                          \/ \E k \in {"Read", "Write"} :
                                Grant(s, o, f, a .. b, k)

Spec == Init /\ [][Next]_held
=============================================================================
