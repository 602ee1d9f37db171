---------------------------- MODULE MCI2CMaster ----------------------------
(***************************************************************************)
(* I2CMaster on slaves with two registers.                                 *)
(***************************************************************************)
EXTENDS I2CMaster

\* Two registers with different contents, so that the wrong register shows; in
\* either order, so that the wrong slave shows.
MCContents == {f \in [Bytes -> Bytes] : \A b, c \in Bytes : b # c => f[b] # f[c]}

=============================================================================
