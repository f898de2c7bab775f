------------------------------- MODULE Versions -------------------------------
(***************************************************************************)
(* Protocol versions and the version handshake (bolt_errors_versions.cpp,  *)
(* handshake.cpp).  A version is <<major, minor>>, its four bytes are a    *)
(* sequence of numbers.                                                    *)
(***************************************************************************)
EXTENDS Integers, Sequences

Before(v, w) == IF v[1] # w[1] THEN v[1] < w[1] ELSE v[2] < w[2]
AtLeast(v, w) == ~Before(v, w)

\* get_default_proposed_versions().
DefaultProposals == <<<<5, 4>>, <<5, 3>>, <<5, 2>>, <<5, 1>>, <<5, 0>>, <<4, 4>>, <<4, 3>>, <<3, 0>>>>

ToBytes(v) == <<0, 0, v[1], v[2]>>
NoVersionBytes == <<0, 0, 0, 0>>

\* HANDSHAKE_NUM_PROPOSED_VERSIONS.
Slots == 4

\* build_handshake_request: four slots, whatever the length of the list.
Request(proposed) == [i \in 1..Slots |-> IF i <= Len(proposed) THEN ToBytes(proposed[i]) ELSE NoVersionBytes]

\* parse_handshake_response.
\* Mutant: four zeros are a version.
ParseErrorAcceptsZero(bytes) ==
  IF bytes[1] # 0 \/ bytes[2] # 0 THEN "UNSUPPORTED_PROTOCOL_VERSION" ELSE "SUCCESS"

ParseError(bytes) ==
  IF bytes[1] # 0 \/ bytes[2] # 0 THEN "UNSUPPORTED_PROTOCOL_VERSION"
  ELSE IF bytes = NoVersionBytes THEN "HANDSHAKE_NO_COMMON_VERSION" ELSE "SUCCESS"
Parsed(bytes) == <<bytes[3], bytes[4]>>
=============================================================================
