------------------------------ MODULE OrderedDict ------------------------------
(***************************************************************************)
(* Python's dict, as the parsers of voip/sdp.py and voip/sip.py use it: a  *)
(* sequence of <<key, value>> pairs.  A key that is assigned again keeps   *)
(* its place and takes the new value.                                      *)
(***************************************************************************)
EXTENDS Naturals, Sequences

Keys(dict) == {dict[i][1] : i \in DOMAIN dict}

Lookup(dict, key) == dict[CHOOSE i \in DOMAIN dict : dict[i][1] = key][2]

\* Wrong: the first value stays (setdefault).
PutFirst(dict, key, value) ==
  IF key \in Keys(dict) THEN dict ELSE Append(dict, <<key, value>>)

\* dict[key] = value
Put(dict, key, value) ==
  IF key \in Keys(dict)
  THEN [i \in DOMAIN dict |-> IF dict[i][1] = key THEN <<key, value>> ELSE dict[i]]
  ELSE Append(dict, <<key, value>>)

===============================================================================
