----------------------- MODULE MCSingleRecordAuthorizers -----------------------
(***************************************************************************)
(* The single-record authorizers with the shared model values: no path   *)
(* list, no static rule, no rewrite source; with and without a bound      *)
(* resource.                                                               *)
(***************************************************************************)
EXTENDS SingleRecordAuthorizers, MCAuthz

SingleRecordConfigs ==
    ConfigsOf({<<<<>>, <<>>>>}, {Nil},
              {Nil, [namespace |-> "ns1", resource |-> "pods"],
               [namespace |-> "ns2", resource |-> "pods"]}, {Nil})

====
