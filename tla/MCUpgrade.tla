----------------------------- MODULE MCUpgrade -----------------------------
(* Project q has a flat legacy container next to a managed one of the very   *)
(* tag the flat one maps to, and one of the new model; project q-ag-xfce a   *)
(* flat container whose backup image has the name of the managed one's, and  *)
(* a managed one whose service is no tag.                                    *)
EXTENDS Upgrade

q      == <<"q">>
qAg    == <<"q", "ag", "xfce">>
kasm   == <<"kasm">>
vnc    == <<"vnc">>
agKasm == <<"ag", "xfce", "kasm">>
agVnc  == <<"ag", "xfce", "vnc">>

L(p, s, m, h) == [project |-> p, service |-> s, managed |-> m, home_volume |-> h]

MCContainer == [c \in Cids |->
  CASE c = "c1" -> L(qAg, kasm,      FALSE, FALSE)
    [] c = "c2" -> L(q,   kasm,      FALSE, FALSE)
    [] c = "c3" -> L(q,   agKasm,    TRUE,  FALSE)
    [] c = "c4" -> L(qAg, <<"web">>, TRUE,  FALSE)
    [] c = "c5" -> L(q,   agVnc,     TRUE,  TRUE)]

MCProjects   == {q, qAg}
MCServices   == {kasm, vnc, <<"web">>, agKasm, agVnc}
MCValidTags  == {agKasm, agVnc}
MCFlatTarget == [s \in {kasm, vnc} |-> IF s = kasm THEN agKasm ELSE agVnc]
=============================================================================
