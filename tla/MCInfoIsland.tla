----------------------------- MODULE MCInfoIsland -----------------------------
(* The ECC is linear: its check bits are right for every packet if they are  *)
(* right for each single bit and for none.  A dense packet joins them, and   *)
(* the packets of the table, each generic with all its values in turn.       *)
EXTENDS InfoIsland

Defaults ==
    [SCANMODE |-> "AUTO", PICTUREASPECT |-> "NONE", FORMATASPECT |-> "AUTO",
     PICTURESCALING |-> "FIT", COLORSPACE |-> "RGB", YCC_DATARANGE |-> "LIMITED",
     CONTENTTYPE |-> "GRAPHICS", REPETITION |-> 0, VIDEO_CODE |-> 0]

Values ==
    [SCANMODE |-> {"OVER", "UNDER"},
     PICTUREASPECT |-> {"4:3", "16:9"},
     FORMATASPECT |-> {"4:3", "16:9", "14:9", "NONE"},
     PICTURESCALING |-> {"HEIGHT", "WIDTH", "NONE"},
     CONTENTTYPE |-> {"PHOTO", "CINEMA", "GAME"},
     REPETITION |-> {9},
     VIDEO_CODE |-> {1, 59}]

\* The colour space and the data range act together.
SomeGenerics ==
    UNION {{[Defaults EXCEPT ![name] = v] : v \in Values[name]} :
               name \in DOMAIN Values}
        \cup {[Defaults EXCEPT !.COLORSPACE = space, !.YCC_DATARANGE = range] :
                 space \in {"RGB", "BT601", "BT709", "XVYCC601", "XVYCC709"},
                 range \in {"LIMITED", "FULL"}}

AllClocks ==
    {25175, 25200, 74250, 148500}
        \X {320, 441, 480, 882, 960, 1764, 1920}

BasisPackets ==
    [sb : {{i} : i \in 0..55}, hb : {{}}]
        \cup [sb : {{}}, hb : {{i} : i \in 0..23} \cup {{}}]
        \cup {[sb |-> 0..55, hb |-> 0..23]}

AllPackets == BasisPackets \cup TablePackets

=============================================================================
