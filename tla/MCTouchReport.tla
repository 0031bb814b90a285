--------------------------- MODULE MCTouchReport ---------------------------
(***************************************************************************)
(* TouchReport with fields of the sizes controllers use, fields that cross *)
(* bytes, and a table of objects.                                          *)
(***************************************************************************)
EXTENDS TouchReport

F(code, bits) == [code |-> code, bits |-> bits]

Aligned ==
  [frame |-> <<>>,
   object |-> <<F(TOUCH_OBJECT_N_INDEX, 4), F(TOUCH_OBJECT_N_CLASSIFICATION, 4),
                F(TOUCH_OBJECT_N_X_POSITION, 12), F(TOUCH_OBJECT_N_Y_POSITION, 12)>>]

Crossing ==
  [frame |-> <<F(TOUCH_TIMESTAMP, 16), F(TOUCH_CUSTOMER_GESTURE_INFO, 16)>>,
   object |-> <<F(TOUCH_OBJECT_N_INDEX, 5), F(TOUCH_OBJECT_N_CLASSIFICATION, 6),
                F(TOUCH_OBJECT_N_X_POSITION, 16), F(TOUCH_OBJECT_N_Y_POSITION, 13),
                F(TOUCH_OBJECT_N_Z, 8)>>]

Table ==
  [frame |-> <<F(TOUCH_TIMESTAMP, 8)>>,
   object |-> <<F(TOUCH_OBJECT_N_CLASSIFICATION, 2), F(TOUCH_OBJECT_N_X_POSITION, 11),
                F(TOUCH_OBJECT_N_Y_POSITION, 11)>>]

ActiveLayouts == {Aligned, Crossing}
AllObjectLayouts == {Table}

Fingers == [index : {0, 9}, class : {0, 2}, x : {5, 1750}, y : {1, 1371}]

=============================================================================
