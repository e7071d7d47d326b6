---------------------------- MODULE MCRestaurant ----------------------------
(* Small instances of the server's handlers. *)
EXTENDS Restaurant

CONSTANTS g1, g2, g3, c1, a1

NoThread == {}
OneGuest == {g1}
TwoGuests == {g1, g2}
ThreeGuests == {g1, g2, g3}
OneChef == {c1}
OneAdmin == {a1}
GuestSymmetry == Permutations(Guests)

NoCommands == {}
FloorCommands == {"add_table", "delete_table"}
MenuCommands == {"add_menu", "delete_menu", "delete_order"}

OneTable == <<4>>
OneItem == <<1>>
=============================================================================
