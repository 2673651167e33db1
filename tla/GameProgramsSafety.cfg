SPECIFICATION Spec
CONSTANTS
    p1 = p1
    p2 = p2
    all = all
    shop = shop
    plain = plain
    Programs = {p1, p2}
    Natives = {all, shop, plain}
    ToAll = {all}
    ToShop = {shop}
    Game = game
    Main = main
    None = none
SYMMETRY Addresses
INVARIANTS
    TypeOK
    QuietIsSafe
    QuietDetours
    MapMatchesTables
    ExecutesPatched
PROPERTIES
    GivenBack
CHECK_DEADLOCK FALSE
