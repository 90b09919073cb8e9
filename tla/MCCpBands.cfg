SPECIFICATION BandsSpec
CONSTANTS
    Boards = {"v5", "AC1"}
    Duties = {1, 2, 3, 4, 5, 6, 7, 8}
    MaxAdc = 4095
INVARIANTS BandsDecide
PROPERTIES NoJumpToCharge
