SPECIFICATION ModesSpec
CONSTANTS
    Brands = {"HONDA_NIDEC"}
    Brakes = {0, 1, 2}
    HYUNDAI_PREV_BUTTON_SAMPLES = 1
    NoAeb = FALSE
INVARIANTS
    StockAebWins
