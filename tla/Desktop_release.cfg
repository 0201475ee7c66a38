\* One window that is dragged while init_gui runs.
CONSTANTS
    ScreenWidth = 3
    ScreenHeight = 3
    Modulus = 16
    MAX_WINDOWS = 1
    Sizes <- SmallWindow
    Stagger = 1
    Home = 1
    Buttons = {0, 1}
    Moves <- SignedMoves
    Ack = 0
SPECIFICATION Spec
PROPERTY ReleaseEndsDrag
CHECK_DEADLOCK FALSE
