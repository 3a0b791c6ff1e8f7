SPECIFICATION Spec
CONSTANTS
    Chars = {97, 10}
    MaxText = 4
    StartStack = 8
    StackMargin = 5
    MaxUndo = 16
    Overflows = FALSE
    Lines = 2
    MaxKeys = 4
    Commands = {"BackSpace", "Delete", "Delete_Line", "Delete_To_Line_End", "Delete_To_Line_Begin", "Left", "Right", "Up", "Down", "Page_Up", "Page_Down", "Home", "End", "Beginning_Of_Text", "End_Of_Text", "Left_Highlight", "Right_Highlight", "Down_Highlight", "Toggle_Insert", "Mark", "Unmark", "Copy", "Move", "Remove"}
INVARIANTS Consistent CursorIsShown TypedIsKept BlocksAsMarked
PROPERTIES UndoIsExact
CHECK_DEADLOCK FALSE
