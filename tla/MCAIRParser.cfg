SPECIFICATION Spec
CONSTANT Scripts <- MCScripts
INVARIANTS TypeOK NoTypeMismatch AcceptsTheLanguage TreeIsTheScript NoFalseAlarms AcceptedIsNested OneKindPerInstruction
PROPERTY Terminates
