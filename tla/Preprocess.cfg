CONSTANT Formulas <- MCFormulas
CONSTANTS Cells = 250
          Rows = 60
          MostCells = 16
          FewestInputs = 1
          MostInputs = 32
SPECIFICATION Spec
INVARIANTS TypeOK SatisfiabilityKept EveryVariableAccounted AnswerRight
PROPERTY TurnsShrink
