CONSTANT Formulas <- Overwriting
CONSTANTS Cells = 500
          Rows = 60
          MostCells = 16
          FewestInputs = 1
          MostInputs = 32
SPECIFICATION Spec
INVARIANT PrintedAnswerRight
