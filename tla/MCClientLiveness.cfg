SPECIFICATION Spec
CONSTANTS
    Tasks = {t1, t2}
    Lister = t1
    Handles = {h1}
PROPERTIES OperationsFinish ListingsBecomeCurrent
